---------------------------- MODULE RegionMerge ----------------------------
(***************************************************************************)
(* compute_allocations (kernel_replayer.cpp) as a state machine, one       *)
(* action for each iteration of its loop, so that the loop invariant can   *)
(* be stated and proved.  The std::set it runs over is sorted: an          *)
(* iteration takes the least pair.                                         *)
(***************************************************************************)
EXTENDS Regions, FiniteSets

CONSTANTS
  Address, Size, \* where captured allocations may be and how long
  MaxWanted      \* bound: allocations of one dump

ASSUME RegionAssumption ==
  /\ Address \subseteq Nat
  /\ Size \subseteq Nat \ {0}
  /\ MaxWanted \in Nat

-----------------------------------------------------------------------------
VARIABLES
  wanted,  \* the captured allocations, pairs of address and size
  todo,    \* regions the loop has not reached
  state,   \* current region and allocs
  done

mergeVars == <<wanted, todo, state, done>>

Regions == {get_allocation_address(w[1], w[2]) : w \in wanted}

(* The loop's first statement takes *(it++).                               *)
Begin ==
  /\ wanted \in SUBSET (Address \X Size)
  /\ wanted # {}
  /\ todo = Regions \ {Least(Regions)}
  /\ state = [current |-> Least(Regions), allocs |-> {}]
  /\ done = FALSE

MergeInit ==
  /\ wanted \in {W \in SUBSET (Address \X Size) : Cardinality(W) <= MaxWanted}
  /\ Begin

Iterate ==
  /\ todo # {}
  /\ state' = Visit(state, Least(todo))
  /\ todo' = todo \ {Least(todo)}
  /\ UNCHANGED <<wanted, done>>

Return ==
  /\ todo = {}
  /\ ~done
  /\ state' = [state EXCEPT !.allocs = @ \cup {state.current}]
  /\ done' = TRUE
  /\ UNCHANGED <<wanted, todo>>

MergeNext == Iterate \/ Return

MergeSpec == MergeInit /\ [][MergeNext]_mergeVars

-----------------------------------------------------------------------------
MergeTypeOK ==
  /\ wanted \in SUBSET (Address \X Size)
  /\ todo \in SUBSET Region
  /\ state \in [current : Region, allocs : SUBSET Region]
  /\ done \in BOOLEAN

Mapped == state.allocs

(* No byte is in two regions: each is mapped with MAP_FIXED_NOREPLACE,     *)
(* which would fail.                                                       *)
RegionsDisjoint ==
  \A r, s \in Mapped : r # s => End(r) <= s.start \/ End(s) <= r.start

(* Every captured allocation lies in one region, whatever page boundaries  *)
(* it crosses and whichever others share its pages or are nested in it.    *)
RegionsCover ==
  done => \A w \in wanted : \E r \in Mapped :
            r.start <= w[1] /\ w[1] + w[2] <= End(r)

(* No page is mapped that no captured allocation touches: it may be in use *)
(* by the replaying process.                                               *)
RegionsTight ==
  \A r \in Mapped : \A x \in r.start .. (End(r) - 1) :
    \E w \in wanted : /\ RoundDown(w[1]) <= x
                      /\ x < RoundUp(w[1] + w[2])

(* A region is made of whole pages (host_allocate asserts it).             *)
RegionsAligned ==
  \A r \in Mapped : r.start % Granularity = 0 /\ r.size % Granularity = 0
=============================================================================
