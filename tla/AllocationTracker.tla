------------------------- MODULE AllocationTracker -------------------------
(***************************************************************************)
(* The table of live Kokkos allocations the capture tool keeps             *)
(* (allocation_tracker.cpp), the profiling hooks that feed it              *)
(* (kokkosp_allocate_data and kokkosp_deallocate_data in                   *)
(* kokkos_hooks.cpp) and, as an environment, the Kokkos heap.              *)
(*                                                                         *)
(* Kokkos calls the allocation hook after it obtained the memory and the   *)
(* deallocation hook before it returns it, so a block goes through the     *)
(* phases "raw", "reported", "dying"; another thread may be in another     *)
(* phase of another block.  Each operation of the tracker holds mutex_ and *)
(* is therefore one step.                                                  *)
(*                                                                         *)
(* An operator no action uses (EmptyRecordKept, UpperBound, ...) is a slip *)
(* in the definition that follows it, and a property must catch it.        *)
(***************************************************************************)
EXTENDS DataSize, FiniteSets

CONSTANTS
  Space,              \* names of memory spaces
  Measurable,         \* spaces whose blocks the tool can measure
  Ptr,                \* addresses the Kokkos heap may return
  DataBytes,          \* data sizes of Views
  Slack,              \* bytes malloc may add to a block
  Legacy,             \* TRUE: Kokkos <= 5.2.0, see ReportedSize
  HasCompilerPlugins, \* KREPE_HAS_COMPILER_PLUGINS
  MaxBlocks,          \* bound: blocks in use at once
  MaxUsed             \* bound: registered pointers

ASSUME TrackerAssumption ==
  /\ Measurable \subseteq Space
  /\ Ptr \subseteq Nat \ {0}
  /\ DataBytes \subseteq Nat
  /\ Slack \subseteq 0 .. (HeaderSize - 1)
  /\ Legacy \in BOOLEAN
  /\ HasCompilerPlugins \in BOOLEAN
  /\ MaxBlocks \in Nat
  /\ MaxUsed \in Nat

Label == {"user", "internal"}   \* internal: is_internal_label holds
Phase == {"raw", "reported", "dying"}
Key   == Space \X Ptr

Block  == [label : Label, bytes : DataBytes, slack : Slack, phase : Phase]
Record == [label : Label, p_data : Nat, size : Nat, reported_size : Nat,
           data_size_known : BOOLEAN]

VARIABLES
  heap,     \* external: live block of each key in use
  active,   \* active_allocations_: record of each key
  used      \* used_allocations_: registered data pointers of each space

tvars == <<heap, active, used>>

Put(f, k, v)     == [x \in DOMAIN f \cup {k} |-> IF x = k THEN v ELSE f[x]]
Drop(f, k)       == [x \in DOMAIN f \ {k} |-> f[x]]

TrackerTypeOK ==
  /\ DOMAIN heap \subseteq Key
  /\ \A k \in DOMAIN heap : heap[k] \in Block
  /\ DOMAIN active \subseteq Key
  /\ \A k \in DOMAIN active : active[k] \in Record
  /\ used \in [Space -> SUBSET Nat]

-----------------------------------------------------------------------------
(* The physical block of a key, and the bytes of its data.                 *)
BlockEnd(k) == k[2] + HeaderSize + heap[k].bytes + heap[k].slack
DataBegin(k) == AllocationDataPointer(k[2])
DataEnd(k)   == DataBegin(k) + heap[k].bytes

Extent(k) ==
  IF k[1] \in Measurable
  THEN [base |-> k[2], size |-> BlockEnd(k) - k[2]]
  ELSE NoExtent

ShouldTrack(k) == heap[k].label # "internal"

-----------------------------------------------------------------------------
(* Critical sections of AllocationTracker.                                 *)
record_allocation(k, r) == active' = Put(active, k, r)

EmptyRecordKept(k) ==
  active' = IF k \in DOMAIN active /\ active[k].size = 0 THEN active
            ELSE Drop(active, k)

record_deallocation(k)       == active' = Drop(active, k)
record_used_allocation(s, u) == used' = [used EXCEPT ![s] = @ \cup {u}]
clear_used_allocations       == used' = [s \in Space |-> {}]

UpperBound(pointers, p) ==
  {u \in pointers : u > p /\ \A v \in pointers : v > p => u <= v}

(* std::lower_bound in the sorted pointers: the iterator as a set of at    *)
(* most one pointer, empty for end().                                      *)
LowerBound(pointers, p) ==
  {u \in pointers : u >= p /\ \A v \in pointers : v >= p => u <= v}

SnapshotUnbounded ==
  IF HasCompilerPlugins
  THEN {k \in DOMAIN active : LowerBound(used[k[1]], active[k].p_data) # {}}
  ELSE DOMAIN active

(* The keys snapshot() returns.                                            *)
Snapshot ==
  IF HasCompilerPlugins
  THEN {k \in DOMAIN active :
          \E u \in LowerBound(used[k[1]], active[k].p_data) :
            u <= active[k].p_data + active[k].size}
  ELSE DOMAIN active

-----------------------------------------------------------------------------
TrackerInit ==
  /\ heap   = [k \in {} |-> 0]
  /\ active = [k \in {} |-> 0]
  /\ used   = [s \in Space |-> {}]

(* Kokkos obtains a block that overlaps no block in use.                   *)
ObtainBlock(k, b) ==
  /\ k \notin DOMAIN heap
  /\ Cardinality(DOMAIN heap) < MaxBlocks
  /\ \A j \in DOMAIN heap :
       j[1] = k[1] =>
         \/ BlockEnd(j) <= k[2]
         \/ k[2] + HeaderSize + b.bytes + b.slack <= j[2]
  /\ b.phase = "raw"
  /\ heap' = Put(heap, k, b)
  /\ UNCHANGED <<active, used>>

UnknownSizeKept(size) == size

RecordedSize(size) == IF size = Unknown THEN 0 ELSE size

kokkosp_allocate_data(k) ==
  /\ k \in DOMAIN heap
  /\ heap[k].phase = "raw"
  /\ heap' = [heap EXCEPT ![k].phase = "reported"]
  /\ LET reported == ReportedSize(Legacy, heap[k].bytes)
         size     == AllocationDataSize(Extent(k), k[2], reported)
     IN  IF ShouldTrack(k)
         THEN record_allocation(k,
                [label           |-> heap[k].label,
                 p_data          |-> AllocationDataPointer(k[2]),
                 size            |-> RecordedSize(size),
                 reported_size   |-> reported,
                 data_size_known |-> size # Unknown])
         ELSE UNCHANGED active
  /\ UNCHANGED used

(* No label is tested here: erasing a key that is not tracked is harmless. *)
kokkosp_deallocate_data(k) ==
  /\ k \in DOMAIN heap
  /\ heap[k].phase = "reported"
  /\ heap' = [heap EXCEPT ![k].phase = "dying"]
  /\ record_deallocation(k)
  /\ UNCHANGED used

ReturnBlock(k) ==
  /\ k \in DOMAIN heap
  /\ heap[k].phase = "dying"
  /\ heap' = Drop(heap, k)
  /\ UNCHANGED <<active, used>>

Registered == UNION {{s} \X used[s] : s \in Space}

(* The functor being staged holds a View: of a live allocation (whole or   *)
(* a part of it), or of none (a null pointer).                             *)
register_view(s, u) ==
  /\ Cardinality(Registered \cup {<<s, u>>}) <= MaxUsed
  /\ \/ u = 0
     \/ \E k \in DOMAIN heap : /\ k[1] = s
                               /\ heap[k].phase = "reported"
                               /\ u \in DataBegin(k) .. DataEnd(k)
  /\ record_used_allocation(s, u)
  /\ UNCHANGED <<heap, active>>

clear_registered_views ==
  /\ clear_used_allocations
  /\ UNCHANGED <<heap, active>>

ViewPointers == {0} \cup UNION {DataBegin(k) .. DataEnd(k) : k \in DOMAIN heap}

TrackerNext ==
  \/ \E k \in Key :
       \/ \E b \in Block : ObtainBlock(k, b)
       \/ kokkosp_allocate_data(k)
       \/ kokkosp_deallocate_data(k)
       \/ ReturnBlock(k)
  \/ \E s \in Space, u \in ViewPointers : register_view(s, u)
  \/ clear_registered_views

TrackerSpec == TrackerInit /\ [][TrackerNext]_tvars

-----------------------------------------------------------------------------
(* The tool's table and the heap agree at every moment, whatever phases    *)
(* other blocks are in: the records are those of the user-visible blocks   *)
(* that are reported and not yet being released, each with the block's     *)
(* data pointer, and with its data size where that is known.  An address   *)
(* used again by another View never keeps its predecessor's record.        *)
TrackerMatchesHeap ==
  /\ DOMAIN active = {k \in DOMAIN heap : /\ heap[k].phase = "reported"
                                          /\ heap[k].label # "internal"}
  /\ \A k \in DOMAIN active :
       /\ active[k].p_data = DataBegin(k)
       /\ IF active[k].data_size_known THEN active[k].size = heap[k].bytes
          ELSE active[k].size = 0

(* With the compiler plugins, no View the functor holds is left out of a   *)
(* dump: a tracked allocation whose data a registered pointer points into, *)
(* or just past for an empty View, is in the snapshot.  A block of unknown *)
(* size is found only by the pointer to its first byte.                    *)
SnapshotHoldsUsedViews ==
  HasCompilerPlugins =>
    \A k \in DOMAIN active : \A u \in used[k[1]] :
      /\ u \in DataBegin(k) .. DataEnd(k)
      /\ active[k].data_size_known \/ u = DataBegin(k)
      => k \in Snapshot

(* With the compiler plugins, a dump holds no other allocation: each one   *)
(* in the snapshot has a registered pointer in (or just past) its data.    *)
SnapshotHoldsOnlyUsedViews ==
  HasCompilerPlugins =>
    \A k \in Snapshot : \E u \in used[k[1]] : u \in DataBegin(k) .. DataEnd(k)

(* Two allocations of one snapshot never share a byte, so the replayer can *)
(* restore each at its own address.                                        *)
SnapshotDisjoint ==
  \A j, k \in Snapshot :
    j # k /\ j[1] = k[1] =>
      \/ active[j].p_data + active[j].size <= active[k].p_data
      \/ active[k].p_data + active[k].size <= active[j].p_data
=============================================================================
