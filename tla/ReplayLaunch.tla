---------------------------- MODULE ReplayLaunch ----------------------------
(***************************************************************************)
(* A replay program from its command line to the launch of the captured    *)
(* kernel (replay/kernel_replayer.hpp and .cpp): the ScopeGuard takes the  *)
(* name of the dump from the command line and reads the functor and the    *)
(* policy; krepe::parallel_for revives the functor (replay_functor), one   *)
(* step per statement that matters, and launches it with the policy of the *)
(* dump or with the one force_policy gives.                                *)
(*                                                                         *)
(* A functor is its bytes and, with nvcc, those of the host lambda it      *)
(* points to.  What may go wrong is in the Views it holds: bytes "stored"  *)
(* in the dump have handles to records of another process, and a handle    *)
(* that is "counted" is given back by the destructor.  A copy made while   *)
(* tracking is disabled is not counted, nor are copies of it.              *)
(*                                                                         *)
(* An operator no action uses (InnerLambdaLeft, ...) is a slip in the      *)
(* definition that follows it, and a property must catch it.               *)
(***************************************************************************)
EXTENDS CommandLine, PolicyCodec

CONSTANTS
  Dump,     \* what files may hold: the policy the kernel was captured with
            \* (Nothing for replay_functor alone), the argument counts its
            \* functor accepts, and the bytes it takes
  Files,    \* the dump each file name stands for
  Policies, \* the policies force_policy may be given
  Sizes,    \* sizeof the functors the program replays with
  Pointer,  \* sizeof(void*)
  MaxCalls  \* bound: calls of krepe::parallel_for

ASSUME ReplayLaunchAssumption ==
  /\ Dump \subseteq [policy : Policy \cup {Nothing}, accepts : SUBSET (0 .. 6), size : Nat]
  /\ Files \in [DOMAIN Files -> Dump]
  /\ Nothing \notin Policy
  /\ Sizes \subseteq Nat
  /\ Pointer \in Nat
  /\ MaxCalls \in Nat

VARIABLES
  dump,          \* history: the dump that was loaded
  replay_policy, \* as read from it
  functor_data,  \* the size of the functor in it
  hdl,           \* the functor is an nvcc extended lambda
  at,            \* the step of the program
  size,          \* sizeof the functor of this call
  forced,        \* the policy of this call's force_policy, or Nothing
  tracking,      \* Kokkos counts copies of Views
  dummy_functor, \* the temporary in dummy_functor_storage
  saved,         \* its bytes before they were replaced
  f,             \* the functor replay_functor returns
  launched,      \* the policy Kokkos::parallel_for was last given
  calls,         \* number of calls of krepe::parallel_for
  threw          \* history: init_functor threw since tracking was last on

callVars == <<at, size, forced, tracking, dummy_functor, saved, f, launched,
              calls, threw>>
loadVars == <<dump, replay_policy, functor_data, hdl>>
vars == <<argVars, loadVars, callVars>>

-----------------------------------------------------------------------------
Bytes == [from : {"user", "stored"}, counted : BOOLEAN]
Functor == [object : Bytes, inner : Bytes]

Users == [from |-> "user", counted |-> tracking]
UserFunctor == [object |-> Users, inner |-> Users]
Stored == [from |-> "stored", counted |-> TRUE]

CopiedBytes(b) == [b EXCEPT !.counted = @ /\ tracking]
CopyOf(g) == [object |-> CopiedBytes(g.object), inner |-> CopiedBytes(g.inner)]

(* Its destructor gives back records that are not of this process.         *)
Releases(b) == b.from = "stored" /\ b.counted
Dangerous(g) == Releases(g.object) \/ (hdl /\ Releases(g.inner))

Init ==
  /\ ArgInit
  /\ dump = Nothing
  /\ replay_policy = NoPolicyDesc
  /\ functor_data = 0
  /\ hdl \in BOOLEAN
  /\ at = "start"
  /\ size = 0
  /\ forced = Nothing
  /\ tracking = TRUE
  /\ dummy_functor = UserFunctor
  /\ saved = UserFunctor
  /\ f = UserFunctor
  /\ launched = Nothing
  /\ calls = 0
  /\ threw = FALSE

(* krepe::ScopeGuard, as far as the functor and the policy go.             *)
FindFlag ==
  /\ at = "start"
  /\ find_flag_argument
  /\ UNCHANGED <<loadVars, callVars>>

Described(d) == IF d.policy = Nothing THEN NoPolicyDesc ELSE register_bounds(d.policy)

Load ==
  /\ at = "start" /\ step = "found"
  /\ IF argument \in DOMAIN Files /\ ReadsPolicy(Described(Files[argument]))
     THEN /\ dump' = Files[argument]
          /\ replay_policy' = Described(Files[argument])
          /\ functor_data' = Files[argument].size
          /\ at' = "ready"
     ELSE at' = "failed" /\ UNCHANGED <<dump, replay_policy, functor_data>>
  /\ UNCHANGED <<argVars, hdl, size, forced, tracking, dummy_functor, saved, f,
                 launched, calls, threw>>

-----------------------------------------------------------------------------
(* replay_functor                                                          *)

unchanged == UNCHANGED <<argVars, loadVars, calls>>

tracking_disable ==
  /\ at = "ready" /\ calls < MaxCalls
  /\ calls' = calls + 1
  /\ size' \in Sizes
  /\ forced' \in Policies \cup {Nothing}
  /\ tracking' = FALSE
  /\ at' = "construct"
  /\ dummy_functor' = UserFunctor
  /\ UNCHANGED <<argVars, loadVars, saved, f, launched, threw>>

(* The temporary is copied from the functor of the call, and saved.        *)
construct_dummy ==
  /\ at = "construct"
  /\ dummy_functor' = CopyOf(dummy_functor)
  /\ saved' = CopyOf(dummy_functor)
  /\ at' = "init_functor"
  /\ UNCHANGED <<size, forced, tracking, f, launched, threw>> /\ unchanged

Requested == IF hdl THEN size - Pointer ELSE size

init_functor_throws ==
  /\ at = "init_functor" /\ functor_data < Requested
  /\ at' = "ready"
  /\ threw' = TRUE
  /\ UNCHANGED <<size, forced, tracking, dummy_functor, saved, f, launched>>
  /\ unchanged

init_functor ==
  /\ at = "init_functor" /\ functor_data >= Requested
  /\ dummy_functor' = [dummy_functor EXCEPT !.object = Stored]
  /\ at' = IF hdl THEN "inner" ELSE "copy"
  /\ UNCHANGED <<size, forced, tracking, saved, f, launched, threw>> /\ unchanged

copy_extended_lambda_inner_lambda ==
  /\ at = "inner"
  /\ saved' = [saved EXCEPT !.inner = dummy_functor.inner]
  /\ dummy_functor' = [dummy_functor EXCEPT !.inner = Stored]
  /\ at' = "copy"
  /\ UNCHANGED <<size, forced, tracking, f, launched, threw>> /\ unchanged

copy_functor ==
  /\ at = "copy"
  /\ f' = CopyOf(dummy_functor)
  /\ at' = "restore"
  /\ UNCHANGED <<size, forced, tracking, dummy_functor, saved, launched, threw>>
  /\ unchanged

restore_dummy ==
  /\ at = "restore"
  /\ dummy_functor' = [dummy_functor EXCEPT !.object = saved.object]
  /\ at' = IF hdl THEN "restore_inner" ELSE "destroy"
  /\ UNCHANGED <<size, forced, tracking, saved, f, launched, threw>> /\ unchanged

InnerLambdaLeft ==
  /\ at = "restore_inner"
  /\ at' = "destroy"
  /\ UNCHANGED <<size, forced, tracking, dummy_functor, saved, f, launched, threw>>
  /\ unchanged

restore_extended_lambda_inner_lambda ==
  /\ at = "restore_inner"
  /\ dummy_functor' = [dummy_functor EXCEPT !.inner = saved.inner]
  /\ at' = "destroy"
  /\ UNCHANGED <<size, forced, tracking, saved, f, launched, threw>> /\ unchanged

destroy_dummy ==
  /\ at = "destroy"
  /\ at' = IF Dangerous(dummy_functor) THEN "crashed" ELSE "enable"
  /\ UNCHANGED <<size, forced, tracking, dummy_functor, saved, f, launched, threw>>
  /\ unchanged

EnableForgotten ==
  /\ at = "enable"
  /\ threw' = FALSE
  /\ at' = "visit"
  /\ UNCHANGED <<size, forced, tracking, dummy_functor, saved, f, launched>>
  /\ unchanged

tracking_enable ==
  /\ at = "enable"
  /\ tracking' = TRUE
  /\ threw' = FALSE
  /\ at' = "visit"
  /\ UNCHANGED <<size, forced, dummy_functor, saved, f, launched>> /\ unchanged

replay_functor ==
  \/ tracking_disable \/ construct_dummy \/ init_functor_throws \/ init_functor
  \/ copy_extended_lambda_inner_lambda \/ copy_functor \/ restore_dummy
  \/ restore_extended_lambda_inner_lambda \/ destroy_dummy \/ tracking_enable

-----------------------------------------------------------------------------
(* krepe::parallel_for: ParallelForVisitor and its copy of f, and what     *)
(* happens to f afterwards.  Without a policy the visitor throws.          *)
ParallelForVisitor ==
  /\ at = "visit"
  /\ IF forced = Nothing /\ replay_policy = NoPolicyDesc
     THEN at' = "refused" /\ launched' = Nothing
     ELSE /\ at' = "launched"
          /\ launched' = IF forced # Nothing THEN forced
                         ELSE IF Arity(replay_policy) \in dump.accepts
                              THEN Rebuilt(replay_policy) ELSE Nothing
  /\ f' = CopyOf(f)
  /\ UNCHANGED <<size, forced, tracking, dummy_functor, saved, threw>> /\ unchanged

parallel_for_returns ==
  /\ at \in {"launched", "refused"}
  /\ at' = IF Dangerous(f) THEN "crashed" ELSE "ready"
  /\ UNCHANGED <<size, forced, tracking, dummy_functor, saved, f, launched, threw>>
  /\ unchanged

Next ==
  \/ FindFlag \/ Load \/ replay_functor \/ ParallelForVisitor
  \/ parallel_for_returns

Spec == Init /\ [][Next]_vars

-----------------------------------------------------------------------------
InCall == {"construct", "init_functor", "inner", "copy", "restore",
           "restore_inner", "destroy", "enable"}

LaunchTypeOK ==
  /\ ArgTypeOK
  /\ dump \in Dump \cup {Nothing}
  /\ functor_data \in Nat
  /\ hdl \in BOOLEAN
  /\ at \in {"start", "failed", "ready", "visit", "launched", "refused", "crashed"} \cup InCall
  /\ size \in Sizes \cup {0}
  /\ forced \in Policies \cup {Nothing}
  /\ tracking \in BOOLEAN
  /\ {dummy_functor, saved, f} \subseteq Functor
  /\ calls \in 0 .. MaxCalls
  /\ threw \in BOOLEAN

(* A captured kernel is launched again with the policy it had: its bounds  *)
(* whatever the width and the sign of the index type, its schedule, tiles, *)
(* directions, team shape and chunk.  The scratch sizes are lost where     *)
(* they cannot be queried, and nothing is launched, without a word, when   *)
(* the functor only has an operator() with a work tag.  A call that has no *)
(* policy to launch with, and no other one, throws; a dump whose space or  *)
(* rank this build does not have is never loaded.                          *)
ReplayedPolicy(p) ==
  IF p.type = "team" /\ p.space \notin QueryableSpace
  THEN [p EXCEPT !.scratch = <<0, 0, 0, 0>>] ELSE p

Supported(p) ==
  /\ p # Nothing /\ p.type # "scalar" => p.space \in EnabledSpace
  /\ p # Nothing /\ p.type = "mdrange" => p.rank \in Ranks

LaunchedAsCaptured ==
  /\ at \notin {"start", "failed"} => Supported(dump.policy)
  /\ at = "refused" => forced = Nothing /\ dump.policy = Nothing
  /\ at = "launched" /\ forced = Nothing =>
       /\ dump.policy # Nothing
       /\ launched = IF Arity(dump.policy) \in dump.accepts
                     THEN ReplayedPolicy(dump.policy) ELSE Nothing

(* The kernel runs with the bytes of the dump, and no destructor, of the   *)
(* temporary, of f or of the visitor's copies, ever gives back a handle    *)
(* that came with them: the records are not of this process.               *)
StoredNeverReleased ==
  /\ at # "crashed"
  /\ at \in {"launched", "refused"} =>
       /\ f.object.from = "stored" /\ ~f.object.counted
       /\ hdl => f.inner.from = "stored" /\ ~f.inner.counted

(* Outside replay_functor Kokkos counts Views again, or the program's own  *)
(* would be used after they are freed.  That is so after every call but    *)
(* one whose init_functor threw because the dump holds a smaller functor,  *)
(* and until the next call that returns.                                   *)
TrackingBack == at \notin InCall => (tracking <=> ~threw)
=============================================================================
