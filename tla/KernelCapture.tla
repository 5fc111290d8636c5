---------------------------- MODULE KernelCapture ----------------------------
(***************************************************************************)
(* Capturing one kernel: application threads that launch Kokkos kernels    *)
(* (through krepe::parallel_for or directly), the extractor library that   *)
(* stages the functor, the policy and the Views of the next launch         *)
(* (extract/), the profiling hooks that count invocations and write the    *)
(* dump (capture/), and the device that runs kernels asynchronously.       *)
(*                                                                         *)
(* Every critical section of state_mutex, of the tracker's mutex_ and any  *)
(* unlocked access to a global of the tool is a step of its own.  The      *)
(* tracker is the one of AllocationTracker, seen through what its theorems *)
(* say: a snapshot holds the reported Views, with the compiler plugins     *)
(* those of them that are registered.  Bytes are abstracted to the launch  *)
(* that wrote them last.                                                   *)
(*                                                                         *)
(* An operator no action uses (DumpEveryInvocation, ...) is a slip in the  *)
(* definition that follows it, and one of the properties must catch it.    *)
(***************************************************************************)
EXTENDS Integers, FiniteSets

CONSTANTS
  Thread, Label, View,
  LabelsOf,           \* [Thread -> SUBSET Label]: kernels a thread launches
  ViewsOf,            \* [Thread -> SUBSET View]: Views only it uses
  ModeOf,             \* [Label -> Mode]: how the application launches it
  DumpLabel,          \* --krepe-dump-kernel-label
  DumpInvocation,     \* --krepe-dump-kernel-invocation, 0 when invalid
  HasCompilerPlugins, \* KREPE_HAS_COMPILER_PLUGINS
  ToolHasFence,       \* Kokkos provided the tool programming interface
  EarlyMetadata,      \* the application may add metadata before initialize
  DumpMayFail,        \* HDF5 calls may fail
  MaxLaunches         \* bound: launches of one thread

ASSUME CaptureAssumption ==
  /\ LabelsOf \in [Thread -> SUBSET Label]
  /\ ViewsOf \in [Thread -> SUBSET View]
  /\ \A s, t \in Thread : s # t => ViewsOf[s] \cap ViewsOf[t] = {}
  /\ ModeOf \in [Label -> {"krepe", "functor", "plain"}]
  /\ DumpLabel \in Label
  /\ DumpInvocation \in Nat
  /\ HasCompilerPlugins \in BOOLEAN
  /\ ToolHasFence \in BOOLEAN
  /\ EarlyMetadata \in BOOLEAN
  /\ DumpMayFail \in BOOLEAN
  /\ MaxLaunches \in Nat

(* A kernel is launched by krepe::parallel_for, by a function of the       *)
(* application's own given krepe::replay_functor(f), or without KREPE.     *)
Launch   == Thread \X (1 .. MaxLaunches)   \* a launch is also its functor
NoLaunch == <<>>
MaybeLaunch == Launch \cup {NoLaunch}

VARIABLES
  (* external: the application threads inside a launch                     *)
  pc, launch, label, views,
  (* external: the Kokkos heap and the device                              *)
  heap,       \* phase of each View's allocation
  mem,        \* launch that last wrote each View
  issued,     \* history: the same in the order launches were issued
  pending,    \* kernels dispatched and not finished
  loaded,     \* Kokkos::initialize has loaded the tool
  (* extractor: has_kernel_dump_tool                                       *)
  binding,
  (* globals of the tool                                                   *)
  next_kernel_id, kernel_invocations, kernel_states,
  functor_data, policy, used_allocations,
  (* locals of begin_kernel and end_kernel, and of the calls they make     *)
  id, snap, todo, awaited,
  (* the file system *)
  dumps,
  (* history: the launch chosen for the dump, and its Views' contents then *)
  selected

appVars   == <<launch, label, views>>
kokkosVars == <<heap, mem, issued, pending, loaded>>
stageVars == <<functor_data, policy, used_allocations>>
countVars == <<next_kernel_id, kernel_invocations, kernel_states>>
localVars == <<id, snap, todo, awaited>>
vars == <<pc, appVars, kokkosVars, binding, countVars, stageVars, localVars,
          dumps, selected>>

-----------------------------------------------------------------------------
Put(f, k, v) == [x \in DOMAIN f \cup {k} |-> IF x = k THEN v ELSE f[x]]
Drop(f, k)   == [x \in DOMAIN f \ {k} |-> f[x]]
Empty        == [x \in {} |-> NoLaunch]

Idle      == {"app"}
Staging   == {"policy", "clear", "register", "functor"}
Beginning == {"fence_in", "wait_in", "snap_in", "create", "copy_in",
              "write_policy", "write_functor", "record"}
Ending    == {"fence_out", "wait_out", "snap_out", "append", "copy_out"}
Pc == Idle \cup {"ask", "replay"} \cup Staging \cup {"begin", "count"} \cup Beginning
      \cup {"dispatch", "end"} \cup Ending

Phase == {"none", "raw", "live", "dying"}
Contents == [View -> MaybeLaunch]
Kernel == [launch : Launch, views : SUBSET View]
FileState == {"writing_in", "failed_in", "in", "writing_out", "failed_out",
              "complete"}
PartialContents == UNION {[S -> MaybeLaunch] : S \in SUBSET View}
Dump == [state : FileState, label : Label, invocation : Nat \ {0},
         functor : MaybeLaunch, policy : MaybeLaunch,
         in : PartialContents, out : PartialContents]
Selected == [launch : Launch, before : PartialContents]
NotSelected == [launch |-> NoLaunch, before |-> Empty]
KernelState == [invocation : Nat \ {0}, dump_path : BOOLEAN]

DumpEveryInvocation(l, n) == DumpInvocation # 0 /\ l = DumpLabel

should_dump_views_for_invocation(l, n) ==
  DumpInvocation # 0 /\ l = DumpLabel /\ n = DumpInvocation

CurrentInvocationWillDump(l) ==
  should_dump_views_for_invocation(l, kernel_invocations[l])

next_invocation_will_dump(l) ==
  should_dump_views_for_invocation(l, kernel_invocations[l] + 1)

InvocationNotCounted(l) == kernel_invocations[l]

(* ++kernel_invocations[label].                                            *)
NextInvocation(l) == kernel_invocations[l] + 1

Reported == {v \in View : heap[v] = "live"}
SnapshotUnfiltered    == Reported
SnapshotAlwaysFiltered == Reported \cap used_allocations

Snapshot == IF HasCompilerPlugins THEN Reported \cap used_allocations
            ELSE Reported

FenceForgotten == {}

(* fence(device_id) waits for what was dispatched when it was called.      *)
FenceWaitsFor == IF ToolHasFence THEN pending ELSE {}

GoTo(t, p) == pc' = [pc EXCEPT ![t] = p]

(* A View is held by the launch whose functor has captured it until the    *)
(* kernel has run.                                                         *)
Held == (UNION {views[t] : t \in {s \in Thread : pc[s] # "app"}})
        \cup (UNION {k.views : k \in pending})

Init ==
  /\ pc = [t \in Thread |-> "app"]
  /\ launch = [t \in Thread |-> 0]
  /\ label = [t \in Thread |-> DumpLabel]
  /\ views = [t \in Thread |-> {}]
  /\ heap = [v \in View |-> "none"]
  /\ mem = [v \in View |-> NoLaunch]
  /\ issued = [v \in View |-> NoLaunch]
  /\ pending = {}
  /\ loaded = FALSE
  /\ binding = "unset"
  /\ next_kernel_id = 1
  /\ kernel_invocations = [l \in Label |-> 0]
  /\ kernel_states = [k \in {} |-> 0]
  /\ functor_data = NoLaunch
  /\ policy = NoLaunch
  /\ used_allocations = {}
  /\ id = [t \in Thread |-> 0]
  /\ snap = [t \in Thread |-> {}]
  /\ todo = [t \in Thread |-> {}]
  /\ awaited = [t \in Thread |-> {}]
  /\ dumps = [k \in {} |-> 0]
  /\ selected = NotSelected

-----------------------------------------------------------------------------
(* Kokkos and the application.                                             *)

Initialize ==
  /\ ~loaded
  /\ loaded' = TRUE
  /\ UNCHANGED <<pc, appVars, heap, mem, issued, pending, binding, countVars,
                 stageVars, localVars, dumps, selected>>

(* A View comes and goes in two steps around the profiling hook: the hook  *)
(* sees the memory after it was obtained, and before it is returned.       *)
ObtainMemory(v) ==
  /\ loaded
  /\ heap[v] = "none"
  /\ heap' = [heap EXCEPT ![v] = "raw"]
  /\ mem' = [mem EXCEPT ![v] = NoLaunch]
  /\ issued' = [issued EXCEPT ![v] = NoLaunch]

kokkosp_allocate_data(v) ==
  /\ heap[v] = "raw"
  /\ heap' = [heap EXCEPT ![v] = "live"]
  /\ UNCHANGED <<mem, issued>>

kokkosp_deallocate_data(v) ==
  /\ heap[v] = "live"
  /\ v \notin Held
  /\ heap' = [heap EXCEPT ![v] = "dying"]
  /\ UNCHANGED <<mem, issued>>

ReturnMemory(v) ==
  /\ heap[v] = "dying"
  /\ heap' = [heap EXCEPT ![v] = "none"]
  /\ UNCHANGED <<mem, issued>>

(* The owner creates and destroys its Views between launches.              *)
ViewStep(t) ==
  /\ pc[t] = "app"
  /\ \E v \in ViewsOf[t] :
       \/ ObtainMemory(v) \/ kokkosp_allocate_data(v)
       \/ kokkosp_deallocate_data(v) \/ ReturnMemory(v)
  /\ UNCHANGED <<pc, appVars, pending, loaded, binding, countVars, stageVars,
                 localVars, dumps, selected>>

StartLaunch(t) ==
  /\ pc[t] = "app"
  /\ loaded
  /\ launch[t] < MaxLaunches
  /\ \E l \in LabelsOf[t], vs \in SUBSET (ViewsOf[t] \cap Reported) :
       /\ launch' = [launch EXCEPT ![t] = @ + 1]
       /\ label' = [label EXCEPT ![t] = l]
       /\ views' = [views EXCEPT ![t] = vs]
       /\ GoTo(t, CASE ModeOf[l] = "krepe"   -> "ask"
                    [] ModeOf[l] = "functor" -> "replay"
                    [] ModeOf[l] = "plain"   -> "begin")
  /\ UNCHANGED <<kokkosVars, binding, countVars, stageVars, localVars, dumps,
                 selected>>

This(t) == <<t, launch[t]>>

(* The kernels one thread dispatched run in order.                         *)
Execute(k) ==
  /\ k \in pending
  /\ \A j \in pending : j.launch[1] = k.launch[1] => j.launch[2] >= k.launch[2]
  /\ pending' = pending \ {k}
  /\ mem' = [v \in View |-> IF v \in k.views THEN k.launch ELSE mem[v]]
  /\ UNCHANGED <<pc, appVars, heap, issued, loaded, binding, countVars,
                 stageVars, localVars, dumps, selected>>

-----------------------------------------------------------------------------
(* The extractor: krepe::parallel_for and krepe::add_metadata.             *)

(* init_internal_functions latches what it finds the first time.           *)
init_internal_functions ==
  binding' = IF binding # "unset" THEN binding
             ELSE IF loaded THEN "tool" ELSE "none"

add_metadata ==
  /\ EarlyMetadata \/ loaded
  /\ init_internal_functions
  /\ UNCHANGED <<pc, appVars, kokkosVars, countVars, stageVars, localVars,
                 dumps, selected>>

(* krepe::parallel_for: without the tool, or when the next launch of the   *)
(* label is not the one to dump, it only launches the kernel.              *)
parallel_for(t) ==
  /\ pc[t] = "ask"
  /\ init_internal_functions
  /\ IF binding' = "tool" /\ next_invocation_will_dump(label[t])
     THEN GoTo(t, "policy")
     ELSE GoTo(t, "begin")
  /\ UNCHANGED <<appVars, kokkosVars, countVars, stageVars, localVars, dumps,
                 selected>>

register_bounds(t) ==
  /\ pc[t] = "policy"
  /\ policy' = This(t)
  /\ GoTo(t, IF HasCompilerPlugins THEN "clear" ELSE "functor")
  /\ UNCHANGED <<appVars, kokkosVars, binding, countVars, functor_data,
                 used_allocations, localVars, dumps, selected>>

(* krepe::replay_functor called by the application stages whatever it is   *)
(* given: it does not ask whether the next launch will be dumped.          *)
replay_functor(t) ==
  /\ pc[t] = "replay"
  /\ init_internal_functions
  /\ GoTo(t, IF binding' # "tool" THEN "begin"
             ELSE IF HasCompilerPlugins THEN "clear" ELSE "functor")
  /\ UNCHANGED <<appVars, kokkosVars, countVars, stageVars, localVars, dumps,
                 selected>>

(* The calls the compiler plugins insert at the head of replay_functor.    *)
clear_registered_views(t) ==
  /\ pc[t] = "clear"
  /\ used_allocations' = {}
  /\ todo' = [todo EXCEPT ![t] = views[t]]
  /\ GoTo(t, "register")
  /\ UNCHANGED <<appVars, kokkosVars, binding, countVars, functor_data, policy,
                 id, snap, awaited, dumps, selected>>

register_view(t) ==
  /\ pc[t] = "register"
  /\ \/ \E v \in todo[t] :
          /\ used_allocations' = used_allocations \cup {v}
          /\ todo' = [todo EXCEPT ![t] = @ \ {v}]
          /\ UNCHANGED pc
     \/ /\ todo[t] = {}
        /\ GoTo(t, "functor")
        /\ UNCHANGED <<used_allocations, todo>>
  /\ UNCHANGED <<appVars, kokkosVars, binding, countVars, functor_data, policy,
                 id, snap, awaited, dumps, selected>>

CopyFirstFunctorOnly(t) ==
  /\ pc[t] = "functor"
  /\ functor_data' = IF functor_data = NoLaunch THEN This(t) ELSE functor_data
  /\ GoTo(t, "begin")
  /\ UNCHANGED <<appVars, kokkosVars, binding, countVars, policy,
                 used_allocations, localVars, dumps, selected>>

copy_functor(t) ==
  /\ pc[t] = "functor"
  /\ functor_data' = This(t)
  /\ GoTo(t, "begin")
  /\ UNCHANGED <<appVars, kokkosVars, binding, countVars, policy,
                 used_allocations, localVars, dumps, selected>>

-----------------------------------------------------------------------------
(* begin_kernel, called by every kokkosp_begin_parallel_* hook.            *)

FetchKernelId(t) ==
  /\ pc[t] = "begin"
  /\ id' = [id EXCEPT ![t] = next_kernel_id]
  /\ next_kernel_id' = next_kernel_id + 1
  /\ GoTo(t, "count")
  /\ UNCHANGED <<appVars, kokkosVars, binding, kernel_invocations,
                 kernel_states, stageVars, snap, todo, awaited, dumps, selected>>

CountInvocation(t) ==
  LET l == label[t]
      n == NextInvocation(l)
  IN
  /\ pc[t] = "count"
  /\ kernel_invocations' = [kernel_invocations EXCEPT ![l] = n]
  /\ kernel_states' = Put(kernel_states, id[t],
                          [invocation |-> n, dump_path |-> FALSE])
  /\ IF should_dump_views_for_invocation(l, n)
     THEN /\ GoTo(t, "fence_in")
          /\ selected' = [launch |-> This(t),
                          before |-> [v \in views[t] |-> issued[v]]]
     ELSE GoTo(t, "dispatch") /\ UNCHANGED selected
  /\ UNCHANGED <<appVars, kokkosVars, binding, next_kernel_id, stageVars,
                 localVars, dumps>>

CallFence(t, from, to) ==
  /\ pc[t] = from
  /\ awaited' = [awaited EXCEPT ![t] = FenceWaitsFor]
  /\ GoTo(t, to)
  /\ UNCHANGED <<appVars, kokkosVars, binding, countVars, stageVars, id, snap,
                 todo, dumps, selected>>

ReturnFromFence(t, from, to) ==
  /\ pc[t] = from
  /\ awaited[t] \cap pending = {}
  /\ awaited' = [awaited EXCEPT ![t] = {}]
  /\ GoTo(t, to)
  /\ UNCHANGED <<appVars, kokkosVars, binding, countVars, stageVars, id, snap,
                 todo, dumps, selected>>

SnapshotForgetsViews(t, from, to) ==
  /\ pc[t] = from
  /\ snap' = [snap EXCEPT ![t] = Snapshot]
  /\ used_allocations' = {}
  /\ GoTo(t, to)
  /\ UNCHANGED <<appVars, kokkosVars, binding, countVars, functor_data, policy,
                 id, todo, awaited, dumps, selected>>

TakeSnapshot(t, from, to) ==
  /\ pc[t] = from
  /\ snap' = [snap EXCEPT ![t] = Snapshot]
  /\ GoTo(t, to)
  /\ UNCHANGED <<appVars, kokkosVars, binding, countVars, stageVars, id, todo,
                 awaited, dumps, selected>>

(* H5Fcreate.                                                              *)
create_kernel_dump(t) ==
  /\ pc[t] = "create"
  /\ dumps' = Put(dumps, id[t],
       [state |-> "writing_in", label |-> label[t],
        invocation |-> kernel_states[id[t]].invocation,
        functor |-> NoLaunch, policy |-> NoLaunch,
        in |-> Empty, out |-> Empty])
  /\ todo' = [todo EXCEPT ![t] = snap[t]]
  /\ GoTo(t, "copy_in")
  /\ UNCHANGED <<appVars, kokkosVars, binding, countVars, stageVars, id, snap,
                 awaited, selected>>

(* write_allocation_group of one allocation of the input snapshot.         *)
CopyIn(t) ==
  /\ pc[t] = "copy_in"
  /\ \/ \E v \in todo[t] :
          /\ dumps' = [dumps EXCEPT ![id[t]].in = Put(@, v, mem[v])]
          /\ todo' = [todo EXCEPT ![t] = @ \ {v}]
          /\ UNCHANGED pc
     \/ /\ todo[t] = {}
        /\ GoTo(t, "write_policy")
        /\ UNCHANGED <<dumps, todo>>
  /\ UNCHANGED <<appVars, kokkosVars, binding, countVars, stageVars, id, snap,
                 awaited, selected>>

(* The metadata and policy groups, then the functor group and the close of *)
(* the file; both globals are read without state_mutex.                    *)
WritePolicy(t) ==
  /\ pc[t] = "write_policy"
  /\ dumps' = [dumps EXCEPT ![id[t]].policy = policy]
  /\ GoTo(t, "write_functor")
  /\ UNCHANGED <<appVars, kokkosVars, binding, countVars, stageVars, localVars,
                 selected>>

WriteFunctor(t) ==
  /\ pc[t] = "write_functor"
  /\ dumps' = [dumps EXCEPT ![id[t]].functor = functor_data,
                            ![id[t]].state = "in"]
  /\ GoTo(t, "record")
  /\ UNCHANGED <<appVars, kokkosVars, binding, countVars, stageVars, localVars,
                 selected>>

FailedDumpRecorded(t) ==
  /\ DumpMayFail
  /\ pc[t] \in {"copy_in", "write_policy", "write_functor"}
  /\ dumps' = [dumps EXCEPT ![id[t]].state = "failed_in"]
  /\ todo' = [todo EXCEPT ![t] = {}]
  /\ GoTo(t, "record")
  /\ UNCHANGED <<appVars, kokkosVars, binding, countVars, stageVars, id, snap,
                 awaited, selected>>

(* Any HDF5 call of create_kernel_dump throws: the file stays as it is and *)
(* its path is not recorded.                                               *)
FailIn(t) ==
  /\ DumpMayFail
  /\ pc[t] \in {"create", "copy_in", "write_policy", "write_functor"}
  /\ dumps' = IF pc[t] = "create" THEN dumps
              ELSE [dumps EXCEPT ![id[t]].state = "failed_in"]
  /\ todo' = [todo EXCEPT ![t] = {}]
  /\ GoTo(t, "dispatch")
  /\ UNCHANGED <<appVars, kokkosVars, binding, countVars, stageVars, id, snap,
                 awaited, selected>>

DumpPathLost(t) ==
  /\ pc[t] = "record"
  /\ GoTo(t, "dispatch")
  /\ UNCHANGED <<appVars, kokkosVars, binding, countVars, stageVars, localVars,
                 dumps, selected>>

RecordDumpPath(t) ==
  /\ pc[t] = "record"
  /\ kernel_states' = [kernel_states EXCEPT ![id[t]].dump_path = TRUE]
  /\ GoTo(t, "dispatch")
  /\ UNCHANGED <<appVars, kokkosVars, binding, next_kernel_id,
                 kernel_invocations, stageVars, localVars, dumps, selected>>

-----------------------------------------------------------------------------
(* Kokkos hands the kernel to the device and calls the end hook.           *)
Dispatch(t) ==
  /\ pc[t] = "dispatch"
  /\ pending' = pending \cup {[launch |-> This(t), views |-> views[t]]}
  /\ issued' = [v \in View |-> IF v \in views[t] THEN This(t) ELSE issued[v]]
  /\ GoTo(t, "end")
  /\ UNCHANGED <<appVars, heap, mem, loaded, binding, countVars, stageVars,
                 localVars, dumps, selected>>

StateOfPlainLaunchKept(t) ==
  /\ pc[t] = "end"
  /\ IF kernel_states[id[t]].dump_path
     THEN GoTo(t, "fence_out") /\ kernel_states' = Drop(kernel_states, id[t])
     ELSE GoTo(t, "app") /\ UNCHANGED kernel_states
  /\ UNCHANGED <<appVars, kokkosVars, binding, next_kernel_id,
                 kernel_invocations, stageVars, localVars, dumps, selected>>

(* end_kernel, called by every kokkosp_end_parallel_* hook.                *)
end_kernel(t) ==
  /\ pc[t] = "end"
  /\ GoTo(t, IF kernel_states[id[t]].dump_path THEN "fence_out" ELSE "app")
  /\ kernel_states' = Drop(kernel_states, id[t])
  /\ UNCHANGED <<appVars, kokkosVars, binding, next_kernel_id,
                 kernel_invocations, stageVars, localVars, dumps, selected>>

append_kernel_output(t) ==
  /\ pc[t] = "append"
  /\ dumps' = [dumps EXCEPT ![id[t]].state = "writing_out"]
  /\ todo' = [todo EXCEPT ![t] = snap[t]]
  /\ GoTo(t, "copy_out")
  /\ UNCHANGED <<appVars, kokkosVars, binding, countVars, stageVars, id, snap,
                 awaited, selected>>

CopyOut(t) ==
  /\ pc[t] = "copy_out"
  /\ \/ \E v \in todo[t] :
          /\ dumps' = [dumps EXCEPT ![id[t]].out = Put(@, v, mem[v])]
          /\ todo' = [todo EXCEPT ![t] = @ \ {v}]
          /\ UNCHANGED pc
     \/ /\ todo[t] = {}
        /\ dumps' = [dumps EXCEPT ![id[t]].state = "complete"]
        /\ GoTo(t, "app")
        /\ UNCHANGED todo
  /\ UNCHANGED <<appVars, kokkosVars, binding, countVars, stageVars, id, snap,
                 awaited, selected>>

FailOut(t) ==
  /\ DumpMayFail
  /\ pc[t] \in {"append", "copy_out"}
  /\ dumps' = IF pc[t] = "append" THEN dumps
              ELSE [dumps EXCEPT ![id[t]].state = "failed_out"]
  /\ todo' = [todo EXCEPT ![t] = {}]
  /\ GoTo(t, "app")
  /\ UNCHANGED <<appVars, kokkosVars, binding, countVars, stageVars, id, snap,
                 awaited, selected>>

-----------------------------------------------------------------------------
(* Every step of a thread inside a launch; these are the steps fairness is *)
(* assumed of.                                                             *)
InLaunch(t) ==
  \/ parallel_for(t) \/ register_bounds(t) \/ replay_functor(t)
  \/ clear_registered_views(t) \/ register_view(t) \/ copy_functor(t)
  \/ FetchKernelId(t) \/ CountInvocation(t)
  \/ CallFence(t, "fence_in", "wait_in")
  \/ ReturnFromFence(t, "wait_in", "snap_in")
  \/ TakeSnapshot(t, "snap_in", "create")
  \/ create_kernel_dump(t) \/ CopyIn(t)
  \/ WritePolicy(t) \/ WriteFunctor(t) \/ RecordDumpPath(t)
  \/ Dispatch(t) \/ end_kernel(t)
  \/ CallFence(t, "fence_out", "wait_out")
  \/ ReturnFromFence(t, "wait_out", "snap_out")
  \/ TakeSnapshot(t, "snap_out", "append")
  \/ append_kernel_output(t) \/ CopyOut(t)

Next ==
  \/ Initialize
  \/ add_metadata
  \/ \E k \in pending : Execute(k)
  \/ \E t \in Thread : \/ ViewStep(t) \/ StartLaunch(t)
                       \/ InLaunch(t) \/ FailIn(t) \/ FailOut(t)

Spec == Init /\ [][Next]_vars

(* A thread inside a launch keeps running and the device makes progress.   *)
FairSpec ==
  /\ Spec
  /\ \A t \in Thread : WF_vars(InLaunch(t))
  /\ WF_vars(\E k \in pending : Execute(k))
=============================================================================
