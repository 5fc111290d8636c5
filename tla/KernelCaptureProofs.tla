------------------------ MODULE KernelCaptureProofs ------------------------
(***************************************************************************)
(* The capture protocol, for any threads, labels, Views, build options and *)
(* number of launches: its types, and that one dump is written at most.    *)
(***************************************************************************)
EXTENDS KernelCaptureProps, TLAPS

LEMMA PutContents ==
  ASSUME NEW f \in PartialContents, NEW v \in View, NEW l \in MaybeLaunch
  PROVE  Put(f, v, l) \in PartialContents
<1>1. PICK S \in SUBSET View : f \in [S -> MaybeLaunch]
  BY DEF PartialContents
<1>2. Put(f, v, l) \in [S \cup {v} -> MaybeLaunch]
  BY <1>1 DEF Put
<1> QED  BY <1>2 DEF PartialContents

LEMMA EmptyContents == Empty \in PartialContents
<1>1. Empty \in [{} -> MaybeLaunch]
  BY DEF Empty
<1> QED  BY <1>1 DEF PartialContents

LEMMA ThisLaunch ==
  ASSUME TypeOK, NEW t \in Thread, pc[t] # "app"
  PROVE  This(t) \in Launch /\ This(t) \in MaybeLaunch
<1>1. launch[t] \in 1 .. MaxLaunches
  <2>1. launch[t] \in 0 .. MaxLaunches /\ launch[t] # 0
    BY DEF TypeOK, AppTypeOK, LaunchStarted
  <2> QED  BY <2>1, CaptureAssumption
<1> QED  BY <1>1 DEF This, Launch, MaybeLaunch

LEMMA NoLaunchType == NoLaunch \in MaybeLaunch
  BY DEF MaybeLaunch

LEMMA InitTypeOK == Init => TypeOK
<1> SUFFICES ASSUME Init PROVE TypeOK
  OBVIOUS
<1> USE DEF Init
<1>1. AppTypeOK
  BY CaptureAssumption DEF AppTypeOK, Pc, Idle
<1>2. KokkosTypeOK
  BY NoLaunchType DEF KokkosTypeOK, Phase, Contents
<1>3. CountTypeOK
  BY DEF CountTypeOK
<1>4. StageTypeOK
  BY NoLaunchType DEF StageTypeOK
<1>5. LocalTypeOK
  BY DEF LocalTypeOK
<1>6. DumpTypeOK
  BY DEF DumpTypeOK
<1>7. LaunchStarted
  BY DEF LaunchStarted
<1> QED  BY <1>1, <1>2, <1>3, <1>4, <1>5, <1>6, <1>7 DEF TypeOK

(* A step that moves one thread to another place leaves the other locals   *)
(* of the application as they are.                                         *)
LEMMA MoveTypeOK ==
  ASSUME AppTypeOK, LaunchStarted, NEW t \in Thread, NEW p \in Pc,
         pc' = [pc EXCEPT ![t] = p], pc[t] # "app", UNCHANGED appVars
  PROVE  AppTypeOK' /\ LaunchStarted'
  BY DEF AppTypeOK, LaunchStarted, appVars

USE DEF appVars, kokkosVars, countVars, stageVars, localVars, GoTo

LEMMA InitializeTypeOK == ASSUME TypeOK, Initialize PROVE TypeOK'
  BY DEF TypeOK, Initialize, AppTypeOK, KokkosTypeOK, CountTypeOK, StageTypeOK,
         LocalTypeOK, DumpTypeOK, LaunchStarted

LEMMA AddMetadataTypeOK == ASSUME TypeOK, add_metadata PROVE TypeOK'
  BY DEF TypeOK, add_metadata, init_internal_functions, AppTypeOK,
         KokkosTypeOK, CountTypeOK, StageTypeOK, LocalTypeOK, DumpTypeOK,
         LaunchStarted

LEMMA ExecuteTypeOK ==
  ASSUME TypeOK, NEW k \in pending, Execute(k) PROVE TypeOK'
<1>1. KokkosTypeOK'
  <2>1. k.launch \in MaybeLaunch /\ mem \in Contents
    BY DEF TypeOK, KokkosTypeOK, Kernel, MaybeLaunch
  <2>2. mem' \in Contents
    BY <2>1 DEF Execute, Contents
  <2> QED  BY <2>2 DEF TypeOK, KokkosTypeOK, Execute
<1> QED
  BY <1>1 DEF TypeOK, Execute, AppTypeOK, CountTypeOK, StageTypeOK,
              LocalTypeOK, DumpTypeOK, LaunchStarted

LEMMA ViewStepTypeOK ==
  ASSUME TypeOK, NEW t \in Thread, ViewStep(t) PROVE TypeOK'
<1>1. PICK v \in ViewsOf[t] :
        \/ ObtainMemory(v) \/ kokkosp_allocate_data(v)
        \/ kokkosp_deallocate_data(v) \/ ReturnMemory(v)
  BY DEF ViewStep
<1>2. \E p \in Phase : heap' = [heap EXCEPT ![v] = p]
  BY <1>1 DEF ObtainMemory, kokkosp_allocate_data, kokkosp_deallocate_data,
              ReturnMemory, Phase
<1>3. heap' \in [View -> Phase]
  BY <1>2 DEF TypeOK, KokkosTypeOK
<1>4. \/ mem' = mem /\ issued' = issued
      \/ /\ mem' = [mem EXCEPT ![v] = NoLaunch]
         /\ issued' = [issued EXCEPT ![v] = NoLaunch]
  BY <1>1 DEF ObtainMemory, kokkosp_allocate_data, kokkosp_deallocate_data,
              ReturnMemory
<1>5. mem' \in Contents /\ issued' \in Contents
  <2>1. mem \in Contents /\ issued \in Contents
    BY DEF TypeOK, KokkosTypeOK
  <2> QED  BY <1>4, <2>1, NoLaunchType DEF Contents
<1>6. KokkosTypeOK'
  BY <1>3, <1>5 DEF TypeOK, KokkosTypeOK, ViewStep
<1> QED
  BY <1>6 DEF TypeOK, ViewStep, AppTypeOK, CountTypeOK, StageTypeOK,
              LocalTypeOK, DumpTypeOK, LaunchStarted

LEMMA StartLaunchTypeOK ==
  ASSUME TypeOK, NEW t \in Thread, StartLaunch(t) PROVE TypeOK'
<1>1. PICK l \in LabelsOf[t], vs \in SUBSET (ViewsOf[t] \cap Reported) :
        /\ launch' = [launch EXCEPT ![t] = @ + 1]
        /\ label' = [label EXCEPT ![t] = l]
        /\ views' = [views EXCEPT ![t] = vs]
        /\ pc' = [pc EXCEPT ![t] = CASE ModeOf[l] = "krepe"   -> "ask"
                                     [] ModeOf[l] = "functor" -> "replay"
                                     [] ModeOf[l] = "plain"   -> "begin"]
  BY DEF StartLaunch
<1>2. l \in Label /\ vs \in SUBSET View
  BY CaptureAssumption DEF Reported
<1>3. pc' \in [Thread -> Pc]
  <2>1. ModeOf[l] \in {"krepe", "functor", "plain"}
    BY <1>2, CaptureAssumption
  <2>2. \E p \in {"ask", "replay", "begin"} : pc' = [pc EXCEPT ![t] = p]
    BY <1>1, <2>1
  <2> QED  BY <2>2 DEF TypeOK, AppTypeOK, Pc
<1>4. launch' \in [Thread -> 0 .. MaxLaunches]
  <2>1. launch \in [Thread -> 0 .. MaxLaunches] /\ launch[t] < MaxLaunches
    BY DEF StartLaunch, TypeOK, AppTypeOK
  <2>2. launch[t] + 1 \in 0 .. MaxLaunches
    BY <2>1, CaptureAssumption
  <2> QED  BY <1>1, <2>1, <2>2
<1>5. label' \in [Thread -> Label] /\ views' \in [Thread -> SUBSET View]
  BY <1>1, <1>2 DEF TypeOK, AppTypeOK
<1>6. LaunchStarted'
  <2> SUFFICES ASSUME NEW s \in Thread, pc'[s] # "app" PROVE launch'[s] # 0
    BY DEF LaunchStarted
  <2>1. CASE s = t
    <3>1. launch[t] \in Nat /\ launch'[t] = launch[t] + 1
      BY <1>1, CaptureAssumption DEF TypeOK, AppTypeOK
    <3> QED  BY <2>1, <3>1
  <2>2. CASE s # t
    <3>1. launch'[s] = launch[s] /\ pc'[s] = pc[s]
      BY <1>1, <2>2 DEF TypeOK, AppTypeOK
    <3> QED  BY <3>1 DEF TypeOK, LaunchStarted
  <2> QED  BY <2>1, <2>2
<1> QED
  BY <1>3, <1>4, <1>5, <1>6
     DEF TypeOK, StartLaunch, AppTypeOK, KokkosTypeOK, CountTypeOK,
         StageTypeOK, LocalTypeOK, DumpTypeOK

-----------------------------------------------------------------------------
(* The extractor.                                                          *)

LEMMA ExtractorTypeOK ==
  ASSUME TypeOK, NEW t \in Thread,
         \/ parallel_for(t) \/ register_bounds(t)
         \/ replay_functor(t) \/ clear_registered_views(t)
         \/ register_view(t) \/ copy_functor(t)
  PROVE  TypeOK'
<1> DEFINE Step == \/ parallel_for(t) \/ register_bounds(t)
                   \/ replay_functor(t) \/ clear_registered_views(t)
                   \/ register_view(t) \/ copy_functor(t)
<1> USE DEF parallel_for, register_bounds, replay_functor,
            clear_registered_views, register_view, copy_functor
<1>1. /\ UNCHANGED <<appVars, heap, mem, issued, pending, loaded, countVars,
                     id, snap, awaited, dumps, selected>>
      /\ pc[t] # "app"
      /\ \/ UNCHANGED pc
         \/ \E p \in {"policy", "begin", "clear", "register", "functor"} :
              pc' = [pc EXCEPT ![t] = p]
  OBVIOUS
<1>2. /\ binding' \in {binding, "tool", "none"}
      /\ policy' \in {policy, This(t)}
      /\ functor_data' \in {functor_data, This(t)}
      /\ \/ used_allocations' \in {used_allocations, {}}
         \/ \E v \in todo[t] : used_allocations' = used_allocations \cup {v}
      /\ \E S \in SUBSET (views[t] \cup todo[t]) :
           todo' = todo \/ todo' = [todo EXCEPT ![t] = S]
  BY DEF init_internal_functions
<1> HIDE DEF parallel_for, register_bounds, replay_functor,
             clear_registered_views, register_view, copy_functor
<1>3. AppTypeOK' /\ LaunchStarted'
  <2>1. CASE UNCHANGED pc
    BY <1>1, <2>1 DEF TypeOK, AppTypeOK, LaunchStarted
  <2>2. CASE \E p \in {"policy", "begin", "clear", "register", "functor"} :
               pc' = [pc EXCEPT ![t] = p]
    BY <1>1, <2>2, MoveTypeOK DEF TypeOK, Pc, Staging
  <2> QED  BY <1>1, <2>1, <2>2
<1>4. KokkosTypeOK' /\ CountTypeOK' /\ DumpTypeOK'
  BY <1>1, <1>2 DEF TypeOK, KokkosTypeOK, CountTypeOK, DumpTypeOK
<1>5. todo[t] \in SUBSET View /\ views[t] \in SUBSET View
  BY DEF TypeOK, AppTypeOK, LocalTypeOK
<1>6. StageTypeOK'
  BY <1>1, <1>2, <1>5, ThisLaunch DEF TypeOK, StageTypeOK
<1>7. LocalTypeOK'
  BY <1>1, <1>2, <1>5 DEF TypeOK, LocalTypeOK
<1> QED  BY <1>3, <1>4, <1>6, <1>7 DEF TypeOK

-----------------------------------------------------------------------------
(* The hooks.                                                              *)

LEMMA FetchTypeOK ==
  ASSUME TypeOK, NEW t \in Thread, FetchKernelId(t) PROVE TypeOK'
<1>1. AppTypeOK' /\ LaunchStarted'
  BY MoveTypeOK DEF FetchKernelId, TypeOK, Pc
<1> QED
  BY <1>1 DEF FetchKernelId, TypeOK, KokkosTypeOK, CountTypeOK, StageTypeOK,
              LocalTypeOK, DumpTypeOK

LEMMA CountTypes ==
  ASSUME TypeOK, NEW t \in Thread, CountInvocation(t) PROVE TypeOK'
<1>1. AppTypeOK' /\ LaunchStarted'
  <2>1. \E p \in {"fence_in", "dispatch"} : pc' = [pc EXCEPT ![t] = p]
    BY DEF CountInvocation
  <2> QED  BY <2>1, MoveTypeOK DEF CountInvocation, TypeOK, Pc, Beginning
<1> DEFINE n == NextInvocation(label[t])
<1>2. n \in Nat \ {0} /\ n \in Nat
  BY DEF NextInvocation, TypeOK, AppTypeOK, CountTypeOK
<1>3. CountTypeOK'
  BY <1>2 DEF CountInvocation, TypeOK, CountTypeOK, Put, KernelState,
              LocalTypeOK
<1>4. DumpTypeOK'
  <2>1. [v \in views[t] |-> issued[v]] \in PartialContents
    <3>1. views[t] \in SUBSET View /\ issued \in [View -> MaybeLaunch]
      BY DEF TypeOK, AppTypeOK, KokkosTypeOK, Contents
    <3> DEFINE f == [v \in views[t] |-> issued[v]]
    <3>2. f \in [views[t] -> MaybeLaunch]
      BY <3>1
    <3> QED  BY <3>1, <3>2 DEF PartialContents
  <2>2. selected' = selected \/ selected' \in Selected
    BY <2>1, ThisLaunch DEF CountInvocation, Selected
  <2> QED  BY <2>2 DEF CountInvocation, TypeOK, DumpTypeOK
<1> QED
  BY <1>1, <1>3, <1>4 DEF CountInvocation, TypeOK, KokkosTypeOK, StageTypeOK,
                          LocalTypeOK

LEMMA FenceTypeOK ==
  ASSUME TypeOK, NEW t \in Thread, NEW from, NEW to \in Pc, from # "app",
         CallFence(t, from, to) \/ ReturnFromFence(t, from, to)
  PROVE TypeOK'
<1>1. LocalTypeOK'
  <2>1. pending \in SUBSET Kernel /\ awaited \in [Thread -> SUBSET Kernel]
    BY DEF TypeOK, KokkosTypeOK, LocalTypeOK
  <2>2. \E s \in SUBSET Kernel : awaited' = [awaited EXCEPT ![t] = s]
    BY <2>1 DEF CallFence, FenceWaitsFor, ReturnFromFence
  <2>3. awaited' \in [Thread -> SUBSET Kernel]
    BY <2>1, <2>2
  <2> QED  BY <2>3 DEF TypeOK, LocalTypeOK, CallFence, ReturnFromFence
<1>2. AppTypeOK' /\ LaunchStarted'
  BY MoveTypeOK DEF TypeOK, CallFence, ReturnFromFence
<1> QED
  BY <1>1, <1>2 DEF TypeOK, CallFence, ReturnFromFence, KokkosTypeOK,
                    CountTypeOK, StageTypeOK, DumpTypeOK

LEMMA SnapshotTypeOK ==
  ASSUME TypeOK, NEW t \in Thread, NEW from, NEW to \in Pc, from # "app",
         TakeSnapshot(t, from, to)
  PROVE TypeOK'
<1>1. AppTypeOK' /\ LaunchStarted'
  BY MoveTypeOK DEF TypeOK, TakeSnapshot
<1>2. Snapshot \in SUBSET View
  BY DEF Snapshot, Reported
<1> QED
  BY <1>1, <1>2 DEF TypeOK, TakeSnapshot, KokkosTypeOK, CountTypeOK,
                    StageTypeOK, LocalTypeOK, DumpTypeOK

LEMMA CreateTypeOK ==
  ASSUME TypeOK, KernelStatesMatch, NEW t \in Thread, create_kernel_dump(t)
  PROVE TypeOK'
<1>1. AppTypeOK' /\ LaunchStarted'
  BY MoveTypeOK DEF TypeOK, create_kernel_dump, Pc, Beginning
<1>2. kernel_states[id[t]] \in KernelState
  BY DEF KernelStatesMatch, Open, Beginning, create_kernel_dump, TypeOK,
         CountTypeOK
<1>3. DumpTypeOK'
  <2>1. [state |-> "writing_in", label |-> label[t],
         invocation |-> kernel_states[id[t]].invocation,
         functor |-> NoLaunch, policy |-> NoLaunch,
         in |-> Empty, out |-> Empty] \in Dump
    BY <1>2, EmptyContents, NoLaunchType
       DEF Dump, FileState, KernelState, TypeOK, AppTypeOK
  <2> QED
    BY <2>1 DEF create_kernel_dump, TypeOK, DumpTypeOK, Put, LocalTypeOK
<1> QED
  BY <1>1, <1>3 DEF TypeOK, create_kernel_dump, KokkosTypeOK, CountTypeOK,
                    StageTypeOK, LocalTypeOK

LEMMA CopyTypeOK ==
  ASSUME TypeOK, NEW t \in Thread, CopyIn(t) \/ CopyOut(t) PROVE TypeOK'
<1>1. AppTypeOK' /\ LaunchStarted'
  <2>1. UNCHANGED pc \/ \E p \in {"write_policy", "app"} :
                          pc' = [pc EXCEPT ![t] = p]
    BY DEF CopyIn, CopyOut
  <2>2. CASE UNCHANGED pc
    BY <2>2 DEF TypeOK, AppTypeOK, LaunchStarted, CopyIn, CopyOut
  <2>3. CASE \E p \in {"write_policy", "app"} : pc' = [pc EXCEPT ![t] = p]
    BY <2>3, MoveTypeOK DEF TypeOK, Pc, Idle, Beginning, CopyIn, CopyOut
  <2> QED  BY <2>1, <2>2, <2>3
<1>2. \A v \in todo[t] : v \in View /\ mem[v] \in MaybeLaunch
  BY DEF TypeOK, LocalTypeOK, KokkosTypeOK, Contents
<1>3. \A i \in DOMAIN dumps, v \in todo[t] :
        /\ Put(dumps[i].in, v, mem[v]) \in PartialContents
        /\ Put(dumps[i].out, v, mem[v]) \in PartialContents
  BY <1>2, PutContents DEF TypeOK, DumpTypeOK, Dump
<1>4. DumpTypeOK'
  <2>1. CASE UNCHANGED dumps
    BY <2>1 DEF TypeOK, DumpTypeOK, CopyIn, CopyOut
  <2>2. CASE \E v \in todo[t] :
               dumps' = [dumps EXCEPT ![id[t]].in = Put(@, v, mem[v])]
    BY <1>3, <2>2 DEF TypeOK, DumpTypeOK, CopyIn, CopyOut, Dump
  <2>3. CASE \E v \in todo[t] :
               dumps' = [dumps EXCEPT ![id[t]].out = Put(@, v, mem[v])]
    BY <1>3, <2>3 DEF TypeOK, DumpTypeOK, CopyIn, CopyOut, Dump
  <2>4. CASE dumps' = [dumps EXCEPT ![id[t]].state = "complete"]
    <3>1. "complete" \in FileState /\ UNCHANGED selected
      BY DEF CopyIn, CopyOut, FileState
    <3> QED  BY <2>4, <3>1 DEF TypeOK, DumpTypeOK, Dump
  <2>5. CASE CopyIn(t)
    BY <2>5, <2>1, <2>2 DEF CopyIn
  <2>6. CASE CopyOut(t)
    BY <2>6, <2>3, <2>4 DEF CopyOut
  <2> QED  BY <2>5, <2>6
<1>5. LocalTypeOK'
  BY DEF TypeOK, LocalTypeOK, CopyIn, CopyOut
<1> QED
  BY <1>1, <1>4, <1>5 DEF TypeOK, CopyIn, CopyOut, KokkosTypeOK, CountTypeOK,
                          StageTypeOK

LEMMA WriteTypeOK ==
  ASSUME TypeOK, NEW t \in Thread, WritePolicy(t) \/ WriteFunctor(t)
  PROVE TypeOK'
<1>1. AppTypeOK' /\ LaunchStarted'
  BY MoveTypeOK DEF TypeOK, WritePolicy, WriteFunctor, Pc, Beginning
<1>2. policy \in MaybeLaunch /\ functor_data \in MaybeLaunch
  BY DEF TypeOK, StageTypeOK
<1>3. DumpTypeOK'
  BY <1>2 DEF TypeOK, DumpTypeOK, WritePolicy, WriteFunctor, Dump, FileState
<1> QED
  BY <1>1, <1>3 DEF TypeOK, WritePolicy, WriteFunctor, KokkosTypeOK,
                    CountTypeOK, StageTypeOK, LocalTypeOK

LEMMA FailTypeOK ==
  ASSUME TypeOK, NEW t \in Thread, FailIn(t) \/ FailOut(t) PROVE TypeOK'
<1>1. AppTypeOK' /\ LaunchStarted'
  BY MoveTypeOK DEF TypeOK, FailIn, FailOut, Pc, Idle
<1>2. DumpTypeOK'
  <2>1. UNCHANGED dumps \/ \E st \in FileState :
          dumps' = [dumps EXCEPT ![id[t]].state = st]
    BY DEF FailIn, FailOut, FileState
  <2>2. UNCHANGED selected
    BY DEF FailIn, FailOut
  <2>3. ASSUME NEW st \in FileState,
               dumps' = [dumps EXCEPT ![id[t]].state = st]
        PROVE  DumpTypeOK'
    <3>1. DOMAIN dumps' = DOMAIN dumps
      BY <2>3
    <3>2. ASSUME NEW i \in DOMAIN dumps PROVE dumps'[i] \in Dump
      <4>1. dumps[i] \in Dump
        BY DEF TypeOK, DumpTypeOK
      <4>2. dumps'[i] = dumps[i] \/ dumps'[i] = [dumps[i] EXCEPT !.state = st]
        BY <2>3
      <4> QED  BY <4>1, <4>2 DEF Dump
    <3> QED  BY <2>2, <3>1, <3>2 DEF TypeOK, DumpTypeOK
  <2>4. CASE UNCHANGED dumps
    BY <2>2, <2>4 DEF TypeOK, DumpTypeOK
  <2> QED  BY <2>1, <2>3, <2>4
<1> QED
  BY <1>1, <1>2 DEF TypeOK, FailIn, FailOut, KokkosTypeOK, CountTypeOK,
                    StageTypeOK, LocalTypeOK

LEMMA RecordTypeOK ==
  ASSUME TypeOK, NEW t \in Thread, RecordDumpPath(t) PROVE TypeOK'
<1>1. AppTypeOK' /\ LaunchStarted'
  BY MoveTypeOK DEF TypeOK, RecordDumpPath, Pc
<1> QED
  BY <1>1 DEF TypeOK, RecordDumpPath, KokkosTypeOK, CountTypeOK, KernelState,
              StageTypeOK, LocalTypeOK, DumpTypeOK

LEMMA DispatchTypeOK ==
  ASSUME TypeOK, NEW t \in Thread, Dispatch(t) PROVE TypeOK'
<1>1. AppTypeOK' /\ LaunchStarted'
  BY MoveTypeOK DEF TypeOK, Dispatch, Pc
<1>2. This(t) \in Launch /\ This(t) \in MaybeLaunch
  BY ThisLaunch DEF Dispatch
<1>3. views[t] \in SUBSET View
  BY DEF TypeOK, AppTypeOK
<1>4. [launch |-> This(t), views |-> views[t]] \in Kernel
  BY <1>2, <1>3 DEF Kernel
<1>5. issued' \in Contents
  BY <1>2 DEF TypeOK, KokkosTypeOK, Contents, Dispatch
<1> QED
  BY <1>1, <1>4, <1>5 DEF TypeOK, Dispatch, KokkosTypeOK, CountTypeOK,
                          StageTypeOK, LocalTypeOK, DumpTypeOK

LEMMA EndTypeOK ==
  ASSUME TypeOK, NEW t \in Thread, end_kernel(t) PROVE TypeOK'
<1>1. AppTypeOK' /\ LaunchStarted'
  <2>1. \E p \in {"fence_out", "app"} : pc' = [pc EXCEPT ![t] = p]
    BY DEF end_kernel
  <2> QED  BY <2>1, MoveTypeOK DEF TypeOK, end_kernel, Pc, Idle, Ending
<1> QED
  BY <1>1 DEF TypeOK, end_kernel, KokkosTypeOK, CountTypeOK, Drop,
              StageTypeOK, LocalTypeOK, DumpTypeOK

LEMMA AppendTypeOK ==
  ASSUME TypeOK, NEW t \in Thread, append_kernel_output(t) PROVE TypeOK'
<1>1. AppTypeOK' /\ LaunchStarted'
  BY MoveTypeOK DEF TypeOK, append_kernel_output, Pc, Ending
<1>2. DumpTypeOK'
  BY DEF TypeOK, DumpTypeOK, append_kernel_output, Dump, FileState
<1> QED
  BY <1>1, <1>2 DEF TypeOK, append_kernel_output, KokkosTypeOK, CountTypeOK,
                    StageTypeOK, LocalTypeOK
-----------------------------------------------------------------------------
(* The inductive invariant, one lemma for the steps that move a thread and *)
(* leave the counters alone, and one for each other step.                  *)

LEMMA OneWriter ==
  ASSUME HookInv, NEW s \in Thread, NEW t \in Thread, Writing(s), Writing(t)
  PROVE  s = t
<1>1. This(s) = This(t)
  BY DEF HookInv, ChosenWritesDump, ChosenAt
<1> QED  BY <1>1 DEF This

(* What another thread relies on stays.                                    *)
LEMMA OtherThread ==
  ASSUME HookInv, NEW s \in Thread, NEW t \in Thread, s # t,
         <<pc'[s], id'[s], launch'[s], label'[s]>>
           = <<pc[s], id[s], launch[s], label[s]>>,
         pc[s] \in Open => kernel_states'[id[s]] = kernel_states[id[s]],
         Writing(s) => selected'.launch = selected.launch,
         dumps' = dumps \/ Writing(t)
  PROVE  ChosenAt(s)'
<1>1. ChosenAt(s)
  BY DEF HookInv, ChosenWritesDump
<1>2. Writing(s)' <=> Writing(s)
  BY DEF Writing, Open
<1>3. CASE Writing(s)
  <2>1. dumps' = dumps
    BY <1>3, OneWriter
  <2> QED
    BY <1>1, <1>2, <1>3, <2>1 DEF ChosenAt, This, Open, FileStateAt
<1>4. CASE ~Writing(s)
  BY <1>2, <1>4 DEF ChosenAt, Writing
<1> QED  BY <1>3, <1>4

(* The dump keeps the identity it was created with.                        *)
SameFiles ==
  /\ DOMAIN dumps' = DOMAIN dumps
  /\ \A i \in DOMAIN dumps : /\ dumps'[i].label = dumps[i].label
                             /\ dumps'[i].invocation = dumps[i].invocation

LEMMA Move ==
  ASSUME TypeOK, HookInv, NEW t \in Thread, NEW p \in Pc,
         pc' = [pc EXCEPT ![t] = p],
         UNCHANGED <<countVars, id, selected>>,
         \A s \in Thread \ {t} : launch'[s] = launch[s] /\ label'[s] = label[s],
         pc[t] \in Open <=> p \in Open,
         p \in Hooked => pc[t] \in Hooked,
         dumps' = dumps \/ (Writing(t) /\ SameFiles),
         ChosenAt(t)'
  PROVE  HookInv'
<1>1. \A s \in Thread : pc'[s] = IF s = t THEN p ELSE pc[s]
  BY DEF TypeOK, AppTypeOK
<1>2. KernelStatesMatch'
  <2>1. {s \in Thread : pc'[s] \in Open} = {s \in Thread : pc[s] \in Open}
    BY <1>1
  <2> QED  BY <2>1 DEF HookInv, KernelStatesMatch
<1>3. IdsDistinct'
  BY <1>1 DEF HookInv, IdsDistinct
<1>4. ChosenWritesDump'
  <2> SUFFICES ASSUME NEW s \in Thread, s # t PROVE ChosenAt(s)'
    BY DEF ChosenWritesDump
  <2> QED  BY <1>1, OtherThread
<1>5. ChosenByCount' /\ AtMostOneDump'
  BY DEF HookInv, ChosenByCount, AtMostOneDump, SameFiles
<1> QED  BY <1>2, <1>3, <1>4, <1>5 DEF HookInv

Outside == {"app", "ask", "replay", "begin"} \cup Staging

LEMMA OutsideHookInv ==
  ASSUME TypeOK, HookInv, NEW t \in Thread,
         \/ StartLaunch(t) \/ parallel_for(t) \/ register_bounds(t)
         \/ replay_functor(t) \/ clear_registered_views(t)
         \/ register_view(t) \/ copy_functor(t)
  PROVE  HookInv'
<1>1. /\ pc[t] \in Outside
      /\ UNCHANGED <<countVars, id, selected, dumps>>
      /\ UNCHANGED <<launch, label>> \/ StartLaunch(t)
      /\ UNCHANGED pc \/ \E p \in Outside : pc' = [pc EXCEPT ![t] = p]
  <2>1. CASE StartLaunch(t)
    <3>1. PICK l \in LabelsOf[t] :
            pc' = [pc EXCEPT ![t] = CASE ModeOf[l] = "krepe"   -> "ask"
                                      [] ModeOf[l] = "functor" -> "replay"
                                      [] ModeOf[l] = "plain"   -> "begin"]
      BY <2>1 DEF StartLaunch
    <3>2. ModeOf[l] \in {"krepe", "functor", "plain"}
      BY CaptureAssumption
    <3>3. \E p \in Outside : pc' = [pc EXCEPT ![t] = p]
      BY <3>1, <3>2 DEF Outside
    <3> QED  BY <2>1, <3>3 DEF StartLaunch, Outside
  <2>2. CASE parallel_for(t)
    BY <2>2 DEF parallel_for, Outside, Staging
  <2>3. CASE register_bounds(t)
    BY <2>3 DEF register_bounds, Outside, Staging
  <2>4. CASE replay_functor(t)
    BY <2>4 DEF replay_functor, Outside, Staging
  <2>5. CASE clear_registered_views(t)
    BY <2>5 DEF clear_registered_views, Outside, Staging
  <2>6. CASE register_view(t)
    BY <2>6 DEF register_view, Outside, Staging
  <2>7. CASE copy_functor(t)
    BY <2>7 DEF copy_functor, Outside, Staging
  <2> QED  BY <2>1, <2>2, <2>3, <2>4, <2>5, <2>6, <2>7
<1>2. PICK p \in Outside : pc' = [pc EXCEPT ![t] = p]
  <2>1. UNCHANGED pc => pc' = [pc EXCEPT ![t] = pc[t]]
    BY DEF TypeOK, AppTypeOK
  <2> QED  BY <1>1, <2>1
<1>3. p \in Pc /\ p \notin Hooked /\ p \notin Open /\ pc[t] \notin Open
  BY <1>1 DEF Outside, Pc, Hooked, Open, Beginning, Ending, Staging, Idle
<1>4. ChosenAt(t)'
  <2>1. pc'[t] = p
    BY <1>2 DEF TypeOK, AppTypeOK
  <2> QED
    BY <1>3, <2>1 DEF ChosenAt, Writing, Hooked, Open
<1>5. \A s \in Thread \ {t} : launch'[s] = launch[s] /\ label'[s] = label[s]
  BY <1>1 DEF StartLaunch, TypeOK, AppTypeOK
<1> QED  BY <1>1, <1>2, <1>3, <1>4, <1>5, Move

(* Fences and snapshots, before and after the kernel.                      *)
LEMMA QuietHookInv ==
  ASSUME TypeOK, HookInv, NEW t \in Thread,
         \/ CallFence(t, "fence_in", "wait_in")
         \/ ReturnFromFence(t, "wait_in", "snap_in")
         \/ TakeSnapshot(t, "snap_in", "create")
         \/ CallFence(t, "fence_out", "wait_out")
         \/ ReturnFromFence(t, "wait_out", "snap_out")
         \/ TakeSnapshot(t, "snap_out", "append")
  PROVE  HookInv'
<1> DEFINE before == {"fence_in", "wait_in", "snap_in", "create"}
           after  == {"fence_out", "wait_out", "snap_out", "append"}
<1>1. /\ UNCHANGED <<countVars, id, selected, dumps, launch, label>>
      /\ \E p \in before \cup after :
           /\ pc' = [pc EXCEPT ![t] = p]
           /\ p \in before <=> pc[t] \in before
           /\ p \in after <=> pc[t] \in after
  BY DEF CallFence, ReturnFromFence, TakeSnapshot
<1>2. PICK p \in before \cup after :
        /\ pc' = [pc EXCEPT ![t] = p]
        /\ p \in before <=> pc[t] \in before
        /\ p \in after <=> pc[t] \in after
  BY <1>1
<1>3. /\ p \in Pc
      /\ pc[t] \in before \cup after
      /\ \A q \in before : q \in Beginning /\ q \in Open /\ q \notin Ending
      /\ \A q \in after : q \in Ending /\ q \notin Open /\ q \notin Beginning
  BY <1>2 DEF Pc, Beginning, Ending, Open
<1>4. ChosenAt(t)'
  <2>1. pc'[t] = p /\ ChosenAt(t)
    BY <1>2 DEF TypeOK, AppTypeOK, HookInv, ChosenWritesDump
  <2>2. FileStateAt(p) = FileStateAt(pc[t])
    BY <1>2, <1>3 DEF FileStateAt
  <2> QED
    BY <1>1, <1>2, <1>3, <2>1, <2>2 DEF ChosenAt, Writing, This, FileStateAt
<1>5. (pc[t] \in Open <=> p \in Open) /\ (p \in Hooked => pc[t] \in Hooked)
  BY <1>2, <1>3 DEF Hooked
<1> QED  BY <1>1, <1>2, <1>3, <1>4, <1>5, Move

(* The calls that write into the dump.                                     *)
LEMMA WriteHookInv ==
  ASSUME TypeOK, HookInv, NEW t \in Thread,
         CopyIn(t) \/ WritePolicy(t) \/ WriteFunctor(t)
  PROVE  HookInv'
<1> DEFINE in == {"copy_in", "write_policy", "write_functor", "record"}
<1>1. /\ UNCHANGED <<countVars, id, selected, launch, label>>
      /\ pc[t] \in in
      /\ \E p \in in : /\ pc' = [pc EXCEPT ![t] = p]
                       /\ p = "record" <=> WriteFunctor(t)
  <2>1. pc = [pc EXCEPT ![t] = pc[t]]
    BY DEF TypeOK, AppTypeOK
  <2>2. CASE CopyIn(t)
    BY <2>1, <2>2 DEF CopyIn, WriteFunctor
  <2>3. CASE WritePolicy(t)
    BY <2>3 DEF WritePolicy, WriteFunctor
  <2>4. CASE WriteFunctor(t)
    BY <2>4 DEF WriteFunctor
  <2> QED  BY <2>2, <2>3, <2>4
<1>2. PICK p \in in : /\ pc' = [pc EXCEPT ![t] = p]
                      /\ p = "record" <=> WriteFunctor(t)
  BY <1>1
<1>3. /\ p \in Pc /\ p \in Beginning /\ p \in Open /\ p \notin Ending
      /\ pc[t] \in Beginning /\ pc[t] \in Open
  BY <1>1 DEF Pc, Beginning, Open, Ending
<1>4. /\ Writing(t) /\ ChosenAt(t) /\ pc'[t] = p
      /\ DOMAIN dumps = {id[t]}
      /\ dumps[id[t]].state = "writing_in" \/ pc[t] = "record"
  BY <1>1, <1>2, <1>3
     DEF Writing, HookInv, ChosenWritesDump, ChosenAt, FileStateAt, TypeOK,
         AppTypeOK
<1>5. pc[t] # "record"
  BY DEF CopyIn, WritePolicy, WriteFunctor
<1>6. /\ SameFiles
      /\ dumps'[id[t]].state = IF WriteFunctor(t) THEN "in" ELSE "writing_in"
  <2>1. dumps[id[t]] \in Dump
    BY <1>4, <1>5 DEF TypeOK, DumpTypeOK
  <2>2. CASE CopyIn(t)
    <3>1. ~WriteFunctor(t)
      BY <2>2 DEF CopyIn, WriteFunctor
    <3>2. CASE UNCHANGED dumps
      BY <1>4, <1>5, <3>1, <3>2 DEF SameFiles
    <3>3. CASE \E v \in todo[t] :
                 dumps' = [dumps EXCEPT ![id[t]].in = Put(@, v, mem[v])]
      <4>1. PICK new : dumps' = [dumps EXCEPT ![id[t]].in = new]
        BY <3>3
      <4> QED  BY <1>4, <1>5, <2>1, <3>1, <4>1 DEF SameFiles, Dump
    <3> QED  BY <2>2, <3>2, <3>3 DEF CopyIn
  <2>3. CASE WritePolicy(t)
    <3>1. ~WriteFunctor(t)
      BY <2>3 DEF WritePolicy, WriteFunctor
    <3> QED  BY <1>4, <1>5, <2>1, <2>3, <3>1 DEF WritePolicy, SameFiles, Dump
  <2>4. CASE WriteFunctor(t)
    BY <1>4, <1>5, <2>1, <2>4 DEF WriteFunctor, SameFiles, Dump
  <2> QED  BY <2>2, <2>3, <2>4
<1>7. ChosenAt(t)'
  BY <1>1, <1>2, <1>3, <1>4, <1>5, <1>6
     DEF ChosenAt, Writing, This, FileStateAt, SameFiles
<1>8. p \in Hooked /\ pc[t] \in Hooked
  BY <1>3 DEF Hooked
<1> QED  BY <1>1, <1>2, <1>3, <1>4, <1>6, <1>7, <1>8, Move

LEMMA AppendHookInv ==
  ASSUME TypeOK, HookInv, NEW t \in Thread, append_kernel_output(t)
  PROVE  HookInv'
<1>1. /\ pc[t] = "append" /\ pc' = [pc EXCEPT ![t] = "copy_out"]
      /\ pc'[t] = "copy_out"
      /\ UNCHANGED <<countVars, id, selected, launch, label>>
  BY DEF append_kernel_output, TypeOK, AppTypeOK
<1>2. Writing(t) /\ ChosenAt(t) /\ DOMAIN dumps = {id[t]}
  BY <1>1 DEF Writing, Ending, HookInv, ChosenWritesDump, ChosenAt
<1>3. SameFiles /\ dumps'[id[t]].state = "writing_out"
  <2>1. dumps[id[t]] \in Dump
    BY <1>2 DEF TypeOK, DumpTypeOK
  <2> QED  BY <1>2, <2>1 DEF append_kernel_output, SameFiles, Dump
<1>4. ChosenAt(t)'
  BY <1>1, <1>2, <1>3
     DEF ChosenAt, Writing, This, FileStateAt, SameFiles, Beginning, Ending
<1>5. /\ "copy_out" \in Pc /\ "copy_out" \in Hooked /\ "append" \in Hooked
      /\ "copy_out" \notin Open /\ "append" \notin Open
  BY DEF Pc, Hooked, Open, Beginning, Ending
<1> QED  BY <1>1, <1>2, <1>3, <1>4, <1>5, Move

LEMMA CopyOutHookInv ==
  ASSUME TypeOK, HookInv, NEW t \in Thread, CopyOut(t)
  PROVE  HookInv'
<1>1. /\ pc[t] = "copy_out"
      /\ UNCHANGED <<countVars, id, selected, launch, label>>
      /\ pc = [pc EXCEPT ![t] = pc[t]]
  BY DEF CopyOut, TypeOK, AppTypeOK
<1>2. /\ Writing(t) /\ ChosenAt(t) /\ DOMAIN dumps = {id[t]}
      /\ dumps[id[t]].state = "writing_out"
  BY <1>1
     DEF Writing, Ending, HookInv, ChosenWritesDump, ChosenAt, FileStateAt
<1>3. dumps[id[t]] \in Dump
  BY <1>2 DEF TypeOK, DumpTypeOK
<1>4. CASE \E v \in todo[t] :
             /\ dumps' = [dumps EXCEPT ![id[t]].out = Put(@, v, mem[v])]
             /\ UNCHANGED pc
  <2>1. PICK new : dumps' = [dumps EXCEPT ![id[t]].out = new]
    BY <1>4
  <2>2. SameFiles /\ dumps'[id[t]].state = "writing_out"
    BY <1>2, <1>3, <2>1 DEF SameFiles, Dump
  <2>3. ChosenAt(t)'
    BY <1>1, <1>2, <1>4, <2>2
       DEF ChosenAt, Writing, This, FileStateAt, SameFiles, Beginning, Ending
  <2>4. pc' = [pc EXCEPT ![t] = "copy_out"] /\ "copy_out" \in Pc
    BY <1>1, <1>4 DEF Pc, Ending
  <2> QED  BY <1>1, <1>2, <2>2, <2>3, <2>4, Move
<1>5. CASE /\ dumps' = [dumps EXCEPT ![id[t]].state = "complete"]
           /\ pc' = [pc EXCEPT ![t] = "app"]
  <2>1. SameFiles
    BY <1>2, <1>3, <1>5 DEF SameFiles, Dump
  <2>2. "app" \in Pc /\ "app" \notin Hooked /\ "app" \notin Open
        /\ "app" \notin Beginning /\ "app" \notin Ending /\ pc[t] \notin Open
    BY <1>1 DEF Pc, Idle, Hooked, Open, Beginning, Ending
  <2>3. ChosenAt(t)'
    <3>1. pc'[t] = "app"
      BY <1>5 DEF TypeOK, AppTypeOK
    <3> QED  BY <2>2, <3>1 DEF ChosenAt, Writing
  <2> QED  BY <1>1, <1>2, <1>5, <2>1, <2>2, <2>3, Move
<1> QED  BY <1>4, <1>5 DEF CopyOut

LEMMA FailHookInv ==
  ASSUME TypeOK, HookInv, NEW t \in Thread, FailIn(t) \/ FailOut(t)
  PROVE  HookInv'
<1>1. UNCHANGED <<countVars, id, selected, launch, label>>
  BY DEF FailIn, FailOut
<1>2. ChosenAt(t)
  BY DEF HookInv, ChosenWritesDump
<1>3. CASE FailIn(t)
  <2>1. /\ pc[t] \in Beginning /\ pc[t] \in Open /\ pc[t] \in Hooked
        /\ Writing(t)
        /\ "dispatch" \in Pc /\ "dispatch" \in Open
        /\ "dispatch" \notin Beginning /\ "dispatch" \notin Ending
    BY <1>3 DEF FailIn, Writing, Pc, Hooked, Open, Beginning, Ending
  <2>2. ~kernel_states[id[t]].dump_path
    BY <1>2, <2>1 DEF ChosenAt
  <2>3. pc' = [pc EXCEPT ![t] = "dispatch"] /\ pc'[t] = "dispatch"
    BY <1>3 DEF FailIn, TypeOK, AppTypeOK
  <2>4. ChosenAt(t)'
    BY <1>1, <2>1, <2>2, <2>3 DEF ChosenAt, Writing
  <2>5. dumps' = dumps \/ SameFiles
    <3>1. CASE pc[t] = "create"
      BY <1>3, <3>1 DEF FailIn
    <3>2. CASE pc[t] # "create"
      <4>1. id[t] \in DOMAIN dumps
        BY <1>2, <1>3, <2>1, <3>2 DEF FailIn, ChosenAt
      <4>2. dumps[id[t]] \in Dump
        BY <4>1 DEF TypeOK, DumpTypeOK
      <4> QED  BY <1>3, <3>2, <4>1, <4>2 DEF FailIn, SameFiles, Dump
    <3> QED  BY <3>1, <3>2
  <2> QED  BY <1>1, <2>1, <2>3, <2>4, <2>5, Move
<1>4. CASE FailOut(t)
  <2>1. /\ pc[t] \in Ending /\ pc[t] \notin Open /\ pc[t] \in Hooked
        /\ Writing(t)
        /\ "app" \in Pc /\ "app" \notin Open /\ "app" \notin Hooked
        /\ "app" \notin Beginning /\ "app" \notin Ending
    BY <1>4 DEF FailOut, Writing, Pc, Idle, Hooked, Open, Beginning, Ending
  <2>2. pc' = [pc EXCEPT ![t] = "app"] /\ pc'[t] = "app"
    BY <1>4 DEF FailOut, TypeOK, AppTypeOK
  <2>3. ChosenAt(t)'
    BY <2>1, <2>2 DEF ChosenAt, Writing
  <2>4. dumps' = dumps \/ SameFiles
    <3>1. id[t] \in DOMAIN dumps
      BY <1>2, <1>4, <2>1 DEF FailOut, ChosenAt
    <3>2. dumps[id[t]] \in Dump
      BY <3>1 DEF TypeOK, DumpTypeOK
    <3> QED  BY <1>4, <3>1, <3>2 DEF FailOut, SameFiles, Dump
  <2> QED  BY <1>1, <2>1, <2>2, <2>3, <2>4, Move
<1> QED  BY <1>3, <1>4

LEMMA DispatchHookInv ==
  ASSUME TypeOK, HookInv, NEW t \in Thread, Dispatch(t)
  PROVE  HookInv'
<1>1. /\ pc[t] = "dispatch" /\ pc' = [pc EXCEPT ![t] = "end"]
      /\ pc'[t] = "end"
      /\ UNCHANGED <<countVars, id, selected, dumps, launch, label>>
  BY DEF Dispatch, TypeOK, AppTypeOK
<1>2. /\ "end" \in Pc
      /\ \A q \in {"dispatch", "end"} :
           q \in Open /\ q \in Hooked /\ q \notin Beginning /\ q \notin Ending
  BY DEF Pc, Hooked, Open, Beginning, Ending
<1>3. ChosenAt(t)'
  <2>1. ChosenAt(t)
    BY DEF HookInv, ChosenWritesDump
  <2> QED  BY <1>1, <1>2, <2>1 DEF ChosenAt, Writing, This, FileStateAt
<1> QED  BY <1>1, <1>2, <1>3, Move

LEMMA FetchHookInv ==
  ASSUME TypeOK, HookInv, NEW t \in Thread, FetchKernelId(t)
  PROVE  HookInv'
<1>1. /\ pc[t] = "begin"
      /\ \A s \in Thread : pc'[s] = IF s = t THEN "count" ELSE pc[s]
      /\ \A s \in Thread : id'[s] = IF s = t THEN next_kernel_id ELSE id[s]
      /\ next_kernel_id' = next_kernel_id + 1
      /\ UNCHANGED <<kernel_invocations, kernel_states, dumps, selected, launch,
                     label>>
  BY DEF FetchKernelId, TypeOK, AppTypeOK, LocalTypeOK
<1>2. /\ "begin" \notin Hooked /\ "begin" \notin Open
      /\ "count" \notin Open /\ "count" \notin Beginning /\ "count" \notin Ending
  BY DEF Hooked, Open, Beginning, Ending
<1>3. KernelStatesMatch'
  <2>1. {s \in Thread : pc'[s] \in Open} = {s \in Thread : pc[s] \in Open}
    BY <1>1, <1>2
  <2>2. \A s \in {r \in Thread : pc[r] \in Open} : id'[s] = id[s]
    BY <1>1, <1>2
  <2> QED  BY <1>1, <2>1, <2>2 DEF HookInv, KernelStatesMatch
<1>4. IdsDistinct'
  <2>1. next_kernel_id \in Nat /\ \A s \in Thread : id[s] \in Nat
    BY DEF TypeOK, CountTypeOK, LocalTypeOK
  <2>2. \A s \in Thread : pc[s] \in Hooked => id[s] < next_kernel_id
    BY DEF HookInv, IdsDistinct
  <2>3. \A s \in Thread : pc'[s] \in Hooked => id'[s] < next_kernel_id'
    BY <1>1, <2>1, <2>2
  <2>4. ASSUME NEW r \in Thread, NEW s \in Thread, r # s,
               pc'[r] \in Hooked, pc'[s] \in Hooked
        PROVE  id'[r] # id'[s]
    <3>1. CASE r # t /\ s # t
      BY <1>1, <2>4, <3>1 DEF HookInv, IdsDistinct
    <3>2. CASE r = t \/ s = t
      BY <1>1, <2>1, <2>2, <2>4, <3>2
    <3> QED  BY <3>1, <3>2
  <2> QED  BY <2>3, <2>4 DEF IdsDistinct
<1>5. ChosenWritesDump'
  <2>1. ChosenAt(t)'
    BY <1>1, <1>2 DEF ChosenAt, Writing
  <2>2. ASSUME NEW s \in Thread, s # t PROVE ChosenAt(s)'
    BY <1>1, <2>2, OtherThread
  <2> QED  BY <2>1, <2>2 DEF ChosenWritesDump
<1>6. ChosenByCount' /\ AtMostOneDump'
  BY <1>1 DEF HookInv, ChosenByCount, AtMostOneDump
<1> QED  BY <1>3, <1>4, <1>5, <1>6 DEF HookInv

(* The threads other than t keep their ids.                                *)
LEMMA IdsStay ==
  ASSUME HookInv, NEW t \in Thread, pc[t] \in Hooked,
         \A s \in Thread \ {t} : pc'[s] = pc[s],
         UNCHANGED <<id, next_kernel_id>>
  PROVE  IdsDistinct'
  BY DEF HookInv, IdsDistinct

LEMMA CountHookInv ==
  ASSUME TypeOK, HookInv, NEW t \in Thread, CountInvocation(t)
  PROVE  HookInv'
<1> DEFINE n == kernel_invocations[label[t]] + 1
           chosen == should_dump_views_for_invocation(label[t], n)
           p == IF chosen THEN "fence_in" ELSE "dispatch"
           old == kernel_invocations[DumpLabel]
<1>1. /\ pc[t] = "count"
      /\ \A s \in Thread : pc'[s] = IF s = t THEN p ELSE pc[s]
      /\ UNCHANGED <<id, next_kernel_id, dumps, launch, label>>
      /\ kernel_states' = Put(kernel_states, id[t],
                              [invocation |-> n, dump_path |-> FALSE])
      /\ selected'.launch = IF chosen THEN This(t) ELSE selected.launch
      /\ kernel_invocations' = [kernel_invocations EXCEPT ![label[t]] = n]
  BY DEF CountInvocation, NextInvocation, TypeOK, AppTypeOK
<1>2. /\ p \in Open
      /\ pc[t] \notin Open /\ pc[t] \in Hooked
      /\ "fence_in" \in Beginning
      /\ "dispatch" \notin Beginning /\ "dispatch" \notin Ending
  BY <1>1 DEF Open, Hooked, Beginning, Ending
<1>3. KernelStatesMatch'
  <2>1. {s \in Thread : pc'[s] \in Open}
          = {s \in Thread : pc[s] \in Open} \cup {t}
    BY <1>1, <1>2
  <2>2. DOMAIN kernel_states' = DOMAIN kernel_states \cup {id[t]}
    BY <1>1 DEF Put
  <2> QED  BY <1>1, <2>1, <2>2 DEF HookInv, KernelStatesMatch
<1>4. IdsDistinct'
  BY <1>1, <1>2, IdsStay
<1>5. /\ old \in Nat /\ DumpInvocation \in Nat /\ n \in Nat
      /\ kernel_invocations'[DumpLabel] = IF label[t] = DumpLabel THEN old + 1
                                          ELSE old
      /\ label[t] = DumpLabel => n = old + 1
  <2>1. kernel_invocations \in [Label -> Nat] /\ DumpLabel \in Label
        /\ label[t] \in Label /\ DumpInvocation \in Nat
    BY CaptureAssumption DEF TypeOK, AppTypeOK, CountTypeOK
  <2> QED  BY <1>1, <2>1
<1>6. chosen => selected.launch = NoLaunch /\ DOMAIN dumps = {}
  <2>1. chosen => DumpInvocation = old + 1
    BY <1>5 DEF should_dump_views_for_invocation
  <2> QED  BY <1>5, <2>1 DEF HookInv, ChosenByCount
<1>7. This(t) # NoLaunch
  BY DEF This, NoLaunch
<1>8. ChosenWritesDump'
  <2>1. ChosenAt(t)'
    <3>1. kernel_states'[id[t]] = [invocation |-> n, dump_path |-> FALSE]
      BY <1>1 DEF Put
    <3>2. CASE chosen
      <4>1. label[t] = DumpLabel /\ n = DumpInvocation
        BY <3>2 DEF should_dump_views_for_invocation
      <4> QED  BY <1>1, <1>6, <3>1, <3>2, <4>1 DEF ChosenAt, This
    <3>3. CASE ~chosen
      BY <1>1, <1>2, <3>1, <3>3 DEF ChosenAt, Writing
    <3> QED  BY <3>2, <3>3
  <2>2. ASSUME NEW s \in Thread, s # t PROVE ChosenAt(s)'
    <3>1. Writing(s) => selected'.launch = selected.launch
      <4>1. Writing(s) => selected.launch = This(s) /\ This(s) # NoLaunch
        BY DEF HookInv, ChosenWritesDump, ChosenAt, This, NoLaunch
      <4> QED  BY <1>1, <1>6, <4>1
    <3>2. pc[s] \in Open => kernel_states'[id[s]] = kernel_states[id[s]]
      <4>1. pc[s] \in Open => id[s] # id[t] /\ id[s] \in DOMAIN kernel_states
        BY <1>2, <2>2
           DEF HookInv, IdsDistinct, KernelStatesMatch, Hooked
      <4> QED  BY <1>1, <4>1 DEF Put
    <3> QED  BY <1>1, <2>2, <3>1, <3>2, OtherThread
  <2> QED  BY <2>1, <2>2 DEF ChosenWritesDump
<1>9. ChosenByCount'
  <2>1. CASE chosen
    <3>1. label[t] = DumpLabel /\ n = DumpInvocation /\ DumpInvocation # 0
      BY <2>1 DEF should_dump_views_for_invocation
    <3> QED  BY <1>1, <1>5, <1>7, <2>1, <3>1 DEF ChosenByCount
  <2>2. CASE ~chosen
    <3>1. (DumpInvocation # 0 /\ old >= DumpInvocation)
            <=> (DumpInvocation # 0
                   /\ kernel_invocations'[DumpLabel] >= DumpInvocation)
      BY <1>5, <2>2 DEF should_dump_views_for_invocation
    <3> QED  BY <1>1, <2>2, <3>1 DEF HookInv, ChosenByCount
  <2> QED  BY <2>1, <2>2
<1>10. AtMostOneDump'
  BY <1>1 DEF HookInv, AtMostOneDump
<1> QED  BY <1>3, <1>4, <1>8, <1>9, <1>10 DEF HookInv

LEMMA CreateHookInv ==
  ASSUME TypeOK, HookInv, NEW t \in Thread, create_kernel_dump(t)
  PROVE  HookInv'
<1>1. /\ pc[t] = "create"
      /\ \A s \in Thread : pc'[s] = IF s = t THEN "copy_in" ELSE pc[s]
      /\ UNCHANGED <<countVars, id, selected, launch, label>>
  BY DEF create_kernel_dump, TypeOK, AppTypeOK
<1>2. /\ \A q \in {"create", "copy_in"} :
           q \in Open /\ q \in Hooked /\ q \in Beginning
      /\ Writing(t) /\ ChosenAt(t)
  BY <1>1 DEF Open, Hooked, Beginning, Writing, HookInv, ChosenWritesDump
<1>3. /\ label[t] = DumpLabel
      /\ kernel_states[id[t]].invocation = DumpInvocation
      /\ DOMAIN dumps = {}
      /\ selected.launch = This(t)
      /\ ~kernel_states[id[t]].dump_path
  BY <1>1, <1>2 DEF ChosenAt
<1>4. /\ DOMAIN dumps' = {id[t]}
      /\ dumps'[id[t]].label = DumpLabel
      /\ dumps'[id[t]].invocation = DumpInvocation
      /\ dumps'[id[t]].state = "writing_in"
  BY <1>3 DEF create_kernel_dump, Put
<1>5. KernelStatesMatch'
  <2>1. {s \in Thread : pc'[s] \in Open} = {s \in Thread : pc[s] \in Open}
    BY <1>1, <1>2
  <2> QED  BY <1>1, <2>1 DEF HookInv, KernelStatesMatch
<1>6. IdsDistinct'
  BY <1>1, <1>2, IdsStay
<1>7. ChosenWritesDump'
  <2>1. ChosenAt(t)'
    BY <1>1, <1>3, <1>4 DEF ChosenAt, This, FileStateAt
  <2>2. ASSUME NEW s \in Thread, s # t PROVE ChosenAt(s)'
    BY <1>1, <1>2, <2>2, OtherThread
  <2> QED  BY <2>1, <2>2 DEF ChosenWritesDump
<1>8. ChosenByCount'
  <2>1. selected.launch # NoLaunch
    BY <1>3 DEF This, NoLaunch
  <2> QED  BY <1>1, <2>1 DEF HookInv, ChosenByCount
<1>9. AtMostOneDump'
  BY <1>4 DEF AtMostOneDump
<1> QED  BY <1>5, <1>6, <1>7, <1>8, <1>9 DEF HookInv

LEMMA RecordHookInv ==
  ASSUME TypeOK, HookInv, NEW t \in Thread, RecordDumpPath(t)
  PROVE  HookInv'
<1>1. /\ pc[t] = "record"
      /\ \A s \in Thread : pc'[s] = IF s = t THEN "dispatch" ELSE pc[s]
      /\ UNCHANGED <<next_kernel_id, kernel_invocations, id, selected, dumps,
                     launch, label>>
  BY DEF RecordDumpPath, TypeOK, AppTypeOK
<1>2. /\ \A q \in {"record", "dispatch"} : q \in Open /\ q \in Hooked
      /\ "dispatch" \notin Beginning /\ "dispatch" \notin Ending
      /\ Writing(t) /\ ChosenAt(t)
  BY <1>1
     DEF Open, Hooked, Beginning, Ending, Writing, HookInv, ChosenWritesDump
<1>3. id[t] \in DOMAIN kernel_states /\ kernel_states[id[t]] \in KernelState
  BY <1>1, <1>2 DEF HookInv, KernelStatesMatch, TypeOK, CountTypeOK
<1>4. /\ DOMAIN kernel_states' = DOMAIN kernel_states
      /\ \A i \in DOMAIN kernel_states :
           i # id[t] => kernel_states'[i] = kernel_states[i]
  BY DEF RecordDumpPath
<1>5. KernelStatesMatch'
  <2>1. {s \in Thread : pc'[s] \in Open} = {s \in Thread : pc[s] \in Open}
    BY <1>1, <1>2
  <2> QED  BY <1>1, <1>4, <2>1 DEF HookInv, KernelStatesMatch
<1>6. IdsDistinct'
  BY <1>1, <1>2, IdsStay
<1>7. ChosenWritesDump'
  <2>1. ChosenAt(t)'
    BY <1>1, <1>2 DEF ChosenAt, This, FileStateAt
  <2>2. ASSUME NEW s \in Thread, s # t PROVE ChosenAt(s)'
    <3>1. pc[s] \in Open => id[s] # id[t] /\ id[s] \in DOMAIN kernel_states
      BY <1>1, <1>2, <2>2 DEF HookInv, IdsDistinct, KernelStatesMatch, Hooked
    <3> QED  BY <1>1, <1>4, <2>2, <3>1, OtherThread
  <2> QED  BY <2>1, <2>2 DEF ChosenWritesDump
<1>8. ChosenByCount' /\ AtMostOneDump'
  BY <1>1 DEF HookInv, ChosenByCount, AtMostOneDump
<1> QED  BY <1>5, <1>6, <1>7, <1>8 DEF HookInv

LEMMA EndHookInv ==
  ASSUME TypeOK, HookInv, NEW t \in Thread, end_kernel(t)
  PROVE  HookInv'
<1> DEFINE p == IF kernel_states[id[t]].dump_path THEN "fence_out" ELSE "app"
<1>1. /\ pc[t] = "end"
      /\ \A s \in Thread : pc'[s] = IF s = t THEN p ELSE pc[s]
      /\ UNCHANGED <<next_kernel_id, kernel_invocations, id, selected, dumps,
                     launch, label>>
      /\ kernel_states' = Drop(kernel_states, id[t])
  BY DEF end_kernel, TypeOK, AppTypeOK
<1>2. /\ "end" \in Open /\ "end" \in Hooked
      /\ p \notin Open /\ p \notin Beginning
      /\ "app" \notin Ending
      /\ ChosenAt(t)
  BY DEF Open, Hooked, Beginning, Ending, HookInv, ChosenWritesDump
<1>3. /\ DOMAIN kernel_states' = DOMAIN kernel_states \ {id[t]}
      /\ \A i \in DOMAIN kernel_states \ {id[t]} :
           kernel_states'[i] = kernel_states[i]
  BY <1>1 DEF Drop
<1>4. \A s \in Thread : s # t /\ pc[s] \in Open => id[s] # id[t]
  BY <1>1, <1>2 DEF HookInv, IdsDistinct, Hooked
<1>5. KernelStatesMatch'
  <2>1. {s \in Thread : pc'[s] \in Open} = {s \in Thread : pc[s] \in Open} \ {t}
    BY <1>1, <1>2
  <2> QED  BY <1>1, <1>2, <1>3, <1>4, <2>1 DEF HookInv, KernelStatesMatch
<1>6. IdsDistinct'
  BY <1>1, <1>2, IdsStay
<1>7. ChosenWritesDump'
  <2>1. ChosenAt(t)'
    BY <1>1, <1>2 DEF ChosenAt, This, FileStateAt, Writing
  <2>2. ASSUME NEW s \in Thread, s # t PROVE ChosenAt(s)'
    <3>1. pc[s] \in Open => id[s] \in DOMAIN kernel_states \ {id[t]}
      BY <1>4, <2>2 DEF HookInv, KernelStatesMatch
    <3> QED  BY <1>1, <1>3, <2>2, <3>1, OtherThread
  <2> QED  BY <2>1, <2>2 DEF ChosenWritesDump
<1>8. ChosenByCount' /\ AtMostOneDump'
  BY <1>1 DEF HookInv, ChosenByCount, AtMostOneDump
<1> QED  BY <1>5, <1>6, <1>7, <1>8 DEF HookInv

-----------------------------------------------------------------------------
IInv == TypeOK /\ HookInv

LEMMA InitIInv == Init => IInv
<1> SUFFICES ASSUME Init PROVE HookInv
  BY InitTypeOK DEF IInv
<1> USE DEF Init
<1>1. \A t \in Thread : pc[t] \notin Hooked /\ ~Writing(t)
  BY DEF Hooked, Open, Beginning, Ending, Writing
<1>2. KernelStatesMatch
  BY <1>1 DEF KernelStatesMatch, Hooked
<1>3. IdsDistinct /\ ChosenWritesDump /\ AtMostOneDump
  BY <1>1
     DEF IdsDistinct, ChosenWritesDump, ChosenAt, Writing, AtMostOneDump
<1>4. ChosenByCount
  <2>1. kernel_invocations[DumpLabel] = 0 /\ DumpInvocation \in Nat
    BY CaptureAssumption
  <2> QED  BY <2>1 DEF ChosenByCount, NotSelected
<1> QED  BY <1>2, <1>3, <1>4 DEF HookInv

(* A step that changes nothing the hooks and the dump depend on.           *)
LEMMA Elsewhere ==
  ASSUME HookInv,
         UNCHANGED <<pc, id, countVars, dumps, selected, launch, label>>
  PROVE  HookInv'
  BY DEF HookInv, KernelStatesMatch, IdsDistinct, ChosenWritesDump, ChosenAt,
         Writing, This, ChosenByCount, AtMostOneDump

LEMMA NextIInv == IInv /\ [Next]_vars => IInv'
<1> SUFFICES ASSUME TypeOK, HookInv, [Next]_vars PROVE TypeOK' /\ HookInv'
  BY DEF IInv
<1>1. CASE UNCHANGED vars
  <2>1. HookInv'
    BY <1>1, Elsewhere DEF vars
  <2>2. TypeOK'
    BY <1>1 DEF vars, TypeOK, AppTypeOK, KokkosTypeOK, CountTypeOK, StageTypeOK,
                LocalTypeOK, DumpTypeOK, LaunchStarted
  <2> QED  BY <2>1, <2>2
<1>2. CASE Initialize
  BY <1>2, InitializeTypeOK, Elsewhere DEF Initialize
<1>3. CASE add_metadata
  BY <1>3, AddMetadataTypeOK, Elsewhere DEF add_metadata
<1>4. CASE \E k \in pending : Execute(k)
  BY <1>4, ExecuteTypeOK, Elsewhere DEF Execute
<1>5. ASSUME NEW t \in Thread, ViewStep(t) PROVE TypeOK' /\ HookInv'
  BY <1>5, ViewStepTypeOK, Elsewhere DEF ViewStep
<1>6. ASSUME NEW t \in Thread, StartLaunch(t) PROVE TypeOK' /\ HookInv'
  BY <1>6, StartLaunchTypeOK, OutsideHookInv
<1>7. ASSUME NEW t \in Thread, InLaunch(t) PROVE TypeOK' /\ HookInv'
  <2>1. CASE \/ parallel_for(t) \/ register_bounds(t)
             \/ replay_functor(t) \/ clear_registered_views(t)
             \/ register_view(t) \/ copy_functor(t)
    BY <2>1, ExtractorTypeOK, OutsideHookInv
  <2>2. CASE FetchKernelId(t)
    BY <2>2, FetchTypeOK, FetchHookInv
  <2>3. CASE CountInvocation(t)
    BY <2>3, CountTypes, CountHookInv
  <2>4. CASE \/ CallFence(t, "fence_in", "wait_in")
             \/ CallFence(t, "fence_out", "wait_out")
             \/ ReturnFromFence(t, "wait_in", "snap_in")
             \/ ReturnFromFence(t, "wait_out", "snap_out")
    <3>1. \A q \in {"wait_in", "wait_out", "snap_in", "snap_out"} : q \in Pc
      BY DEF Pc, Beginning, Ending
    <3> QED  BY <2>4, <3>1, FenceTypeOK, QuietHookInv
  <2>5. CASE \/ TakeSnapshot(t, "snap_in", "create")
             \/ TakeSnapshot(t, "snap_out", "append")
    <3>1. "create" \in Pc /\ "append" \in Pc
      BY DEF Pc, Beginning, Ending
    <3> QED  BY <2>5, <3>1, SnapshotTypeOK, QuietHookInv
  <2>6. CASE create_kernel_dump(t)
    BY <2>6, CreateTypeOK, CreateHookInv DEF HookInv
  <2>7. CASE CopyIn(t) \/ CopyOut(t)
    BY <2>7, CopyTypeOK, WriteHookInv, CopyOutHookInv
  <2>8. CASE WritePolicy(t) \/ WriteFunctor(t)
    BY <2>8, WriteTypeOK, WriteHookInv
  <2>9. CASE RecordDumpPath(t)
    BY <2>9, RecordTypeOK, RecordHookInv
  <2>10. CASE Dispatch(t)
    BY <2>10, DispatchTypeOK, DispatchHookInv
  <2>11. CASE end_kernel(t)
    BY <2>11, EndTypeOK, EndHookInv
  <2>12. CASE append_kernel_output(t)
    BY <2>12, AppendTypeOK, AppendHookInv
  <2> QED
    BY <1>7, <2>1, <2>2, <2>3, <2>4, <2>5, <2>6, <2>7, <2>8, <2>9, <2>10,
       <2>11, <2>12 DEF InLaunch
<1>8. ASSUME NEW t \in Thread, FailIn(t) \/ FailOut(t) PROVE TypeOK' /\ HookInv'
  BY <1>8, FailTypeOK, FailHookInv
<1> QED  BY <1>1, <1>2, <1>3, <1>4, <1>5, <1>6, <1>7, <1>8 DEF Next

(* IInv holds in every reachable state, for every value of the constants.  *)
LEMMA Inductive == Spec => []IInv
<1> QED  BY InitIInv, NextIInv, PTL DEF Spec

(* Every variable of the capture keeps its type (kokkos_hooks.cpp,         *)
(* kernel_extractor.hpp, view_dump.cpp).                                   *)
THEOREM CaptureTypeOK == Spec => []TypeOK
<1>1. IInv => TypeOK
  BY DEF IInv
<1> QED  BY <1>1, Inductive, PTL

(* A run writes at most one dump, of the selected label and invocation,    *)
(* however many threads launch kernels with that label and whichever HDF5  *)
(* call fails (begin_kernel, end_kernel).                                  *)
THEOREM OneDump == Spec => []AtMostOneDump
<1>1. IInv => AtMostOneDump
  BY DEF IInv, HookInv
<1> QED  BY <1>1, Inductive, PTL

(* begin_kernel and end_kernel leave exactly the entries of the launches   *)
(* between the two hooks in kernel_states.                                 *)
THEOREM NoStateLeaked == Spec => []KernelStatesMatch
<1>1. IInv => KernelStatesMatch
  BY DEF IInv, HookInv
<1> QED  BY <1>1, Inductive, PTL

(* Only the thread of the chosen launch writes into the dump, and the file *)
(* is in the state its steps left it in.                                   *)
THEOREM OnlyChosenWrites == Spec => []ChosenWritesDump
<1>1. IInv => ChosenWritesDump
  BY DEF IInv, HookInv
<1> QED  BY <1>1, Inductive, PTL
=============================================================================
