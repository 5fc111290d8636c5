---------------------- MODULE CaptureRefinementProofs ----------------------
(***************************************************************************)
(* The capture protocol implements CaptureOnce, for any threads, labels,   *)
(* Views, build options and number of launches, and whatever fails.        *)
(***************************************************************************)
EXTENDS KernelCaptureProofs

USE DEF appVars, kokkosVars, countVars, stageVars, localVars, GoTo

(* Where a thread is before its kernel is dispatched, and in all the       *)
(* places it can be once the kernel has been counted.                      *)
Before == Beginning \cup {"dispatch"}
Counted == Before \cup {"end", "app"} \cup Ending

KernelOf(l, n, p) ==
  IF l = NoLaunch THEN "none"
  ELSE IF n[l[1]] = l[2] /\ p[l[1]] \in Before THEN "chosen" ELSE "ran"

PartOf(d) ==
  IF \E i \in DOMAIN d : d[i].state = "complete" THEN "output"
  ELSE IF \E i \in DOMAIN d : HasInput(d[i]) THEN "input"
  ELSE "nothing"

(* The chosen launch is one its thread has started, and while it is the    *)
(* last of its thread, the thread has counted it.                          *)
ChosenPlace ==
  LET l == selected.launch IN
  l # NoLaunch => /\ l \in Launch
                  /\ l[2] <= launch[l[1]]
                  /\ launch[l[1]] = l[2] => pc[l[1]] \in Counted

RInv == IInv /\ ChosenPlace

LEMMA LaunchPair ==
  ASSUME NEW l \in Launch
  PROVE  /\ l[1] \in Thread /\ l[2] \in 1 .. MaxLaunches
         /\ l = <<l[1], l[2]>>
         /\ l # NoLaunch
  BY DEF Launch, NoLaunch

LEMMA PartOfOne ==
  ASSUME NEW d, NEW i, DOMAIN d = {i}
  PROVE  PartOf(d) = IF d[i].state = "complete" THEN "output"
                     ELSE IF d[i].state \notin {"writing_in", "failed_in"}
                     THEN "input" ELSE "nothing"
  BY DEF PartOf, HasInput

LEMMA PartOfNone ==
  ASSUME NEW d, DOMAIN d = {} PROVE PartOf(d) = "nothing"
  BY DEF PartOf

LEMMA AsOperators ==
  /\ ChosenKernel = KernelOf(selected.launch, launch, pc)
  /\ ChosenKernel' = KernelOf(selected'.launch, launch', pc')
  /\ CapturedPart = PartOf(dumps)
  /\ CapturedPart' = PartOf(dumps')
  BY DEF ChosenKernel, KernelOf, Before, CapturedPart, PartOf

-----------------------------------------------------------------------------
(* What a step of the protocol is to CaptureOnce.                          *)
counted == kernel_invocations[DumpLabel]

Stutter ==
  /\ counted' = counted
  /\ ChosenKernel' = ChosenKernel
  /\ CapturedPart' = CapturedPart

Count ==
  /\ counted' = counted + 1
  /\ ChosenKernel' = IF DumpInvocation # 0 /\ counted + 1 = DumpInvocation
                     THEN "chosen" ELSE ChosenKernel
  /\ CapturedPart' = CapturedPart

Input ==
  /\ ChosenKernel = "chosen" /\ ChosenKernel' = "chosen"
  /\ CapturedPart = "nothing" /\ CapturedPart' = "input"
  /\ counted' = counted

Run ==
  /\ ChosenKernel = "chosen" /\ ChosenKernel' = "ran"
  /\ CapturedPart' = CapturedPart
  /\ counted' = counted

Output ==
  /\ ChosenKernel = "ran" /\ ChosenKernel' = "ran"
  /\ CapturedPart = "input" /\ CapturedPart' = "output"
  /\ counted' = counted

OnceStep == Stutter \/ Count \/ Input \/ Run \/ Output

-----------------------------------------------------------------------------
(* A thread that moves without passing Dispatch leaves the kernel as it    *)
(* is, and the chosen launch where it can be.                              *)
LEMMA Moves ==
  ASSUME RInv, NEW t \in Thread, NEW q \in Pc,
         pc' = [pc EXCEPT ![t] = q],
         UNCHANGED <<launch, selected>>,
         selected.launch = This(t) => (pc[t] \in Before <=> q \in Before),
         pc[t] \in Counted => q \in Counted
  PROVE  ChosenKernel' = ChosenKernel /\ ChosenPlace'
<1> DEFINE l == selected.launch
<1>1. pc \in [Thread -> Pc] /\ launch \in [Thread -> 0 .. MaxLaunches]
  BY DEF RInv, IInv, TypeOK, AppTypeOK
<1>2. CASE l = NoLaunch
  BY <1>2, AsOperators DEF KernelOf, ChosenPlace
<1>3. CASE l # NoLaunch
  <2>1. l \in Launch /\ l[1] \in Thread /\ l = <<l[1], l[2]>>
    BY <1>3, LaunchPair DEF RInv, ChosenPlace
  <2>2. /\ l[2] <= launch[l[1]]
        /\ launch[l[1]] = l[2] => pc[l[1]] \in Counted
    BY <1>3 DEF RInv, ChosenPlace
  <2>3. pc'[l[1]] = IF l[1] = t THEN q ELSE pc[l[1]]
    BY <1>1, <2>1
  <2>4. l[1] = t /\ launch[l[1]] = l[2] => l = This(t)
    BY <2>1 DEF This
  <2>5. ChosenPlace'
    BY <1>3, <2>1, <2>2, <2>3 DEF ChosenPlace
  <2>6. KernelOf(l, launch, pc') = KernelOf(l, launch, pc)
    BY <1>3, <2>3, <2>4 DEF KernelOf
  <2> QED
    BY <2>5, <2>6, AsOperators
<1> QED
  BY <1>2, <1>3

(* A step of no thread, or one that moves nobody.                          *)
LEMMA Stays ==
  ASSUME RInv, UNCHANGED <<pc, launch, selected>>
  PROVE  ChosenKernel' = ChosenKernel /\ ChosenPlace'
  BY DEF RInv, ChosenPlace, ChosenKernel

(* The thread that writes is the one of the chosen launch.                 *)
LEMMA Writer ==
  ASSUME RInv, NEW t \in Thread, pc[t] \in Before \cup Ending, Writing(t)
  PROVE  /\ selected.launch = This(t) /\ This(t) # NoLaunch
         /\ This(t)[1] = t /\ This(t)[2] = launch[t]
         /\ ChosenKernel = IF pc[t] \in Before THEN "chosen" ELSE "ran"
         /\ IF pc[t] \in {"fence_in", "wait_in", "snap_in", "create"}
            THEN DOMAIN dumps = {}
            ELSE DOMAIN dumps = {id[t]} /\ dumps[id[t]].state = FileStateAt(pc[t])
<1>1. selected.launch = This(t)
  BY DEF RInv, IInv, HookInv, ChosenWritesDump, ChosenAt
<1>2. This(t) # NoLaunch /\ This(t)[1] = t /\ This(t)[2] = launch[t]
  BY DEF This, NoLaunch
<1>3. ChosenKernel = IF pc[t] \in Before THEN "chosen" ELSE "ran"
  BY <1>1, <1>2, AsOperators DEF KernelOf
<1> QED
  BY <1>1, <1>2, <1>3 DEF RInv, IInv, HookInv, ChosenWritesDump, ChosenAt

-----------------------------------------------------------------------------
(* The application, the device and the staging calls.                      *)
LEMMA OutsideOnce ==
  ASSUME RInv,
         \/ UNCHANGED vars
         \/ Initialize \/ add_metadata \/ \E k \in pending : Execute(k)
         \/ \E t \in Thread : ViewStep(t)
  PROVE  Stutter /\ ChosenPlace'
<1>1. UNCHANGED <<pc, launch, selected, dumps, kernel_invocations>>
  BY DEF vars, Initialize, add_metadata, Execute, ViewStep
<1> QED
  BY <1>1, Stays, AsOperators DEF Stutter, counted

LEMMA StartOnce ==
  ASSUME RInv, NEW t \in Thread, StartLaunch(t)
  PROVE  Stutter /\ ChosenPlace'
<1> DEFINE l == selected.launch
<1>1. /\ pc \in [Thread -> Pc] /\ launch \in [Thread -> 0 .. MaxLaunches]
      /\ pc[t] = "app" /\ MaxLaunches \in Nat
      /\ launch' = [launch EXCEPT ![t] = @ + 1]
      /\ UNCHANGED <<selected, dumps, kernel_invocations>>
  BY CaptureAssumption DEF RInv, IInv, TypeOK, AppTypeOK, StartLaunch
<1>2. PICK q : pc' = [pc EXCEPT ![t] = q]
  BY DEF StartLaunch
<1>3. CASE l = NoLaunch
  BY <1>1, <1>3, AsOperators DEF KernelOf, ChosenPlace, Stutter, counted
<1>4. CASE l # NoLaunch
  <2>1. l[1] \in Thread /\ l[2] \in Nat /\ l \in Launch /\ l[2] <= launch[l[1]]
    BY <1>4, LaunchPair DEF RInv, ChosenPlace
  <2>2. CASE l[1] = t
    <3>1. launch[t] \in Nat /\ launch'[t] = launch[t] + 1 /\ launch'[t] # l[2]
      BY <1>1, <2>1, <2>2
    <3>2. ChosenPlace'
      BY <1>1, <1>4, <2>1, <2>2, <3>1 DEF ChosenPlace
    <3>3. pc[t] \notin Before
      BY <1>1 DEF Before, Beginning
    <3> QED
      BY <1>1, <1>4, <2>2, <3>1, <3>2, <3>3, AsOperators
      DEF KernelOf, Stutter, counted
  <2>3. CASE l[1] # t
    <3>1. launch'[l[1]] = launch[l[1]] /\ pc'[l[1]] = pc[l[1]]
      BY <1>1, <1>2, <2>1, <2>3
    <3>2. ChosenPlace'
      BY <1>1, <1>4, <2>1, <3>1 DEF RInv, ChosenPlace
    <3> QED
      BY <1>1, <1>4, <3>1, <3>2, AsOperators DEF KernelOf, Stutter, counted
  <2> QED
    BY <2>2, <2>3
<1> QED
  BY <1>3, <1>4

Staged == {"ask", "replay", "begin", "count"} \cup Staging

LEMMA StagingOnce ==
  ASSUME RInv, NEW t \in Thread,
         \/ parallel_for(t) \/ register_bounds(t) \/ replay_functor(t)
         \/ clear_registered_views(t) \/ register_view(t) \/ copy_functor(t)
         \/ FetchKernelId(t)
  PROVE  Stutter /\ ChosenPlace'
<1>1. /\ pc[t] \in Staged
      /\ UNCHANGED <<launch, selected, dumps, kernel_invocations>>
      /\ UNCHANGED pc \/ \E q \in Staged : pc' = [pc EXCEPT ![t] = q]
  BY DEF Staged, Staging, parallel_for, register_bounds, replay_functor,
         clear_registered_views, register_view, copy_functor, FetchKernelId
<1>2. \A q \in Staged : q \in Pc /\ q \notin Counted /\ q \notin Before
  BY DEF Staged, Staging, Pc, Counted, Before, Beginning, Ending
<1>3. ChosenKernel' = ChosenKernel /\ ChosenPlace'
  BY <1>1, <1>2, Moves, Stays
<1> QED
  BY <1>1, <1>3, AsOperators DEF Stutter, counted

-----------------------------------------------------------------------------
(* The hooks.                                                              *)
LEMMA CountOnce ==
  ASSUME RInv, NEW t \in Thread, CountInvocation(t)
  PROVE  (Stutter \/ Count) /\ ChosenPlace'
<1> DEFINE n == kernel_invocations[label[t]] + 1
           chosen == should_dump_views_for_invocation(label[t], n)
<1>1. /\ pc[t] = "count"
      /\ UNCHANGED <<launch, dumps>>
      /\ kernel_invocations' = [kernel_invocations EXCEPT ![label[t]] = n]
      /\ chosen => /\ pc' = [pc EXCEPT ![t] = "fence_in"]
                   /\ selected'.launch = This(t)
      /\ ~chosen => pc' = [pc EXCEPT ![t] = "dispatch"] /\ UNCHANGED selected
  BY DEF CountInvocation, NextInvocation
<1>2. /\ pc \in [Thread -> Pc] /\ launch \in [Thread -> 0 .. MaxLaunches]
      /\ kernel_invocations \in [Label -> Nat]
      /\ DumpLabel \in Label /\ label[t] \in Label
      /\ MaxLaunches \in Nat
  BY CaptureAssumption DEF RInv, IInv, TypeOK, AppTypeOK, CountTypeOK
<1>3. counted' = IF label[t] = DumpLabel THEN counted + 1 ELSE counted
  BY <1>1, <1>2 DEF counted
<1>4. chosen <=> /\ label[t] = DumpLabel /\ DumpInvocation # 0
                 /\ counted + 1 = DumpInvocation
  BY DEF should_dump_views_for_invocation, counted
<1>5. CapturedPart' = CapturedPart
  BY <1>1, AsOperators
<1>6. CASE chosen
  <2>1. /\ This(t) \in Launch /\ This(t) # NoLaunch
        /\ This(t)[1] = t /\ This(t)[2] = launch[t]
    BY <1>1, ThisLaunch DEF RInv, IInv, This, NoLaunch
  <2>2. pc'[t] = "fence_in" /\ "fence_in" \in Before /\ "fence_in" \in Counted
    BY <1>1, <1>2, <1>6 DEF Before, Counted, Beginning
  <2>3. ChosenPlace'
    BY <1>1, <1>2, <1>6, <2>1, <2>2 DEF ChosenPlace
  <2>4. ChosenKernel' = "chosen"
    BY <1>1, <1>6, <2>1, <2>2, AsOperators DEF KernelOf
  <2> QED
    BY <1>3, <1>4, <1>5, <1>6, <2>3, <2>4 DEF Count
<1>7. CASE ~chosen
  <2>1. selected.launch # This(t)
    BY <1>1 DEF RInv, ChosenPlace, This, NoLaunch, Counted, Before, Beginning,
                Ending
  <2>2. "dispatch" \in Pc /\ "dispatch" \in Counted
    BY DEF Pc, Counted, Before
  <2>3. ChosenKernel' = ChosenKernel /\ ChosenPlace'
    BY <1>1, <1>7, <2>1, <2>2, Moves
  <2> QED
    BY <1>3, <1>4, <1>5, <1>7, <2>3 DEF Count, Stutter
<1> QED
  BY <1>6, <1>7

(* Fences, snapshots and the bookkeeping of kernel_states.                 *)
LEMMA QuietOnce ==
  ASSUME RInv, NEW t \in Thread,
         \/ CallFence(t, "fence_in", "wait_in")
         \/ ReturnFromFence(t, "wait_in", "snap_in")
         \/ TakeSnapshot(t, "snap_in", "create")
         \/ CallFence(t, "fence_out", "wait_out")
         \/ ReturnFromFence(t, "wait_out", "snap_out")
         \/ TakeSnapshot(t, "snap_out", "append")
         \/ RecordDumpPath(t) \/ end_kernel(t)
  PROVE  Stutter /\ ChosenPlace'
<1> DEFINE later == Ending \cup {"app", "end"}
<1>1. /\ UNCHANGED <<launch, selected, dumps, kernel_invocations>>
      /\ \E q \in Before \cup later :
           /\ pc' = [pc EXCEPT ![t] = q]
           /\ q \in Before <=> pc[t] \in Before
           /\ q \in later <=> pc[t] \in later
  BY DEF CallFence, ReturnFromFence, TakeSnapshot, RecordDumpPath, end_kernel,
         Before, Beginning, Ending
<1>2. \A q \in Before \cup later : q \in Pc /\ q \in Counted
  BY DEF Before, Pc, Idle, Counted
<1>3. ChosenKernel' = ChosenKernel /\ ChosenPlace'
  BY <1>1, <1>2, Moves
<1> QED
  BY <1>1, <1>3, AsOperators DEF Stutter, counted

LEMMA DispatchOnce ==
  ASSUME RInv, NEW t \in Thread, Dispatch(t)
  PROVE  (Stutter \/ Run) /\ ChosenPlace'
<1>1. /\ pc[t] = "dispatch" /\ pc' = [pc EXCEPT ![t] = "end"]
      /\ UNCHANGED <<launch, selected, dumps, kernel_invocations>>
  BY DEF Dispatch
<1>2. /\ "end" \in Pc /\ "end" \in Counted /\ "end" \notin Before
      /\ "dispatch" \in Before
  BY DEF Pc, Counted, Before, Beginning
<1>3. CASE selected.launch # This(t)
  <2>1. ChosenKernel' = ChosenKernel /\ ChosenPlace'
    BY <1>1, <1>2, <1>3, Moves
  <2> QED
    BY <1>1, <2>1, AsOperators DEF Stutter, counted
<1>4. CASE selected.launch = This(t)
  <2>1. /\ This(t) # NoLaunch /\ This(t)[1] = t /\ This(t)[2] = launch[t]
        /\ pc'[t] = "end"
    BY <1>1 DEF This, NoLaunch, RInv, IInv, TypeOK, AppTypeOK
  <2>2. ChosenKernel = "chosen" /\ ChosenKernel' = "ran"
    BY <1>1, <1>2, <1>4, <2>1, AsOperators DEF KernelOf
  <2>3. ChosenPlace'
    BY <1>1, <1>2, <1>4, <2>1 DEF RInv, ChosenPlace
  <2> QED
    BY <1>1, <2>2, <2>3, AsOperators DEF Run, counted
<1> QED
  BY <1>3, <1>4

-----------------------------------------------------------------------------
(* The calls that write into the dump.                                     *)
LEMMA CreateOnce ==
  ASSUME RInv, NEW t \in Thread, create_kernel_dump(t)
  PROVE  Stutter /\ ChosenPlace'
<1>1. /\ pc[t] = "create" /\ pc' = [pc EXCEPT ![t] = "copy_in"]
      /\ UNCHANGED <<launch, selected, kernel_invocations>>
  BY DEF create_kernel_dump
<1>2. /\ {"create", "copy_in"} \subseteq Before \cap Pc \cap Counted
      /\ Writing(t)
  BY <1>1 DEF Before, Counted, Beginning, Pc, Writing
<1>3. DOMAIN dumps = {}
  BY <1>1, <1>2, Writer
<1>4. DOMAIN dumps' = {id[t]} /\ dumps'[id[t]].state = "writing_in"
  BY <1>3 DEF create_kernel_dump, Put
<1>5. CapturedPart = "nothing" /\ CapturedPart' = "nothing"
  BY <1>3, <1>4, PartOfNone, PartOfOne, AsOperators
<1>6. ChosenKernel' = ChosenKernel /\ ChosenPlace'
  BY <1>1, <1>2, Moves
<1> QED
  BY <1>1, <1>5, <1>6 DEF Stutter, counted

(* The part of the dump that is complete, by the state of the one file.    *)
PartAt(state) ==
  IF state = "complete" THEN "output"
  ELSE IF state \in {"writing_in", "failed_in"} THEN "nothing" ELSE "input"

LEMMA Written ==
  ASSUME RInv, NEW t \in Thread, pc[t] \in Before \cup Ending, Writing(t),
         pc[t] \notin {"fence_in", "wait_in", "snap_in", "create"},
         NEW new,
         \/ UNCHANGED dumps /\ new = dumps[id[t]]
         \/ dumps' = [dumps EXCEPT ![id[t]] = new]
  PROVE  /\ CapturedPart = PartAt(FileStateAt(pc[t]))
         /\ CapturedPart' = PartAt(new.state)
         /\ dumps[id[t]].state = FileStateAt(pc[t])
<1>1. DOMAIN dumps = {id[t]} /\ dumps[id[t]].state = FileStateAt(pc[t])
  BY Writer
<1>2. DOMAIN dumps' = {id[t]} /\ dumps'[id[t]].state = new.state
  BY <1>1
<1> QED
  BY <1>1, <1>2, PartOfOne, AsOperators DEF PartAt

LEMMA WriterType ==
  ASSUME RInv, NEW t \in Thread, pc[t] \in Before \cup Ending, Writing(t),
         pc[t] \notin {"fence_in", "wait_in", "snap_in", "create"}
  PROVE  dumps[id[t]] \in Dump
<1>1. id[t] \in DOMAIN dumps
  BY Writer
<1> QED
  BY <1>1 DEF RInv, IInv, TypeOK, DumpTypeOK

LEMMA InputOnce ==
  ASSUME RInv, NEW t \in Thread, CopyIn(t) \/ WritePolicy(t) \/ WriteFunctor(t)
  PROVE  (Stutter \/ Input) /\ ChosenPlace'
<1> DEFINE in == {"copy_in", "write_policy", "write_functor"}
<1>1. /\ pc[t] \in in
      /\ UNCHANGED <<launch, selected, kernel_invocations>>
      /\ UNCHANGED pc \/ \E q \in in \cup {"record"} : pc' = [pc EXCEPT ![t] = q]
  BY DEF CopyIn, WritePolicy, WriteFunctor
<1>2. \A q \in in \cup {"record"} : q \in Before /\ q \in Pc /\ q \in Counted
  BY DEF Before, Counted, Beginning, Pc
<1>3. Writing(t) /\ FileStateAt(pc[t]) = "writing_in"
  BY <1>1 DEF Writing, Beginning, FileStateAt
<1>4. dumps[id[t]] \in Dump
  BY <1>1, <1>2, <1>3, WriterType
<1>5. ChosenKernel' = ChosenKernel /\ ChosenPlace'
  BY <1>1, <1>2, Moves, Stays
<1>6. ChosenKernel = "chosen"
  BY <1>1, <1>2, <1>3, Writer
<1>7. \E new : /\ \/ UNCHANGED dumps /\ new = dumps[id[t]]
                  \/ dumps' = [dumps EXCEPT ![id[t]] = new]
               /\ new.state \in {dumps[id[t]].state, "in"}
  <2>1. CASE CopyIn(t)
    <3>1. CASE UNCHANGED dumps
      BY <3>1
    <3>2. CASE \E v \in todo[t] :
                 dumps' = [dumps EXCEPT ![id[t]].in = Put(@, v, mem[v])]
      <4>1. PICK part : dumps' = [dumps EXCEPT ![id[t]].in = part]
        BY <3>2
      <4>2. [dumps[id[t]] EXCEPT !.in = part].state = dumps[id[t]].state
        BY <1>4 DEF Dump
      <4> QED
        BY <4>1, <4>2
    <3> QED
      BY <2>1, <3>1, <3>2 DEF CopyIn
  <2>2. CASE WritePolicy(t)
    <3>1. [dumps[id[t]] EXCEPT !.policy = policy].state = dumps[id[t]].state
      BY <1>4 DEF Dump
    <3> QED
      BY <2>2, <3>1 DEF WritePolicy
  <2>3. CASE WriteFunctor(t)
    <3> DEFINE new == [dumps[id[t]] EXCEPT !.functor = functor_data, !.state = "in"]
    <3>1. new.state = "in"
      BY <1>4 DEF Dump
    <3>2. dumps' = [dumps EXCEPT ![id[t]] = new]
      <4>1. id[t] \in DOMAIN dumps
        BY <1>1, <1>2, <1>3, Writer
      <4> QED
        BY <2>3, <4>1 DEF WriteFunctor
    <3> QED
      BY <3>1, <3>2
  <2> QED
    BY <2>1, <2>2, <2>3
<1>8. CapturedPart = "nothing" /\ CapturedPart' \in {"nothing", "input"}
  <2>1. PICK new : /\ \/ UNCHANGED dumps /\ new = dumps[id[t]]
                      \/ dumps' = [dumps EXCEPT ![id[t]] = new]
                   /\ new.state \in {dumps[id[t]].state, "in"}
    BY <1>7
  <2>2. /\ CapturedPart = PartAt("writing_in") /\ CapturedPart' = PartAt(new.state)
        /\ dumps[id[t]].state = "writing_in"
    BY <1>1, <1>2, <1>3, <2>1, Written
  <2> QED
    BY <2>1, <2>2 DEF PartAt
<1> QED
  BY <1>1, <1>5, <1>6, <1>8 DEF Stutter, Input, counted

LEMMA FailInOnce ==
  ASSUME RInv, NEW t \in Thread, FailIn(t)
  PROVE  Stutter /\ ChosenPlace'
<1>1. /\ pc[t] \in {"create", "copy_in", "write_policy", "write_functor"}
      /\ pc' = [pc EXCEPT ![t] = "dispatch"]
      /\ UNCHANGED <<launch, selected, kernel_invocations>>
  BY DEF FailIn
<1>2. /\ "dispatch" \in Before /\ "dispatch" \in Pc /\ "dispatch" \in Counted
      /\ pc[t] \in Before /\ pc[t] \in Counted /\ Writing(t)
  BY <1>1 DEF Before, Counted, Beginning, Pc, Writing
<1>3. ChosenKernel' = ChosenKernel /\ ChosenPlace'
  BY <1>1, <1>2, Moves
<1>4. CASE pc[t] = "create"
  BY <1>1, <1>3, <1>4, AsOperators DEF FailIn, Stutter, counted
<1>5. CASE pc[t] # "create"
  <2> DEFINE new == [dumps[id[t]] EXCEPT !.state = "failed_in"]
  <2>1. new.state = "failed_in"
    BY <1>1, <1>2, <1>5, WriterType DEF Dump
  <2>2. dumps' = [dumps EXCEPT ![id[t]] = new] /\ FileStateAt(pc[t]) = "writing_in"
    BY <1>1, <1>5 DEF FailIn, FileStateAt
  <2> HIDE DEF new
  <2>3. CapturedPart = PartAt("writing_in") /\ CapturedPart' = PartAt("failed_in")
    BY <1>1, <1>2, <1>5, <2>1, <2>2, Written
  <2> QED
    BY <1>1, <1>3, <2>3 DEF PartAt, Stutter, counted
<1> QED
  BY <1>4, <1>5

LEMMA OutputOnce ==
  ASSUME RInv, NEW t \in Thread,
         append_kernel_output(t) \/ CopyOut(t) \/ FailOut(t)
  PROVE  (Stutter \/ Output) /\ ChosenPlace'
<1>1. /\ pc[t] \in {"append", "copy_out"}
      /\ UNCHANGED <<launch, selected, kernel_invocations>>
      /\ UNCHANGED pc \/ \E q \in {"copy_out", "app"} : pc' = [pc EXCEPT ![t] = q]
  BY DEF append_kernel_output, CopyOut, FailOut
<1>2. /\ \A q \in {"append", "copy_out", "app"} :
           q \notin Before /\ q \in Pc /\ q \in Counted
      /\ pc[t] \in Ending /\ Writing(t)
      /\ FileStateAt(pc[t]) \in {"in", "writing_out"}
  BY <1>1 DEF Before, Counted, Beginning, Ending, Pc, Idle, Writing, FileStateAt
<1>3. dumps[id[t]] \in Dump
  BY <1>1, <1>2, WriterType
<1>4. ChosenKernel' = ChosenKernel /\ ChosenPlace'
  BY <1>1, <1>2, Moves, Stays
<1>5. ChosenKernel = "ran"
  BY <1>1, <1>2, Writer
<1>6. \E new : /\ \/ UNCHANGED dumps /\ new = dumps[id[t]]
                  \/ dumps' = [dumps EXCEPT ![id[t]] = new]
               /\ new.state \in {dumps[id[t]].state, "writing_out", "failed_out",
                                 "complete"}
  <2>1. \A state : [dumps[id[t]] EXCEPT !.state = state].state = state
    BY <1>3 DEF Dump
  <2>2. CASE UNCHANGED dumps
    BY <2>2
  <2>3. CASE \E state \in {"writing_out", "failed_out", "complete"} :
               dumps' = [dumps EXCEPT ![id[t]].state = state]
    BY <2>1, <2>3
  <2>4. CASE \E v \in todo[t] :
               dumps' = [dumps EXCEPT ![id[t]].out = Put(@, v, mem[v])]
    <3>1. PICK part : dumps' = [dumps EXCEPT ![id[t]].out = part]
      BY <2>4
    <3>2. [dumps[id[t]] EXCEPT !.out = part].state = dumps[id[t]].state
      BY <1>3 DEF Dump
    <3> QED
      BY <3>1, <3>2
  <2> QED
    BY <2>2, <2>3, <2>4 DEF append_kernel_output, CopyOut, FailOut
<1>7. CapturedPart = "input" /\ CapturedPart' \in {"input", "output"}
  <2>1. PICK new : /\ \/ UNCHANGED dumps /\ new = dumps[id[t]]
                      \/ dumps' = [dumps EXCEPT ![id[t]] = new]
                   /\ new.state \in {dumps[id[t]].state, "writing_out",
                                     "failed_out", "complete"}
    BY <1>6
  <2>2. /\ CapturedPart = PartAt(FileStateAt(pc[t]))
        /\ CapturedPart' = PartAt(new.state)
        /\ dumps[id[t]].state = FileStateAt(pc[t])
    BY <1>1, <1>2, <2>1, Written
  <2> QED
    BY <1>2, <2>1, <2>2 DEF PartAt
<1> QED
  BY <1>1, <1>4, <1>5, <1>7 DEF Stutter, Output, counted

-----------------------------------------------------------------------------
LEMMA InitRInv == Init => RInv
<1> SUFFICES ASSUME Init PROVE ChosenPlace
  BY InitIInv DEF RInv
<1> QED
  BY DEF Init, ChosenPlace, NotSelected

LEMMA StepOnce == RInv /\ [Next]_vars => OnceStep /\ RInv'
<1> SUFFICES ASSUME RInv, [Next]_vars PROVE OnceStep /\ ChosenPlace'
  BY NextIInv DEF RInv
<1>1. CASE \/ UNCHANGED vars
           \/ Initialize \/ add_metadata \/ \E k \in pending : Execute(k)
           \/ \E t \in Thread : ViewStep(t)
  BY <1>1, OutsideOnce DEF OnceStep
<1>2. ASSUME NEW t \in Thread, StartLaunch(t) PROVE OnceStep /\ ChosenPlace'
  BY <1>2, StartOnce DEF OnceStep
<1>3. ASSUME NEW t \in Thread, InLaunch(t) PROVE OnceStep /\ ChosenPlace'
  <2>1. CASE \/ parallel_for(t) \/ register_bounds(t) \/ replay_functor(t)
             \/ clear_registered_views(t) \/ register_view(t)
             \/ copy_functor(t) \/ FetchKernelId(t)
    BY <2>1, StagingOnce DEF OnceStep
  <2>2. CASE CountInvocation(t)
    BY <2>2, CountOnce DEF OnceStep
  <2>3. CASE \/ CallFence(t, "fence_in", "wait_in")
             \/ ReturnFromFence(t, "wait_in", "snap_in")
             \/ TakeSnapshot(t, "snap_in", "create")
             \/ CallFence(t, "fence_out", "wait_out")
             \/ ReturnFromFence(t, "wait_out", "snap_out")
             \/ TakeSnapshot(t, "snap_out", "append")
             \/ RecordDumpPath(t) \/ end_kernel(t)
    BY <2>3, QuietOnce DEF OnceStep
  <2>4. CASE create_kernel_dump(t)
    BY <2>4, CreateOnce DEF OnceStep
  <2>5. CASE CopyIn(t) \/ WritePolicy(t) \/ WriteFunctor(t)
    BY <2>5, InputOnce DEF OnceStep
  <2>6. CASE Dispatch(t)
    BY <2>6, DispatchOnce DEF OnceStep
  <2>7. CASE append_kernel_output(t) \/ CopyOut(t)
    BY <2>7, OutputOnce DEF OnceStep
  <2> QED
    BY <1>3, <2>1, <2>2, <2>3, <2>4, <2>5, <2>6, <2>7 DEF InLaunch
<1>4. ASSUME NEW t \in Thread, FailIn(t) \/ FailOut(t)
      PROVE  OnceStep /\ ChosenPlace'
  BY <1>4, FailInOnce, OutputOnce DEF OnceStep
<1> QED
  BY <1>1, <1>2, <1>3, <1>4 DEF Next

(* The hooks and the staging calls implement CaptureOnce: of the launches  *)
(* of the selected label exactly the chosen one is captured, its input     *)
(* before it runs and its output after (begin_kernel, end_kernel).         *)
THEOREM CaptureImplementsOnce == Spec => ImplementsCaptureOnce
<1>1. Init => Once!OnceInit
  <2> SUFFICES ASSUME Init PROVE Once!OnceInit
    OBVIOUS
  <2>1. counted = 0
    BY CaptureAssumption DEF Init, counted
  <2>2. ChosenKernel = "none" /\ CapturedPart = "nothing"
    BY AsOperators, PartOfNone DEF Init, KernelOf, NotSelected
  <2> QED
    BY <2>1, <2>2 DEF Once!OnceInit, counted
<1>2. OnceStep => [Once!OnceNext]_(Once!once)
  BY DEF OnceStep, Stutter, Count, Input, Run, Output, counted, Once!once,
         Once!OnceNext, Once!CountLaunch, Once!CaptureInput, Once!RunKernel,
         Once!CaptureOutput
<1> QED
  BY <1>1, <1>2, InitRInv, StepOnce, PTL
  DEF ImplementsCaptureOnce, Once!OnceSpec, Spec
=============================================================================
