------------------------- MODULE CaptureDataProofs -------------------------
(***************************************************************************)
(* What the dump holds, for any threads, labels, Views and number of       *)
(* launches: the functor and the policy of the chosen launch, its Views    *)
(* as they were when it was launched and as it left them.  These follow    *)
(* from who may write the globals of the tool between the staging of a     *)
(* functor and the last copy (StageInv), from the order in which the       *)
(* device runs the kernels (HeapInv), from what a fence has waited for     *)
(* (FenceInv) and from what is left to copy (CopyInv).                     *)
(***************************************************************************)
EXTENDS KernelCaptureProofs

USE DEF appVars, kokkosVars, countVars, stageVars, localVars, GoTo

-----------------------------------------------------------------------------
(* Staging.                                                                *)

(* A launch is one the thread makes, of a program the tool is loaded in.   *)
LaunchOf(t) == pc[t] # "app" => loaded /\ label[t] \in LabelsOf[t]

(* The way to the begin hook follows the mode of the label, and            *)
(* krepe::parallel_for stages only for the launch that will be dumped.     *)
PathOf(t) ==
  /\ pc[t] = "ask" => ModeOf[label[t]] = "krepe"
  /\ pc[t] = "replay" => ModeOf[label[t]] = "functor"
  /\ pc[t] \in Staging =>
       \/ ModeOf[label[t]] = "functor" /\ pc[t] # "policy"
       \/ ModeOf[label[t]] = "krepe" /\ next_invocation_will_dump(label[t])

PolicyOf(t) == IF ModeOf[DumpLabel] = "krepe" THEN This(t) ELSE NoLaunch

ViewsStaged(t) == HasCompilerPlugins => used_allocations = views[t]

(* The launch of t will be dumped, or its input part is being written.     *)
ToBeDumped(t) ==
  /\ label[t] = DumpLabel
  /\ \/ pc[t] \in {"begin", "count"} /\ next_invocation_will_dump(DumpLabel)
     \/ pc[t] \in Beginning

(* What the globals of the tool hold for the launch of t.                  *)
StagedFor(t) ==
  /\ pc[t] \in {"clear", "register", "functor"} /\ label[t] = DumpLabel =>
       policy = PolicyOf(t)
  /\ pc[t] = "register" => used_allocations \cup todo[t] = views[t]
  /\ pc[t] = "functor" => ViewsStaged(t)
  /\ ToBeDumped(t) => functor_data = This(t) /\ policy = PolicyOf(t)
  /\ ToBeDumped(t) \/ Writing(t) => ViewsStaged(t)
  /\ pc[t] = "write_functor" => dumps[id[t]].policy = PolicyOf(t)

StageAt(t) == LaunchOf(t) /\ PathOf(t) /\ StagedFor(t)

StageInv ==
  /\ binding # "none"
  /\ ModeOf[DumpLabel] = "functor" => policy = NoLaunch
  /\ \A t \in Thread : StageAt(t)
  /\ DumpHoldsItsKernel

-----------------------------------------------------------------------------
(* The heap and the device.                                                *)

Ran == {"end"} \cup Ending

(* The kernel that will write the View last.                               *)
LastOf(v, k) ==
  /\ v \in k.views
  /\ issued[v] = k.launch
  /\ \A j \in pending : v \in j.views => j.launch[2] <= k.launch[2]

HeapInv ==
  /\ \A t \in Thread : views[t] \subseteq ViewsOf[t]
  /\ \A k \in pending : /\ k.views \subseteq ViewsOf[k.launch[1]]
                        /\ k.launch[2] <= launch[k.launch[1]]
  /\ \A v \in Held : heap[v] = "live"
  /\ \A v \in View : \/ \E k \in pending : LastOf(v, k)
                     \/ /\ \A k \in pending : v \notin k.views
                        /\ mem[v] = issued[v]
  /\ \A t \in Thread : pc[t] \in Ran => \A v \in views[t] : issued[v] = This(t)

-----------------------------------------------------------------------------
(* The fences.                                                             *)

Copying == {"snap_in", "create", "copy_in", "snap_out", "append", "copy_out"}

FenceAt(t) ==
  \A k \in pending :
    k.launch[1] = t =>
      /\ pc[t] \in {"wait_in", "wait_out"} => k \in awaited[t]
      /\ pc[t] \notin Copying

FenceInv == \A t \in Thread : FenceAt(t)

-----------------------------------------------------------------------------
(* The copies.                                                             *)

InputHeld(t, v) ==
  /\ v \in DOMAIN dumps[id[t]].in
  /\ dumps[id[t]].in[v] = selected.before[v]

OutputHeld(t, v) ==
  /\ v \in DOMAIN dumps[id[t]].out
  /\ dumps[id[t]].out[v] = This(t)

CopyAt(t) ==
  /\ Writing(t) => DOMAIN selected.before = views[t]
  /\ pc[t] \in Beginning => \A v \in views[t] : selected.before[v] = issued[v]
  /\ pc[t] \in {"create", "append"} => views[t] \subseteq snap[t]
  /\ pc[t] = "copy_in" => \A v \in views[t] : v \in todo[t] \/ InputHeld(t, v)
  /\ pc[t] \in {"write_policy", "write_functor"} =>
       \A v \in views[t] : InputHeld(t, v)
  /\ pc[t] = "copy_out" => \A v \in views[t] : v \in todo[t] \/ OutputHeld(t, v)

CopyInv ==
  /\ \A t \in Thread : CopyAt(t)
  /\ DumpHoldsInputs
  /\ DumpHoldsOutputs

(* With the compiler plugins nothing else is copied.                       *)
NarrowAt(t) ==
  /\ pc[t] \in {"create", "append"} => snap[t] \subseteq views[t]
  /\ pc[t] \in {"copy_in", "copy_out"} => todo[t] \subseteq views[t]

NarrowInv == \A t \in Thread : NarrowAt(t)

(* A thread that is alone frees nothing while it copies.                   *)
LiveAt(t) ==
  /\ pc[t] \in {"create", "append"} => snap[t] \subseteq Reported
  /\ pc[t] \in {"copy_in", "copy_out"} => todo[t] \subseteq Reported

AloneInv == \A t \in Thread : LiveAt(t)

DataInv ==
  /\ StagedByOneThread => StageInv
  /\ HeapInv
  /\ ToolHasFence => FenceInv
  /\ CopiesKernelViews => CopyInv
  /\ HasCompilerPlugins /\ StagedByOneThread => NarrowInv
  /\ AloneThread => AloneInv

-----------------------------------------------------------------------------
(* The steps of a launch in the extractor, and those that write the dump.  *)

ExtractorStep(t) ==
  \/ parallel_for(t) \/ register_bounds(t)
  \/ replay_functor(t) \/ clear_registered_views(t)
  \/ register_view(t) \/ copy_functor(t)

DumpStep(t) ==
  \/ CallFence(t, "fence_in", "wait_in")
  \/ ReturnFromFence(t, "wait_in", "snap_in")
  \/ TakeSnapshot(t, "snap_in", "create")
  \/ create_kernel_dump(t) \/ CopyIn(t)
  \/ WritePolicy(t) \/ WriteFunctor(t)
  \/ CallFence(t, "fence_out", "wait_out")
  \/ ReturnFromFence(t, "wait_out", "snap_out")
  \/ TakeSnapshot(t, "snap_out", "append")
  \/ append_kernel_output(t) \/ CopyOut(t)
  \/ FailIn(t) \/ FailOut(t)

(* What a step of one thread leaves alone.                                 *)

Keeps(t) ==
  \A s \in Thread \ {t} :
    /\ <<pc'[s], launch'[s], label'[s], views'[s]>>
         = <<pc[s], launch[s], label[s], views[s]>>
    /\ <<id'[s], snap'[s], todo'[s], awaited'[s]>>
         = <<id[s], snap[s], todo[s], awaited[s]>>
    /\ pc[s] \in Open => kernel_states'[id[s]] = kernel_states[id[s]]

LEMMA LaunchKeeps ==
  ASSUME TypeOK, NEW t \in Thread, StartLaunch(t) PROVE Keeps(t)
  BY DEF TypeOK, AppTypeOK, StartLaunch, Keeps

LEMMA ExtractorKeeps ==
  ASSUME TypeOK, NEW t \in Thread, ExtractorStep(t)
  PROVE  Keeps(t)
<1> USE DEF TypeOK, AppTypeOK, LocalTypeOK, Keeps
<1>1. CASE parallel_for(t)
  BY <1>1 DEF parallel_for
<1>2. CASE register_bounds(t)
  BY <1>2 DEF register_bounds
<1>3. CASE replay_functor(t)
  BY <1>3 DEF replay_functor
<1>4. CASE clear_registered_views(t)
  BY <1>4 DEF clear_registered_views
<1>5. CASE register_view(t)
  BY <1>5 DEF register_view
<1>6. CASE copy_functor(t)
  BY <1>6 DEF copy_functor
<1> QED  BY <1>1, <1>2, <1>3, <1>4, <1>5, <1>6 DEF ExtractorStep

(* No entry of kernel_states is another thread's.                          *)
LEMMA OwnEntry ==
  ASSUME HookInv, NEW t \in Thread, pc[t] \in Hooked,
         NEW s \in Thread, s # t, pc[s] \in Open
  PROVE  id[s] # id[t] /\ id[s] \in DOMAIN kernel_states
  BY DEF HookInv, IdsDistinct, KernelStatesMatch, Hooked

LEMMA HookKeeps ==
  ASSUME TypeOK, HookInv, NEW t \in Thread,
         \/ FetchKernelId(t) \/ CountInvocation(t)
         \/ RecordDumpPath(t) \/ Dispatch(t) \/ end_kernel(t)
  PROVE  Keeps(t)
<1> USE DEF TypeOK, AppTypeOK, LocalTypeOK, Keeps
<1>1. CASE FetchKernelId(t)
  <2>1. \A s \in Thread \ {t} : id'[s] = id[s] /\ pc'[s] = pc[s]
    BY <1>1 DEF FetchKernelId
  <2> QED  BY <1>1, <2>1 DEF FetchKernelId
<1>2. CASE CountInvocation(t)
  <2>1. pc[t] \in Hooked
    BY <1>2 DEF CountInvocation, Hooked
  <2>2. \A s \in Thread \ {t} :
          pc[s] \in Open => id[s] # id[t] /\ id[s] \in DOMAIN kernel_states
    BY <2>1, OwnEntry
  <2> QED  BY <1>2, <2>2 DEF CountInvocation, Put
<1>3. CASE RecordDumpPath(t)
  <2>1. pc[t] \in Hooked
    BY <1>3 DEF RecordDumpPath, Hooked, Open, Beginning
  <2>2. \A s \in Thread \ {t} :
          pc[s] \in Open => id[s] # id[t] /\ id[s] \in DOMAIN kernel_states
    BY <2>1, OwnEntry
  <2> QED  BY <1>3, <2>2 DEF RecordDumpPath
<1>4. CASE Dispatch(t)
  BY <1>4 DEF Dispatch
<1>5. CASE end_kernel(t)
  <2>1. pc[t] \in Hooked
    BY <1>5 DEF end_kernel, Hooked, Open
  <2>2. \A s \in Thread \ {t} :
          pc[s] \in Open => id[s] # id[t] /\ id[s] \in DOMAIN kernel_states
    BY <2>1, OwnEntry
  <2> QED  BY <1>5, <2>2 DEF end_kernel, Drop
<1> QED  BY <1>1, <1>2, <1>3, <1>4, <1>5

LEMMA DumpKeeps ==
  ASSUME TypeOK, NEW t \in Thread, DumpStep(t)
  PROVE  Keeps(t)
<1> USE DEF TypeOK, AppTypeOK, LocalTypeOK, Keeps
<1>1. CASE \/ CallFence(t, "fence_in", "wait_in")
           \/ CallFence(t, "fence_out", "wait_out")
  BY <1>1 DEF CallFence
<1>2. CASE \/ ReturnFromFence(t, "wait_in", "snap_in")
           \/ ReturnFromFence(t, "wait_out", "snap_out")
  BY <1>2 DEF ReturnFromFence
<1>3. CASE \/ TakeSnapshot(t, "snap_in", "create")
           \/ TakeSnapshot(t, "snap_out", "append")
  BY <1>3 DEF TakeSnapshot
<1>4. CASE create_kernel_dump(t)
  BY <1>4 DEF create_kernel_dump
<1>5. CASE CopyIn(t)
  BY <1>5 DEF CopyIn
<1>6. CASE WritePolicy(t)
  BY <1>6 DEF WritePolicy
<1>7. CASE WriteFunctor(t)
  BY <1>7 DEF WriteFunctor
<1>8. CASE append_kernel_output(t)
  BY <1>8 DEF append_kernel_output
<1>9. CASE CopyOut(t)
  BY <1>9 DEF CopyOut
<1>10. CASE FailIn(t)
  BY <1>10 DEF FailIn
<1>11. CASE FailOut(t)
  BY <1>11 DEF FailOut
<1> QED
  BY <1>1, <1>2, <1>3, <1>4, <1>5, <1>6, <1>7, <1>8, <1>9, <1>10, <1>11
     DEF DumpStep

-----------------------------------------------------------------------------
(* Staging.                                                                *)

(* Only one thread can change what the globals hold for the dump.          *)
Concerned(t) ==
  pc[t] # "app" /\ (label[t] = DumpLabel \/ ModeOf[label[t]] = "functor")

LEMMA OneConcerned ==
  ASSUME StagedByOneThread, NEW s \in Thread, NEW t \in Thread,
         LaunchOf(s), LaunchOf(t), Concerned(s), Concerned(t)
  PROVE  s = t
<1>1. PICK one \in Thread : \A r \in Thread \ {one} : \A l \in LabelsOf[r] :
        l # DumpLabel /\ ModeOf[l] # "functor"
  BY DEF StagedByOneThread
<1>2. s = one /\ t = one
  BY <1>1 DEF LaunchOf, Concerned
<1> QED  BY <1>2

LEMMA WritingIsConcerned ==
  ASSUME HookInv, NEW t \in Thread, Writing(t)
  PROVE  Concerned(t) /\ label[t] = DumpLabel /\ selected.launch = This(t)
<1>1. label[t] = DumpLabel /\ selected.launch = This(t)
  BY DEF HookInv, ChosenWritesDump, ChosenAt
<1>2. pc[t] # "app"
  BY DEF Writing, Beginning, Ending
<1> QED  BY <1>1, <1>2 DEF Concerned

LEMMA StagingIsConcerned ==
  ASSUME NEW t, pc[t] \in Staging, PathOf(t)
  PROVE  Concerned(t)
<1>1. pc[t] # "app"
  BY DEF Staging
<1> QED
  BY <1>1 DEF PathOf, Concerned, next_invocation_will_dump,
              should_dump_views_for_invocation

LEMMA StageOfOthers ==
  ASSUME StagedByOneThread, HookInv, StageInv,
         NEW t \in Thread, NEW s \in Thread, s # t, Keeps(t), UNCHANGED loaded,
         \/ Concerned(t)
         \/ UNCHANGED <<stageVars, dumps>>
            /\ kernel_invocations'[DumpLabel] = kernel_invocations[DumpLabel]
  PROVE  StageAt(s)'
<1>1. /\ pc'[s] = pc[s] /\ launch'[s] = launch[s] /\ label'[s] = label[s]
      /\ views'[s] = views[s] /\ id'[s] = id[s] /\ todo'[s] = todo[s]
      /\ pc[s] \in Open => kernel_states'[id[s]] = kernel_states[id[s]]
  BY DEF Keeps
<1>2. StageAt(s)
  BY DEF StageInv
<1>3. LaunchOf(s)'
  BY <1>1, <1>2 DEF StageAt, LaunchOf
<1>4. Writing(s)' <=> Writing(s)
  BY <1>1 DEF Writing, Open
<1>5. CASE Concerned(s)
  <2>1. /\ UNCHANGED <<stageVars, dumps>>
        /\ kernel_invocations'[DumpLabel] = kernel_invocations[DumpLabel]
    <3>1. LaunchOf(t) /\ LaunchOf(s)
      BY DEF StageInv, StageAt
    <3> QED  BY <1>5, <3>1, OneConcerned
  <2>2. PathOf(s)'
    BY <1>1, <1>2, <2>1
       DEF StageAt, PathOf, next_invocation_will_dump,
           should_dump_views_for_invocation
  <2>3. ToBeDumped(s)' <=> ToBeDumped(s)
    BY <1>1, <2>1
       DEF ToBeDumped, next_invocation_will_dump,
           should_dump_views_for_invocation
  <2>4. This(s)' = This(s) /\ PolicyOf(s)' = PolicyOf(s)
    BY <1>1 DEF This, PolicyOf
  <2>5. ViewsStaged(s)' <=> ViewsStaged(s)
    BY <1>1, <2>1 DEF ViewsStaged
  <2>6. StagedFor(s)'
    BY <1>1, <1>2, <1>4, <2>1, <2>3, <2>4, <2>5 DEF StageAt, StagedFor
  <2> QED  BY <1>3, <2>2, <2>6 DEF StageAt
<1>6. CASE ~Concerned(s)
  <2>1. pc[s] \notin Staging /\ ~Writing(s)
    BY <1>2, <1>6, StagingIsConcerned, WritingIsConcerned DEF StageAt
  <2>2. PathOf(s)'
    BY <1>1, <1>2, <2>1 DEF StageAt, PathOf
  <2>3. ~ToBeDumped(s)'
    <3>1. pc[s] = "app" => pc[s] \notin {"begin", "count"} \cup Beginning
      BY DEF Beginning
    <3> QED  BY <1>1, <1>6, <3>1 DEF ToBeDumped, Concerned
  <2>4. pc[s] # "write_functor"
    BY <2>1 DEF Writing, Beginning
  <2>5. StagedFor(s)'
    BY <1>1, <1>4, <2>1, <2>3, <2>4 DEF StagedFor, Staging
  <2> QED  BY <1>3, <2>2, <2>5 DEF StageAt
<1> QED  BY <1>5, <1>6

(* What is in the file when the steps that write it are taken.             *)
LEMMA FileAt ==
  ASSUME TypeOK, HookInv, NEW t \in Thread,
         pc[t] \in Beginning \cup Ending
  PROVE  /\ Writing(t)
         /\ IF pc[t] \in {"fence_in", "wait_in", "snap_in", "create"}
            THEN DOMAIN dumps = {}
            ELSE /\ DOMAIN dumps = {id[t]} /\ id[t] \in DOMAIN dumps
                 /\ dumps[id[t]] \in Dump
                 /\ dumps[id[t]].state = FileStateAt(pc[t])
<1>1. Writing(t)
  BY DEF Writing
<1> QED
  BY <1>1 DEF HookInv, ChosenWritesDump, ChosenAt, TypeOK, DumpTypeOK

(* The input part and the output part of a dump stay as they were          *)
(* completed.                                                              *)
InputKept ==
  \A i \in DOMAIN dumps' :
    HasInput(dumps'[i]) =>
      /\ i \in DOMAIN dumps /\ HasInput(dumps[i])
      /\ dumps'[i].functor = dumps[i].functor
      /\ dumps'[i].policy = dumps[i].policy
      /\ dumps'[i].in = dumps[i].in

OutputKept ==
  \A i \in DOMAIN dumps' :
    dumps'[i].state = "complete" =>
      /\ i \in DOMAIN dumps /\ dumps[i].state = "complete"
      /\ dumps'[i].out = dumps[i].out

LEMMA DumpMoves ==
  ASSUME TypeOK, HookInv, NEW t \in Thread, DumpStep(t)
  PROVE  /\ pc[t] \in Beginning \cup Ending
         /\ UNCHANGED <<appVars, kokkosVars, binding, countVars, stageVars, id,
                        selected>>
         /\ pc[t] \in Beginning => pc'[t] \in Beginning \cup {"dispatch"}
         /\ pc[t] \in Ending => pc'[t] \in Ending \cup {"app"}
         /\ pc'[t] = "write_functor" => WritePolicy(t)
         /\ pc'[t] = "record" => WriteFunctor(t)
<1> USE DEF TypeOK, AppTypeOK, Beginning, Ending
<1>1. CASE \/ CallFence(t, "fence_in", "wait_in")
           \/ CallFence(t, "fence_out", "wait_out")
  BY <1>1 DEF CallFence
<1>2. CASE \/ ReturnFromFence(t, "wait_in", "snap_in")
           \/ ReturnFromFence(t, "wait_out", "snap_out")
  BY <1>2 DEF ReturnFromFence
<1>3. CASE \/ TakeSnapshot(t, "snap_in", "create")
           \/ TakeSnapshot(t, "snap_out", "append")
  BY <1>3 DEF TakeSnapshot
<1>4. CASE create_kernel_dump(t)
  BY <1>4 DEF create_kernel_dump
<1>5. CASE CopyIn(t)
  BY <1>5 DEF CopyIn
<1>6. CASE WritePolicy(t)
  BY <1>6 DEF WritePolicy
<1>7. CASE WriteFunctor(t)
  BY <1>7 DEF WriteFunctor
<1>8. CASE append_kernel_output(t)
  BY <1>8 DEF append_kernel_output
<1>9. CASE CopyOut(t)
  BY <1>9 DEF CopyOut
<1>10. CASE FailIn(t)
  BY <1>10 DEF FailIn
<1>11. CASE FailOut(t)
  BY <1>11 DEF FailOut
<1> QED
  BY <1>1, <1>2, <1>3, <1>4, <1>5, <1>6, <1>7, <1>8, <1>9, <1>10, <1>11
     DEF DumpStep

LEMMA SameDumpsKept ==
  ASSUME UNCHANGED dumps PROVE InputKept /\ OutputKept
  BY DEF InputKept, OutputKept

LEMMA InputStays ==
  ASSUME TypeOK, HookInv, NEW t \in Thread, DumpStep(t), ~WriteFunctor(t)
  PROVE  InputKept
<1> USE DEF InputKept, HasInput
<1>1. CASE \/ CallFence(t, "fence_in", "wait_in")
           \/ CallFence(t, "fence_out", "wait_out")
           \/ ReturnFromFence(t, "wait_in", "snap_in")
           \/ ReturnFromFence(t, "wait_out", "snap_out")
           \/ TakeSnapshot(t, "snap_in", "create")
           \/ TakeSnapshot(t, "snap_out", "append")
  BY <1>1 DEF CallFence, ReturnFromFence, TakeSnapshot
<1>2. CASE create_kernel_dump(t)
  <2>1. DOMAIN dumps = {}
    BY <1>2, FileAt DEF create_kernel_dump, Beginning
  <2> QED  BY <1>2, <2>1 DEF create_kernel_dump, Put
<1>3. ASSUME pc[t] \in Beginning \cup Ending,
             pc[t] \notin {"fence_in", "wait_in", "snap_in", "create"}
      PROVE  /\ DOMAIN dumps = {id[t]} /\ dumps[id[t]] \in Dump
             /\ dumps[id[t]].state = FileStateAt(pc[t])
  BY <1>3, FileAt
<1>4. CASE CopyIn(t)
  BY <1>3, <1>4 DEF CopyIn, Dump, Beginning, FileStateAt
<1>5. CASE WritePolicy(t)
  BY <1>3, <1>5 DEF WritePolicy, Dump, Beginning, FileStateAt
<1>6. CASE append_kernel_output(t)
  BY <1>3, <1>6 DEF append_kernel_output, Dump, Ending, FileStateAt
<1>7. CASE CopyOut(t)
  <2>1. /\ DOMAIN dumps = {id[t]} /\ dumps[id[t]] \in Dump
        /\ dumps[id[t]].state = "writing_out"
    BY <1>3, <1>7 DEF CopyOut, Ending, FileStateAt
  <2>2. \/ \E new : dumps' = [dumps EXCEPT ![id[t]].out = new]
        \/ dumps' = [dumps EXCEPT ![id[t]].state = "complete"]
    BY <1>7 DEF CopyOut
  <2>3. CASE \E new : dumps' = [dumps EXCEPT ![id[t]].out = new]
    BY <2>1, <2>3 DEF Dump
  <2>4. CASE dumps' = [dumps EXCEPT ![id[t]].state = "complete"]
    BY <2>1, <2>4 DEF Dump
  <2> QED  BY <2>2, <2>3, <2>4
<1>8. CASE FailIn(t)
  BY <1>3, <1>8 DEF FailIn, Dump, Beginning, FileStateAt
<1>9. CASE FailOut(t)
  BY <1>3, <1>9 DEF FailOut, Dump, Ending, FileStateAt
<1> QED
  BY <1>1, <1>2, <1>4, <1>5, <1>6, <1>7, <1>8, <1>9 DEF DumpStep

LEMMA OutputStays ==
  ASSUME TypeOK, HookInv, NEW t \in Thread, DumpStep(t), ~CopyOut(t)
  PROVE  OutputKept
<1> USE DEF OutputKept
<1>1. CASE \/ CallFence(t, "fence_in", "wait_in")
           \/ CallFence(t, "fence_out", "wait_out")
           \/ ReturnFromFence(t, "wait_in", "snap_in")
           \/ ReturnFromFence(t, "wait_out", "snap_out")
           \/ TakeSnapshot(t, "snap_in", "create")
           \/ TakeSnapshot(t, "snap_out", "append")
  BY <1>1 DEF CallFence, ReturnFromFence, TakeSnapshot
<1>2. CASE create_kernel_dump(t)
  <2>1. DOMAIN dumps = {}
    BY <1>2, FileAt DEF create_kernel_dump, Beginning
  <2> QED  BY <1>2, <2>1 DEF create_kernel_dump, Put
<1>3. ASSUME pc[t] \in Beginning \cup Ending,
             pc[t] \notin {"fence_in", "wait_in", "snap_in", "create"}
      PROVE  /\ DOMAIN dumps = {id[t]} /\ dumps[id[t]] \in Dump
             /\ dumps[id[t]].state = FileStateAt(pc[t])
  BY <1>3, FileAt
<1>4. CASE CopyIn(t)
  BY <1>3, <1>4 DEF CopyIn, Dump, Beginning, FileStateAt
<1>5. CASE WritePolicy(t) \/ WriteFunctor(t)
  BY <1>3, <1>5 DEF WritePolicy, WriteFunctor, Dump, Beginning, FileStateAt
<1>6. CASE append_kernel_output(t)
  BY <1>3, <1>6 DEF append_kernel_output, Dump, Ending, FileStateAt
<1>8. CASE FailIn(t)
  BY <1>3, <1>8 DEF FailIn, Dump, Beginning, FileStateAt
<1>9. CASE FailOut(t)
  BY <1>3, <1>9 DEF FailOut, Dump, Ending, FileStateAt
<1> QED
  BY <1>1, <1>2, <1>4, <1>5, <1>6, <1>8, <1>9 DEF DumpStep

-----------------------------------------------------------------------------
(* The functor and the policy.                                             *)

LEMMA KernelKept ==
  ASSUME DumpHoldsItsKernel, InputKept, UNCHANGED selected
  PROVE  DumpHoldsItsKernel'
  BY DEF DumpHoldsItsKernel, InputKept

(* What StageInv says of the other threads and of the dump is kept: what   *)
(* remains is the thread that takes the step.                              *)
LEMMA StageStep ==
  ASSUME StagedByOneThread, HookInv, StageInv, NEW t \in Thread, Keeps(t),
         UNCHANGED loaded,
         \/ Concerned(t)
         \/ UNCHANGED <<stageVars, dumps>>
            /\ kernel_invocations'[DumpLabel] = kernel_invocations[DumpLabel],
         binding' # "none",
         ModeOf[DumpLabel] = "functor" => policy' = NoLaunch,
         StageAt(t)', DumpHoldsItsKernel'
  PROVE  StageInv'
<1>1. ASSUME NEW s \in Thread PROVE StageAt(s)'
  BY <1>1, StageOfOthers
<1> QED  BY <1>1 DEF StageInv

LEMMA LaunchStage ==
  ASSUME TypeOK, HookInv, StagedByOneThread, StageInv,
         NEW t \in Thread, StartLaunch(t)
  PROVE  StageInv'
<1>1. PICK l \in LabelsOf[t] :
        /\ label' = [label EXCEPT ![t] = l]
        /\ pc' = [pc EXCEPT ![t] = CASE ModeOf[l] = "krepe"   -> "ask"
                                     [] ModeOf[l] = "functor" -> "replay"
                                     [] ModeOf[l] = "plain"   -> "begin"]
  BY DEF StartLaunch
<1>2. ModeOf[l] \in {"krepe", "functor", "plain"}
  BY CaptureAssumption
<1>3. label'[t] = l /\ loaded
  BY <1>1 DEF StartLaunch, TypeOK, AppTypeOK
<1>4. \/ ModeOf[l] = "krepe" /\ pc'[t] = "ask"
      \/ ModeOf[l] = "functor" /\ pc'[t] = "replay"
      \/ ModeOf[l] = "plain" /\ pc'[t] = "begin"
  BY <1>1, <1>2 DEF TypeOK, AppTypeOK
<1>5. StageAt(t)'
  <2>1. LaunchOf(t)' /\ PathOf(t)'
    BY <1>3, <1>4 DEF LaunchOf, PathOf, Staging, StartLaunch
  <2>2. ~ToBeDumped(t)'
    BY <1>3, <1>4 DEF ToBeDumped, Beginning, StagedByOneThread
  <2>3. ~Writing(t)'
    BY <1>4 DEF Writing, Beginning, Ending
  <2> QED  BY <1>4, <2>1, <2>2, <2>3 DEF StageAt, StagedFor
<1>6. DumpHoldsItsKernel'
  BY SameDumpsKept, KernelKept DEF StartLaunch, StageInv
<1> QED
  BY <1>5, <1>6, LaunchKeeps, StageStep DEF StageInv, StartLaunch

(* The extractor finds the tool.                                           *)
LEMMA ToolFound ==
  ASSUME TypeOK, StageInv, NEW t \in Thread, pc[t] # "app",
         init_internal_functions
  PROVE  binding' = "tool"
<1>1. loaded /\ binding \in {"unset", "tool"}
  BY DEF StageInv, StageAt, LaunchOf, TypeOK, KokkosTypeOK
<1> QED  BY <1>1 DEF init_internal_functions

LEMMA ExtractorStage ==
  ASSUME TypeOK, HookInv, StagedByOneThread, StageInv,
         NEW t \in Thread, ExtractorStep(t)
  PROVE  StageInv'
<1>1. /\ UNCHANGED <<launch, label, views, loaded, kernel_invocations, dumps,
                     selected>>
      /\ pc[t] # "app"
  BY DEF ExtractorStep, parallel_for, register_bounds, replay_functor,
         clear_registered_views, register_view, copy_functor
<1>2. LaunchOf(t) /\ PathOf(t) /\ StagedFor(t)
  BY DEF StageInv, StageAt
<1>3. LaunchOf(t)'
  BY <1>1, <1>2 DEF LaunchOf
<1>4. DumpHoldsItsKernel'
  BY <1>1, SameDumpsKept, KernelKept DEF StageInv
<1>5. \A l \in Label : next_invocation_will_dump(l)' <=> next_invocation_will_dump(l)
  BY <1>1 DEF next_invocation_will_dump, should_dump_views_for_invocation
<1>6. label[t] \in Label /\ pc \in [Thread -> Pc]
  BY DEF TypeOK, AppTypeOK
<1>7. This(t)' = This(t) /\ PolicyOf(t)' = PolicyOf(t)
  BY <1>1 DEF This, PolicyOf
<1>8. next_invocation_will_dump(label[t]) => label[t] = DumpLabel
  BY DEF next_invocation_will_dump, should_dump_views_for_invocation
<1>9. ASSUME pc'[t] \in {"policy", "clear", "register", "functor", "begin"}
      PROVE  /\ ~Writing(t)'
             /\ ToBeDumped(t)' <=> /\ pc'[t] = "begin" /\ label[t] = DumpLabel
                                   /\ next_invocation_will_dump(DumpLabel)
             /\ pc'[t] \in {"policy", "clear", "register", "functor"} <=>
                  pc'[t] \in Staging
  BY <1>1, <1>5, <1>6, <1>9, CaptureAssumption
     DEF Writing, ToBeDumped, Beginning, Ending, Staging
<1>10. CASE parallel_for(t)
  <2>1. binding' = "tool"
    BY <1>1, <1>10, ToolFound DEF parallel_for
  <2>2. /\ UNCHANGED stageVars /\ pc[t] = "ask"
        /\ pc'[t] = IF next_invocation_will_dump(label[t]) THEN "policy"
                    ELSE "begin"
    BY <1>6, <1>10, <2>1 DEF parallel_for
  <2>3. PathOf(t)'
    BY <1>1, <1>2, <1>5, <1>6, <2>2 DEF PathOf, Staging
  <2>4. StagedFor(t)'
    BY <1>9, <2>2 DEF StagedFor
  <2>5. ModeOf[DumpLabel] = "functor" => policy' = NoLaunch
    BY <2>2 DEF StageInv
  <2> QED
    BY <1>1, <1>3, <1>4, <1>10, <2>1, <2>2, <2>3, <2>4, <2>5, ExtractorKeeps,
       StageStep DEF ExtractorStep, StageAt
<1>11. CASE replay_functor(t)
  <2>1. binding' = "tool"
    BY <1>1, <1>11, ToolFound DEF replay_functor
  <2>2. /\ UNCHANGED stageVars /\ pc[t] = "replay"
        /\ pc'[t] = IF HasCompilerPlugins THEN "clear" ELSE "functor"
    BY <1>6, <1>11, <2>1 DEF replay_functor
  <2>3. PathOf(t)'
    BY <1>1, <1>2, <2>2 DEF PathOf
  <2>4. ModeOf[DumpLabel] = "functor" => policy' = NoLaunch
    BY <2>2 DEF StageInv
  <2>5. StagedFor(t)'
    <3>1. label[t] = DumpLabel => policy = PolicyOf(t)
      BY <1>2, <2>2 DEF PathOf, PolicyOf, StageInv
    <3> QED
      BY <1>1, <1>7, <1>9, <2>2, <3>1 DEF StagedFor, ViewsStaged
  <2> QED
    BY <1>1, <1>3, <1>4, <1>11, <2>1, <2>2, <2>3, <2>4, <2>5, ExtractorKeeps,
       StageStep DEF ExtractorStep, StageAt
<1>12. ASSUME pc[t] \in Staging,
              pc'[t] \in (Staging \ {"policy"}) \cup {"begin"}
       PROVE  Concerned(t) /\ PathOf(t)'
  <2>1. Concerned(t)
    BY <1>2, <1>12, StagingIsConcerned
  <2>2. PathOf(t)'
    BY <1>1, <1>2, <1>5, <1>6, <1>12 DEF PathOf, Staging
  <2> QED  BY <2>1, <2>2
<1>13. CASE register_bounds(t)
  <2>1. /\ pc[t] = "policy" /\ policy' = This(t)
        /\ pc'[t] = IF HasCompilerPlugins THEN "clear" ELSE "functor"
        /\ UNCHANGED <<binding, used_allocations, functor_data>>
    BY <1>6, <1>13 DEF register_bounds
  <2>2. Concerned(t) /\ PathOf(t)'
    BY <1>12, <2>1 DEF Staging
  <2>3. label[t] = DumpLabel /\ ModeOf[DumpLabel] = "krepe"
    BY <1>2, <1>8, <2>1 DEF PathOf, Staging
  <2>4. StagedFor(t)'
    BY <1>1, <1>7, <1>9, <2>1, <2>3
       DEF StagedFor, ViewsStaged, PolicyOf
  <2> QED
    BY <1>1, <1>3, <1>4, <1>13, <2>1, <2>2, <2>3, <2>4, ExtractorKeeps,
       StageStep DEF ExtractorStep, StageAt, StageInv
<1>14. CASE clear_registered_views(t)
  <2>1. /\ pc[t] = "clear" /\ pc'[t] = "register"
        /\ used_allocations' = {} /\ todo'[t] = views[t]
        /\ UNCHANGED <<binding, policy, functor_data>>
    BY <1>6, <1>14 DEF clear_registered_views, TypeOK, LocalTypeOK
  <2>2. Concerned(t) /\ PathOf(t)'
    BY <1>12, <2>1 DEF Staging
  <2>3. StagedFor(t)'
    BY <1>1, <1>2, <1>7, <1>9, <2>1 DEF StagedFor
  <2> QED
    BY <1>1, <1>3, <1>4, <1>14, <2>1, <2>2, <2>3, ExtractorKeeps,
       StageStep DEF ExtractorStep, StageAt, StageInv
<1>15. CASE register_view(t)
  <2>1. /\ pc[t] = "register"
        /\ \/ \E v \in todo[t] :
                /\ used_allocations' = used_allocations \cup {v}
                /\ todo'[t] = todo[t] \ {v}
                /\ pc'[t] = "register"
           \/ /\ todo[t] = {} /\ pc'[t] = "functor"
              /\ UNCHANGED used_allocations
        /\ UNCHANGED <<binding, policy, functor_data>>
    BY <1>6, <1>15 DEF register_view, TypeOK, LocalTypeOK
  <2>2. Concerned(t) /\ PathOf(t)'
    BY <1>12, <2>1 DEF Staging
  <2>3. StagedFor(t)'
    <3>1. used_allocations \cup todo[t] = views[t]
      BY <1>2, <2>1 DEF StagedFor
    <3>2. pc'[t] = "register" => used_allocations' \cup todo'[t] = views[t]
      BY <2>1, <3>1
    <3>3. pc'[t] = "functor" => used_allocations' = views[t]
      BY <2>1, <3>1
    <3>4. label[t] = DumpLabel => policy = PolicyOf(t)
      BY <1>2, <2>1 DEF StagedFor
    <3> QED
      BY <1>1, <1>7, <1>9, <2>1, <3>2, <3>3, <3>4 DEF StagedFor, ViewsStaged
  <2> QED
    BY <1>1, <1>3, <1>4, <1>15, <2>1, <2>2, <2>3, ExtractorKeeps,
       StageStep DEF ExtractorStep, StageAt, StageInv
<1>16. CASE copy_functor(t)
  <2>1. /\ pc[t] = "functor" /\ pc'[t] = "begin"
        /\ functor_data' = This(t)
        /\ UNCHANGED <<binding, policy, used_allocations>>
    BY <1>6, <1>16 DEF copy_functor
  <2>2. Concerned(t) /\ PathOf(t)'
    BY <1>12, <2>1 DEF Staging
  <2>3. StagedFor(t)'
    BY <1>1, <1>2, <1>7, <1>9, <2>1 DEF StagedFor, ViewsStaged
  <2> QED
    BY <1>1, <1>3, <1>4, <1>16, <2>1, <2>2, <2>3, ExtractorKeeps,
       StageStep DEF ExtractorStep, StageAt, StageInv
<1> QED
  BY <1>10, <1>11, <1>13, <1>14, <1>15, <1>16 DEF ExtractorStep

(* A step of the hooks that leaves the globals alone.                      *)
LEMMA StageLater ==
  ASSUME TypeOK, HookInv, StagedByOneThread, StageInv, NEW t \in Thread,
         Keeps(t), pc[t] # "app",
         UNCHANGED <<launch, label, views, loaded, binding, stageVars>>,
         \/ Concerned(t)
         \/ dumps' = dumps
            /\ kernel_invocations'[DumpLabel] = kernel_invocations[DumpLabel],
         pc'[t] \notin Staging \cup {"ask", "replay", "write_functor"},
         ToBeDumped(t)' => ToBeDumped(t),
         Writing(t)' => Writing(t) \/ ToBeDumped(t),
         DumpHoldsItsKernel'
  PROVE  StageInv'
<1>1. LaunchOf(t) /\ StagedFor(t)
  BY DEF StageInv, StageAt
<1>2. LaunchOf(t)' /\ PathOf(t)'
  BY <1>1 DEF LaunchOf, PathOf
<1>3. StagedFor(t)'
  <2>1. This(t)' = This(t) /\ PolicyOf(t)' = PolicyOf(t)
    BY DEF This, PolicyOf
  <2>2. ViewsStaged(t)' <=> ViewsStaged(t)
    BY DEF ViewsStaged
  <2> QED  BY <1>1, <2>1, <2>2 DEF StagedFor, Staging
<1>4. binding' # "none" /\ (ModeOf[DumpLabel] = "functor" => policy' = NoLaunch)
  BY DEF StageInv
<1> QED  BY <1>2, <1>3, <1>4, StageStep DEF StageAt

LEMMA FetchStage ==
  ASSUME TypeOK, HookInv, StagedByOneThread, StageInv,
         NEW t \in Thread, FetchKernelId(t)
  PROVE  StageInv'
<1>1. /\ pc[t] = "begin" /\ pc'[t] = "count"
      /\ UNCHANGED <<launch, label, views, loaded, binding, stageVars, dumps,
                     kernel_invocations, selected>>
  BY DEF FetchKernelId, TypeOK, AppTypeOK
<1>2. ToBeDumped(t)' => ToBeDumped(t)
  BY <1>1 DEF ToBeDumped, Beginning, next_invocation_will_dump,
              should_dump_views_for_invocation
<1>3. ~Writing(t)' /\ pc'[t] \notin Staging \cup {"ask", "replay", "write_functor"}
  BY <1>1 DEF Writing, Beginning, Ending, Staging
<1>4. DumpHoldsItsKernel'
  BY <1>1, SameDumpsKept, KernelKept DEF StageInv
<1> QED
  BY <1>1, <1>2, <1>3, <1>4, HookKeeps, StageLater

(* The invocation that is dumped is counted once, before there is a dump.  *)
LEMMA ChosenNow ==
  ASSUME TypeOK, HookInv, NEW t \in Thread, CountInvocation(t)
  PROVE  IF /\ label[t] = DumpLabel
            /\ next_invocation_will_dump(DumpLabel)
         THEN /\ pc'[t] = "fence_in"
              /\ DOMAIN dumps = {}
              /\ selected' = [launch |-> This(t),
                              before |-> [v \in views[t] |-> issued[v]]]
              /\ \A s \in Thread : ~Writing(s)
         ELSE /\ pc'[t] = "dispatch"
              /\ UNCHANGED selected
              /\ ~Writing(t)'
<1> DEFINE n == kernel_invocations[label[t]] + 1
           old == kernel_invocations[DumpLabel]
<1>1. /\ label[t] \in Label /\ pc \in [Thread -> Pc]
      /\ old \in Nat /\ DumpInvocation \in Nat
  BY CaptureAssumption DEF TypeOK, AppTypeOK, CountTypeOK
<1>2. should_dump_views_for_invocation(label[t], n)
        <=> label[t] = DumpLabel /\ next_invocation_will_dump(DumpLabel)
  BY DEF should_dump_views_for_invocation, next_invocation_will_dump
<1>3. CASE should_dump_views_for_invocation(label[t], n)
  <2>1. DumpInvocation = old + 1
    BY <1>3 DEF should_dump_views_for_invocation
  <2>2. selected.launch = NoLaunch /\ DOMAIN dumps = {}
    BY <1>1, <2>1 DEF HookInv, ChosenByCount
  <2>3. \A s \in Thread : ~Writing(s)
    <3> SUFFICES ASSUME NEW s \in Thread, Writing(s) PROVE FALSE
      OBVIOUS
    <3>1. selected.launch = This(s)
      BY WritingIsConcerned
    <3>2. This(s) # NoLaunch
      BY DEF This, NoLaunch
    <3> QED  BY <2>2, <3>1, <3>2
  <2>4. /\ pc'[t] = "fence_in"
        /\ selected' = [launch |-> This(t),
                        before |-> [v \in views[t] |-> issued[v]]]
    BY <1>1, <1>3 DEF CountInvocation, NextInvocation
  <2> QED  BY <1>2, <1>3, <2>2, <2>3, <2>4
<1>4. CASE ~should_dump_views_for_invocation(label[t], n)
  <2>1. pc'[t] = "dispatch" /\ UNCHANGED <<selected, id>>
    BY <1>1, <1>4 DEF CountInvocation, NextInvocation
  <2>2. ~kernel_states'[id[t]].dump_path
    BY DEF CountInvocation, Put
  <2>3. ~Writing(t)'
    BY <2>1, <2>2 DEF Writing, Beginning, Ending
  <2> QED  BY <1>2, <1>4, <2>1, <2>3
<1> QED  BY <1>3, <1>4

LEMMA CountStage ==
  ASSUME TypeOK, HookInv, StagedByOneThread, StageInv,
         NEW t \in Thread, CountInvocation(t)
  PROVE  StageInv'
<1>1. /\ pc[t] = "count"
      /\ UNCHANGED <<launch, label, views, loaded, binding, stageVars, dumps>>
      /\ kernel_invocations' = [kernel_invocations EXCEPT
                                  ![label[t]] = NextInvocation(label[t])]
  BY DEF CountInvocation
<1>2. \/ Concerned(t)
      \/ kernel_invocations'[DumpLabel] = kernel_invocations[DumpLabel]
  BY <1>1, CaptureAssumption DEF Concerned, TypeOK, CountTypeOK
<1>3. CASE label[t] = DumpLabel /\ next_invocation_will_dump(DumpLabel)
  <2>1. pc'[t] = "fence_in" /\ DOMAIN dumps' = {} /\ ToBeDumped(t)
    BY <1>1, <1>3, ChosenNow DEF ToBeDumped
  <2>2. DumpHoldsItsKernel'
    BY <2>1 DEF DumpHoldsItsKernel
  <2> QED
    BY <1>1, <1>2, <2>1, <2>2, HookKeeps, StageLater DEF Staging
<1>4. CASE ~(label[t] = DumpLabel /\ next_invocation_will_dump(DumpLabel))
  <2>1. pc'[t] = "dispatch" /\ ~Writing(t)' /\ UNCHANGED selected
    BY <1>4, ChosenNow
  <2>2. DumpHoldsItsKernel'
    BY <1>1, <2>1, SameDumpsKept, KernelKept DEF StageInv
  <2>3. ~ToBeDumped(t)'
    BY <2>1 DEF ToBeDumped, Beginning
  <2> QED
    BY <1>1, <1>2, <2>1, <2>2, <2>3, HookKeeps, StageLater DEF Staging
<1> QED  BY <1>3, <1>4

LEMMA DumpStage ==
  ASSUME TypeOK, HookInv, StagedByOneThread, StageInv,
         NEW t \in Thread, DumpStep(t)
  PROVE  StageInv'
<1>1. /\ pc[t] \in Beginning \cup Ending
      /\ UNCHANGED <<appVars, loaded, binding, countVars, stageVars, id,
                     selected>>
      /\ pc[t] \in Beginning => pc'[t] \in Beginning \cup {"dispatch"}
      /\ pc[t] \in Ending => pc'[t] \in Ending \cup {"app"}
      /\ pc'[t] = "write_functor" => WritePolicy(t)
  BY DumpMoves
<1>2. Writing(t) /\ Concerned(t) /\ label[t] = DumpLabel
      /\ selected.launch = This(t)
  BY <1>1, WritingIsConcerned DEF Writing
<1>3. ToBeDumped(t)' => ToBeDumped(t)
  BY <1>1, <1>2 DEF ToBeDumped, Beginning, Ending
<1>4. pc'[t] \notin Staging \cup {"ask", "replay"}
  BY <1>1 DEF Beginning, Ending, Staging
<1>5. CASE WriteFunctor(t)
  <2>1. pc[t] = "write_functor" /\ pc'[t] = "record" /\ ToBeDumped(t)
        /\ dumps' = [dumps EXCEPT ![id[t]].functor = functor_data,
                                  ![id[t]].state = "in"]
    BY <1>2, <1>5
       DEF WriteFunctor, ToBeDumped, Beginning, TypeOK, AppTypeOK
  <2>2. /\ functor_data = This(t)
        /\ dumps[id[t]].policy = PolicyOf(t)
    BY <2>1 DEF StageInv, StageAt, StagedFor
  <2>3. DOMAIN dumps = {id[t]} /\ dumps[id[t]] \in Dump
    BY <1>1, <2>1, FileAt
  <2>4. /\ DOMAIN dumps' = {id[t]}
        /\ dumps'[id[t]].functor = selected.launch
        /\ dumps'[id[t]].policy = PolicyOf(t)
    BY <1>2, <2>1, <2>2, <2>3 DEF Dump
  <2>5. DumpHoldsItsKernel'
    BY <1>1, <1>2, <2>4 DEF DumpHoldsItsKernel, PolicyOf
  <2> QED
    BY <1>1, <1>2, <1>3, <1>4, <2>1, <2>5, DumpKeeps, StageLater
<1>6. CASE ~WriteFunctor(t)
  <2>1. DumpHoldsItsKernel'
    BY <1>1, <1>6, InputStays, KernelKept DEF StageInv
  <2>2. CASE pc'[t] # "write_functor"
    BY <1>1, <1>2, <1>3, <1>4, <2>1, <2>2, DumpKeeps, StageLater
       DEF Beginning, Ending
  <2>3. CASE WritePolicy(t)
    <3>1. /\ pc[t] = "write_policy" /\ pc'[t] = "write_functor"
          /\ dumps' = [dumps EXCEPT ![id[t]].policy = policy]
      BY <2>3 DEF WritePolicy, TypeOK, AppTypeOK
    <3>2. DOMAIN dumps = {id[t]} /\ dumps[id[t]] \in Dump
      BY <1>1, <3>1, FileAt
    <3>3. ToBeDumped(t)
      BY <1>2, <3>1 DEF ToBeDumped, Beginning
    <3>4. StagedFor(t) /\ LaunchOf(t)
      BY DEF StageInv, StageAt
    <3>5. policy = PolicyOf(t) /\ functor_data = This(t) /\ ViewsStaged(t)
      BY <3>3, <3>4 DEF StagedFor
    <3>6. dumps'[id[t]].policy = PolicyOf(t)
      BY <3>1, <3>2, <3>5 DEF Dump
    <3>7. This(t)' = This(t) /\ PolicyOf(t)' = PolicyOf(t)
      BY <1>1 DEF This, PolicyOf
    <3>8. StagedFor(t)'
      BY <1>1, <3>1, <3>5, <3>6, <3>7 DEF StagedFor, ViewsStaged
    <3>9. LaunchOf(t)' /\ PathOf(t)'
      BY <1>1, <3>1, <3>4 DEF LaunchOf, PathOf, Staging
    <3>10. binding' # "none"
           /\ (ModeOf[DumpLabel] = "functor" => policy' = NoLaunch)
      BY <1>1 DEF StageInv
    <3> QED
      BY <1>1, <1>2, <2>1, <3>8, <3>9, <3>10, DumpKeeps, StageStep DEF StageAt
  <2> QED  BY <1>1, <2>2, <2>3
<1> QED  BY <1>5, <1>6

LEMMA DispatchStage ==
  ASSUME TypeOK, HookInv, StagedByOneThread, StageInv,
         NEW t \in Thread, Dispatch(t) \/ end_kernel(t)
  PROVE  StageInv'
<1>1. /\ pc[t] \in {"dispatch", "end"}
      /\ UNCHANGED <<launch, label, views, loaded, binding, stageVars, dumps,
                     kernel_invocations, selected, id>>
  BY DEF Dispatch, end_kernel
<1>2. Writing(t)' => Writing(t)
  <2>1. CASE Dispatch(t)
    BY <2>1
       DEF Dispatch, Writing, Beginning, Ending, TypeOK, AppTypeOK
  <2>2. CASE end_kernel(t)
    BY <2>2
       DEF end_kernel, Writing, Beginning, Ending, TypeOK, AppTypeOK
  <2> QED  BY <2>1, <2>2
<1>3. pc'[t] \in {"end", "fence_out", "app"}
  BY DEF Dispatch, end_kernel, TypeOK, AppTypeOK
<1>4. ~ToBeDumped(t)'
  BY <1>3 DEF ToBeDumped, Beginning
<1>5. DumpHoldsItsKernel'
  BY <1>1, SameDumpsKept, KernelKept DEF StageInv
<1> QED
  BY <1>1, <1>2, <1>3, <1>4, <1>5, HookKeeps, StageLater DEF Staging

LEMMA RecordStage ==
  ASSUME TypeOK, HookInv, StagedByOneThread, StageInv,
         NEW t \in Thread, RecordDumpPath(t)
  PROVE  StageInv'
<1>1. /\ pc[t] = "record" /\ pc'[t] = "dispatch"
      /\ UNCHANGED <<launch, label, views, loaded, binding, stageVars, dumps,
                     kernel_invocations, selected>>
  BY DEF RecordDumpPath, TypeOK, AppTypeOK
<1>2. Writing(t) /\ ~ToBeDumped(t)'
  BY <1>1 DEF Writing, ToBeDumped, Beginning
<1>3. DumpHoldsItsKernel'
  BY <1>1, SameDumpsKept, KernelKept DEF StageInv
<1> QED  BY <1>1, <1>2, <1>3, HookKeeps, StageLater DEF Staging

(* The steps outside the launches.                                         *)
LEMMA StageOutside ==
  ASSUME StagedByOneThread, StageInv,
         UNCHANGED <<pc, launch, label, views, id, todo, kernel_invocations,
                     kernel_states, stageVars, dumps, selected>>,
         loaded => loaded', binding' # "none"
  PROVE  StageInv'
<1>1. ASSUME NEW t \in Thread PROVE StageAt(t)'
  <2>1. StageAt(t)
    BY DEF StageInv
  <2>2. ToBeDumped(t)' <=> ToBeDumped(t)
    BY DEF ToBeDumped, next_invocation_will_dump,
           should_dump_views_for_invocation
  <2>3. /\ Writing(t)' <=> Writing(t)
        /\ ViewsStaged(t)' <=> ViewsStaged(t)
        /\ This(t)' = This(t) /\ PolicyOf(t)' = PolicyOf(t)
    BY DEF Writing, ViewsStaged, This, PolicyOf
  <2>4. LaunchOf(t)' /\ PathOf(t)'
    BY <2>1 DEF StageAt, LaunchOf, PathOf, next_invocation_will_dump,
                should_dump_views_for_invocation
  <2>5. StagedFor(t)'
    BY <2>1, <2>2, <2>3 DEF StageAt, StagedFor
  <2> QED  BY <2>4, <2>5 DEF StageAt
<1>2. DumpHoldsItsKernel'
  BY SameDumpsKept, KernelKept DEF StageInv
<1> QED  BY <1>1, <1>2 DEF StageInv

-----------------------------------------------------------------------------
(* The heap and the device.                                                *)

LEMMA InUnions ==
  ASSUME NEW v, NEW at, NEW V, NEW K
  PROVE  v \in (UNION {V[t] : t \in {s \in Thread : at[s] # "app"}})
                 \cup (UNION {k.views : k \in K})
           <=> \/ \E t \in Thread : at[t] # "app" /\ v \in V[t]
               \/ \E k \in K : v \in k.views
<1> DEFINE A == {V[t] : t \in {s \in Thread : at[s] # "app"}}
           B == {k.views : k \in K}
<1>1. v \in UNION A <=> \E t \in Thread : at[t] # "app" /\ v \in V[t]
  <2>1. v \in UNION A <=> \E a \in A : v \in a
    OBVIOUS
  <2> QED  BY <2>1
<1>2. v \in UNION B <=> \E k \in K : v \in k.views
  <2>1. v \in UNION B <=> \E b \in B : v \in b
    OBVIOUS
  <2>2. ASSUME NEW k \in K, v \in k.views PROVE \E b \in B : v \in b
    <3>1. k.views \in B
      OBVIOUS
    <3> QED  BY <2>2, <3>1
  <2>3. ASSUME NEW b \in B, v \in b PROVE \E k \in K : v \in k.views
    BY <2>3
  <2> HIDE DEF B
  <2> QED  BY <2>1, <2>2, <2>3
<1> QED  BY <1>1, <1>2

LEMMA HeldBy ==
  ASSUME NEW v
  PROVE  v \in Held <=> \/ \E t \in Thread : pc[t] # "app" /\ v \in views[t]
                        \/ \E k \in pending : v \in k.views
  BY InUnions DEF Held

(* A View belongs to one thread.                                           *)
LEMMA OwnedByOne ==
  ASSUME NEW s \in Thread, NEW t \in Thread,
         NEW v \in ViewsOf[s], v \in ViewsOf[t]
  PROVE  s = t
  BY CaptureAssumption

LEMMA KernelType ==
  ASSUME TypeOK, NEW k \in pending
  PROVE  /\ k.launch[1] \in Thread /\ k.launch[2] \in Nat
         /\ k.launch = <<k.launch[1], k.launch[2]>>
         /\ k.views \in SUBSET View
<1>1. k \in Kernel
  BY DEF TypeOK, KokkosTypeOK
<1>2. k.launch \in Thread \X (1 .. MaxLaunches) /\ k.views \in SUBSET View
  BY <1>1 DEF Kernel, Launch
<1> QED  BY <1>2, CaptureAssumption

LEMMA HeapOutside ==
  ASSUME HeapInv, UNCHANGED <<pc, launch, views, heap, mem, issued, pending>>
  PROVE  HeapInv'
  BY DEF HeapInv, Held, LastOf, This

LEMMA ExecuteHeap ==
  ASSUME TypeOK, HeapInv, NEW k \in pending, Execute(k)
  PROVE  HeapInv'
<1>1. /\ pending' = pending \ {k}
      /\ mem' = [v \in View |-> IF v \in k.views THEN k.launch ELSE mem[v]]
      /\ \A j \in pending : j.launch[1] = k.launch[1]
                              => j.launch[2] >= k.launch[2]
      /\ UNCHANGED <<pc, launch, label, views, heap, issued>>
  BY DEF Execute
<1>2. \A v \in Held' : heap'[v] = "live"
  <2>1. Held' \subseteq Held
    BY <1>1 DEF Held
  <2> QED  BY <1>1, <2>1 DEF HeapInv
<1>3. ASSUME NEW v \in View
      PROVE  \/ \E j \in pending' : LastOf(v, j)'
             \/ (\A j \in pending' : v \notin j.views) /\ mem'[v] = issued'[v]
  <2>1. CASE \A j \in pending : v \notin j.views
    BY <1>1, <1>3, <2>1 DEF HeapInv, LastOf
  <2>2. CASE \E j \in pending : LastOf(v, j)
    <3>1. PICK j \in pending : LastOf(v, j)
      BY <2>2
    <3>2. CASE j # k
      BY <1>1, <3>1, <3>2 DEF LastOf
    <3>3. CASE j = k
      <4>1. /\ v \in k.views /\ issued[v] = k.launch
            /\ \A i \in pending : v \in i.views => i.launch[2] <= k.launch[2]
        BY <3>1, <3>3 DEF LastOf
      <4>2. CASE \A i \in pending' : v \notin i.views
        BY <1>1, <1>3, <4>1, <4>2
      <4>3. ASSUME NEW i \in pending', v \in i.views
            PROVE  LastOf(v, i)'
        <5>1. /\ i.launch[1] \in Thread /\ i.launch[2] \in Nat
              /\ i.launch = <<i.launch[1], i.launch[2]>>
              /\ k.launch[1] \in Thread /\ k.launch[2] \in Nat
              /\ k.launch = <<k.launch[1], k.launch[2]>>
          BY <1>1, <4>3, KernelType
        <5>2. v \in ViewsOf[i.launch[1]] /\ v \in ViewsOf[k.launch[1]]
          BY <1>1, <4>1, <4>3 DEF HeapInv
        <5>3. i.launch[1] = k.launch[1]
          BY <5>1, <5>2, OwnedByOne
        <5>4. i.launch[2] >= k.launch[2] /\ i.launch[2] <= k.launch[2]
          BY <1>1, <4>1, <4>3, <5>3
        <5>5. i.launch[2] = k.launch[2]
          BY <5>1, <5>4
        <5>6. i.launch = k.launch
          BY <5>1, <5>3, <5>5
        <5> QED  BY <1>1, <4>1, <4>3, <5>6 DEF LastOf
      <4> QED  BY <4>2, <4>3
    <3> QED  BY <3>2, <3>3
  <2> QED  BY <2>1, <2>2 DEF HeapInv
<1> QED  BY <1>1, <1>2, <1>3 DEF HeapInv, This

LEMMA ViewStepHeap ==
  ASSUME TypeOK, HeapInv, NEW t \in Thread, ViewStep(t)
  PROVE  HeapInv'
<1>1. PICK v \in ViewsOf[t] :
        \/ ObtainMemory(v) \/ kokkosp_allocate_data(v)
        \/ kokkosp_deallocate_data(v) \/ ReturnMemory(v)
  BY DEF ViewStep
<1>2. UNCHANGED <<pc, launch, label, views, pending>> /\ Held' = Held
  BY DEF ViewStep, Held
<1>3. v \in View
  BY CaptureAssumption
<1>4. v \notin Held
  <2>1. heap[v] # "live" \/ v \notin Held
    BY <1>1 DEF ObtainMemory, kokkosp_allocate_data, kokkosp_deallocate_data,
                ReturnMemory
  <2> QED  BY <2>1 DEF HeapInv
<1>5. /\ \A w \in View \ {v} : /\ heap'[w] = heap[w] /\ mem'[w] = mem[w]
                               /\ issued'[w] = issued[w]
      /\ mem[v] = issued[v] => mem'[v] = issued'[v]
  <2>1. heap \in [View -> Phase] /\ mem \in [View -> MaybeLaunch]
        /\ issued \in [View -> MaybeLaunch]
    BY DEF TypeOK, KokkosTypeOK, Contents
  <2> QED
    BY <1>1, <1>3, <2>1
       DEF ObtainMemory, kokkosp_allocate_data, kokkosp_deallocate_data,
           ReturnMemory
<1>6. \A w \in Held : w \in View
  <2>1. \A k \in pending : k.views \in SUBSET View
    BY KernelType
  <2> QED  BY <2>1, HeldBy DEF TypeOK, AppTypeOK
<1>7. \A w \in Held' : heap'[w] = "live"
  BY <1>2, <1>4, <1>5, <1>6 DEF HeapInv
<1>8. ASSUME NEW w \in View
      PROVE  \/ \E k \in pending' : LastOf(w, k)'
             \/ (\A k \in pending' : w \notin k.views) /\ mem'[w] = issued'[w]
  <2>1. CASE w = v
    <3>1. \A k \in pending : v \notin k.views
      BY <1>4, HeldBy
    <3> QED  BY <1>2, <1>3, <1>5, <2>1, <3>1 DEF HeapInv, LastOf
  <2>2. CASE w # v
    BY <1>2, <1>5, <1>8, <2>2 DEF HeapInv, LastOf
  <2> QED  BY <2>1, <2>2
<1>9. ASSUME NEW s \in Thread, pc'[s] \in Ran, NEW w \in views'[s]
      PROVE  issued'[w] = This(s)'
  <2>1. pc[s] # "app" /\ pc[s] \in Ran /\ w \in views[s]
    BY <1>2, <1>9 DEF Ran, Ending
  <2>2. w \in Held /\ w \in View
    BY <1>6, <2>1, HeldBy
  <2> QED  BY <1>2, <1>4, <1>5, <2>1, <2>2 DEF HeapInv, This
<1> QED  BY <1>2, <1>7, <1>8, <1>9 DEF HeapInv

LEMMA LaunchHeap ==
  ASSUME TypeOK, HeapInv, NEW t \in Thread, StartLaunch(t)
  PROVE  HeapInv'
<1>1. PICK l \in LabelsOf[t], vs \in SUBSET (ViewsOf[t] \cap Reported) :
        /\ launch' = [launch EXCEPT ![t] = @ + 1]
        /\ views' = [views EXCEPT ![t] = vs]
        /\ pc' = [pc EXCEPT ![t] = CASE ModeOf[l] = "krepe"   -> "ask"
                                     [] ModeOf[l] = "functor" -> "replay"
                                     [] ModeOf[l] = "plain"   -> "begin"]
  BY DEF StartLaunch
<1>2. ModeOf[l] \in {"krepe", "functor", "plain"}
  BY CaptureAssumption
<1>3. /\ UNCHANGED <<heap, mem, issued, pending>>
      /\ pc'[t] \notin Ran
      /\ \A s \in Thread : launch'[s] = IF s = t THEN launch[s] + 1
                                        ELSE launch[s]
      /\ \A s \in Thread : views'[s] = IF s = t THEN vs ELSE views[s]
      /\ \A s \in Thread \ {t} : pc'[s] = pc[s]
  BY <1>1, <1>2 DEF StartLaunch, Ran, Ending, TypeOK, AppTypeOK
<1>4. \A k \in pending' : /\ k.views \subseteq ViewsOf[k.launch[1]]
                          /\ k.launch[2] <= launch'[k.launch[1]]
  <2> SUFFICES ASSUME NEW k \in pending
               PROVE  /\ k.views \subseteq ViewsOf[k.launch[1]]
                      /\ k.launch[2] <= launch'[k.launch[1]]
    BY <1>3
  <2>1. k.launch[1] \in Thread /\ k.launch[2] \in Nat
    BY KernelType
  <2>2. launch[k.launch[1]] \in Nat
    BY <2>1, CaptureAssumption DEF TypeOK, AppTypeOK
  <2> QED  BY <1>3, <2>1, <2>2 DEF HeapInv
<1>5. \A v \in Held' : heap'[v] = "live"
  <2> SUFFICES ASSUME NEW v, v \in Held' PROVE heap[v] = "live"
    BY <1>3
  <2>1. \/ \E s \in Thread : pc'[s] # "app" /\ v \in views'[s]
        \/ \E k \in pending' : v \in k.views
    BY InUnions DEF Held
  <2>2. v \in vs \/ v \in Held
    BY <1>3, <2>1, HeldBy
  <2>3. \A w \in vs : heap[w] = "live"
    BY DEF Reported
  <2> QED  BY <2>2, <2>3 DEF HeapInv
<1>6. \A s \in Thread : views'[s] \subseteq ViewsOf[s]
  BY <1>3 DEF HeapInv
<1>7. \A s \in Thread : pc'[s] \in Ran => \A v \in views'[s] : issued'[v] = This(s)'
  BY <1>3 DEF HeapInv, This
<1> QED  BY <1>3, <1>4, <1>5, <1>6, <1>7 DEF HeapInv, LastOf

LEMMA DispatchHeap ==
  ASSUME TypeOK, HeapInv, NEW t \in Thread, Dispatch(t)
  PROVE  HeapInv'
<1> PICK new : new = [launch |-> This(t), views |-> views[t]]
  OBVIOUS
<1>1. /\ pending' = pending \cup {new}
      /\ issued' = [v \in View |-> IF v \in views[t] THEN This(t) ELSE issued[v]]
      /\ pc[t] = "dispatch"
      /\ \A s \in Thread : pc'[s] = IF s = t THEN "end" ELSE pc[s]
      /\ UNCHANGED <<launch, label, views, heap, mem>>
  BY DEF Dispatch, TypeOK, AppTypeOK
<1>2. launch[t] \in Nat /\ views[t] \in SUBSET View
  BY CaptureAssumption DEF TypeOK, AppTypeOK
<1>3. new.launch[1] = t /\ new.launch[2] = launch[t] /\ new.views = views[t]
      /\ new.launch = This(t)
  BY DEF This
<1>4. \A k \in pending' : /\ k.views \subseteq ViewsOf[k.launch[1]]
                          /\ k.launch[2] <= launch'[k.launch[1]]
  BY <1>1, <1>2, <1>3 DEF HeapInv
<1>5. \A v \in Held' : heap'[v] = "live"
  <2>1. Held' \subseteq Held
    <3> SUFFICES ASSUME NEW v, v \in Held' PROVE v \in Held
      OBVIOUS
    <3>1. \/ \E s \in Thread : pc'[s] # "app" /\ v \in views'[s]
          \/ \E k \in pending' : v \in k.views
      BY InUnions DEF Held
    <3> QED  BY <1>1, <1>3, <3>1, HeldBy
  <2> QED  BY <1>1, <2>1 DEF HeapInv
<1>6. ASSUME NEW v \in View
      PROVE  \/ \E k \in pending' : LastOf(v, k)'
             \/ (\A k \in pending' : v \notin k.views) /\ mem'[v] = issued'[v]
  <2>1. CASE v \in views[t]
    <3>1. ASSUME NEW j \in pending', v \in j.views
          PROVE  j.launch[2] <= new.launch[2]
      <4>1. CASE j = new
        BY <1>2, <1>3, <4>1
      <4>2. CASE j \in pending
        <5>1. j.launch[1] \in Thread
          BY <4>2, KernelType
        <5>2. v \in ViewsOf[j.launch[1]] /\ v \in ViewsOf[t]
          BY <2>1, <3>1, <4>2 DEF HeapInv
        <5>3. j.launch[1] = t
          BY <5>1, <5>2, OwnedByOne
        <5> QED  BY <1>3, <4>2, <5>3 DEF HeapInv
      <4> QED  BY <1>1, <3>1, <4>1, <4>2
    <3>2. LastOf(v, new)'
      BY <1>1, <1>3, <1>6, <2>1, <3>1 DEF LastOf
    <3> QED  BY <1>1, <3>2
  <2>2. CASE v \notin views[t]
    <3>1. issued'[v] = issued[v] /\ mem'[v] = mem[v]
      BY <1>1, <1>6, <2>2
    <3>2. \A k \in pending' : v \in k.views => k \in pending
      BY <1>1, <1>3, <2>2
    <3>3. CASE \E k \in pending : LastOf(v, k)
      <4>1. PICK k \in pending : LastOf(v, k)
        BY <3>3
      <4>2. LastOf(v, k)'
        BY <3>1, <3>2, <4>1 DEF LastOf
      <4> QED  BY <1>1, <4>2
    <3>4. CASE (\A k \in pending : v \notin k.views) /\ mem[v] = issued[v]
      BY <3>1, <3>2, <3>4
    <3> QED  BY <3>3, <3>4 DEF HeapInv
  <2> QED  BY <2>1, <2>2
<1>7. ASSUME NEW s \in Thread, pc'[s] \in Ran, NEW v \in views'[s]
      PROVE  issued'[v] = This(s)'
  <2>1. v \in views[s] /\ views[s] \in SUBSET View /\ This(s)' = This(s)
    BY <1>1, <1>7 DEF This, TypeOK, AppTypeOK
  <2>2. CASE s = t
    BY <1>1, <2>1, <2>2
  <2>3. CASE s # t
    <3>1. v \notin views[t]
      BY <2>1, <2>3, OwnedByOne DEF HeapInv
    <3> QED  BY <1>1, <1>7, <2>1, <2>3, <3>1 DEF HeapInv
  <2> QED  BY <2>2, <2>3
<1>8. \A s \in Thread : views'[s] \subseteq ViewsOf[s]
  BY <1>1 DEF HeapInv
<1> QED  BY <1>4, <1>5, <1>6, <1>7, <1>8 DEF HeapInv

(* The other steps of a launch.                                            *)
LEMMA HookHeap ==
  ASSUME TypeOK, HeapInv, NEW t \in Thread, Keeps(t), pc[t] # "app",
         UNCHANGED <<launch, views, heap, mem, issued, pending>>,
         pc'[t] \in Ran => pc[t] \in Ran
  PROVE  HeapInv'
<1>1. \A s \in Thread \ {t} : pc'[s] = pc[s]
  BY DEF Keeps
<1>2. \A v \in Held' : heap'[v] = "live"
  <2>1. Held' \subseteq Held
    BY <1>1 DEF Held
  <2> QED  BY <2>1 DEF HeapInv
<1>3. \A s \in Thread : pc'[s] \in Ran => \A v \in views'[s] : issued'[v] = This(s)'
  BY <1>1 DEF HeapInv, This
<1> QED  BY <1>2, <1>3 DEF HeapInv, LastOf

-----------------------------------------------------------------------------
(* The fences.                                                             *)

LEMMA FenceOutside ==
  ASSUME FenceInv, UNCHANGED <<pc, awaited>>, pending' \subseteq pending
  PROVE  FenceInv'
  BY DEF FenceInv, FenceAt

(* A thread that is not dispatching leaves what the others wait for.       *)
LEMMA FenceStep ==
  ASSUME FenceInv, NEW t \in Thread, Keeps(t), UNCHANGED pending, FenceAt(t)'
  PROVE  FenceInv'
<1>1. ASSUME NEW s \in Thread, s # t PROVE FenceAt(s)'
  BY <1>1 DEF FenceInv, FenceAt, Keeps
<1> QED  BY <1>1 DEF FenceInv

LEMMA HookFence ==
  ASSUME FenceInv, NEW t \in Thread, Keeps(t), UNCHANGED pending,
         pc'[t] \notin Copying \cup {"wait_in", "wait_out"}
  PROVE  FenceInv'
  BY FenceStep DEF FenceAt

LEMMA DispatchFence ==
  ASSUME TypeOK, HookInv, FenceInv, NEW t \in Thread, Dispatch(t)
  PROVE  FenceInv'
<1>1. /\ pending' = pending \cup {[launch |-> This(t), views |-> views[t]]}
      /\ pc'[t] = "end" /\ UNCHANGED awaited
      /\ \A s \in Thread \ {t} : pc'[s] = pc[s]
  BY DEF Dispatch, TypeOK, AppTypeOK
<1>2. \A k \in pending' : k \in pending \/ k.launch[1] = t
  BY <1>1 DEF This
<1>3. ASSUME NEW s \in Thread PROVE FenceAt(s)'
  BY <1>1, <1>2 DEF FenceInv, FenceAt, Copying
<1> QED  BY <1>3 DEF FenceInv

LEMMA DumpFence ==
  ASSUME TypeOK, HookInv, ToolHasFence, FenceInv,
         NEW t \in Thread, DumpStep(t)
  PROVE  FenceInv'
<1>1. Keeps(t) /\ UNCHANGED pending /\ pc \in [Thread -> Pc]
  BY DumpKeeps, DumpMoves DEF TypeOK, AppTypeOK
<1>2. FenceAt(t)
  BY DEF FenceInv
<1>3. CASE \/ CallFence(t, "fence_in", "wait_in")
           \/ CallFence(t, "fence_out", "wait_out")
  <2>1. awaited'[t] = pending /\ pc'[t] \notin Copying
    BY <1>1, <1>3
       DEF CallFence, FenceWaitsFor, Copying, TypeOK, LocalTypeOK
  <2> QED  BY <1>1, <2>1, FenceStep DEF FenceAt
<1>4. CASE \/ ReturnFromFence(t, "wait_in", "snap_in")
           \/ ReturnFromFence(t, "wait_out", "snap_out")
  <2>1. \A k \in pending : k.launch[1] # t
    BY <1>2, <1>4 DEF ReturnFromFence, FenceAt
  <2> QED  BY <1>1, <2>1, FenceStep DEF FenceAt
<1>5. ASSUME pc[t] \in Copying, pc'[t] \notin {"wait_in", "wait_out"}
      PROVE  FenceInv'
  BY <1>1, <1>2, <1>5, FenceStep DEF FenceAt
<1>6. CASE \/ TakeSnapshot(t, "snap_in", "create")
           \/ TakeSnapshot(t, "snap_out", "append")
  BY <1>1, <1>5, <1>6 DEF TakeSnapshot, Copying
<1>7. CASE create_kernel_dump(t) \/ CopyIn(t)
  BY <1>1, <1>5, <1>7 DEF create_kernel_dump, CopyIn, Copying
<1>8. CASE append_kernel_output(t) \/ CopyOut(t)
  BY <1>1, <1>5, <1>8 DEF append_kernel_output, CopyOut, Copying
<1>9. CASE WritePolicy(t) \/ WriteFunctor(t) \/ FailIn(t) \/ FailOut(t)
  <2>1. pc'[t] \in {"write_functor", "record", "dispatch", "app"}
    BY <1>1, <1>9 DEF WritePolicy, WriteFunctor, FailIn, FailOut
  <2> QED  BY <1>1, <2>1, HookFence DEF Copying
<1> QED  BY <1>3, <1>4, <1>6, <1>7, <1>8, <1>9 DEF DumpStep

(* What a thread copies after the fence is what its launches left.         *)
LEMMA FencedMemory ==
  ASSUME TypeOK, HeapInv, FenceInv, NEW t \in Thread, pc[t] \in Copying,
         NEW v \in views[t]
  PROVE  v \in View /\ mem[v] = issued[v]
<1>1. v \in View /\ v \in ViewsOf[t]
  BY DEF HeapInv, TypeOK, AppTypeOK
<1>2. ASSUME NEW k \in pending, v \in k.views PROVE FALSE
  <2>1. k.launch[1] \in Thread /\ v \in ViewsOf[k.launch[1]]
    BY <1>2, KernelType DEF HeapInv
  <2>2. k.launch[1] = t
    BY <1>1, <2>1, OwnedByOne
  <2> QED  BY <2>2 DEF FenceInv, FenceAt
<1> QED  BY <1>1, <1>2 DEF HeapInv, LastOf

-----------------------------------------------------------------------------
(* The copies.                                                             *)

LEMMA InputsKept ==
  ASSUME DumpHoldsInputs, InputKept, UNCHANGED selected
  PROVE  DumpHoldsInputs'
  BY DEF DumpHoldsInputs, InputKept

LEMMA OutputsKept ==
  ASSUME DumpHoldsOutputs, OutputKept, UNCHANGED selected
  PROVE  DumpHoldsOutputs'
  BY DEF DumpHoldsOutputs, OutputKept

LEMMA CopyOfOthers ==
  ASSUME HookInv, CopyInv, NEW t \in Thread, NEW s \in Thread, s # t, Keeps(t),
         Writing(s) => UNCHANGED <<selected, dumps>>,
         \A v \in views[s] : issued'[v] = issued[v]
  PROVE  CopyAt(s)'
<1>1. /\ pc'[s] = pc[s] /\ launch'[s] = launch[s] /\ views'[s] = views[s]
      /\ id'[s] = id[s] /\ todo'[s] = todo[s] /\ snap'[s] = snap[s]
      /\ pc[s] \in Open => kernel_states'[id[s]] = kernel_states[id[s]]
  BY DEF Keeps
<1>2. CopyAt(s)
  BY DEF CopyInv
<1>3. Writing(s)' <=> Writing(s)
  BY <1>1 DEF Writing, Open
<1>4. This(s)' = This(s)
  BY <1>1 DEF This
<1>5. CASE Writing(s)
  BY <1>1, <1>2, <1>3, <1>4, <1>5 DEF CopyAt, InputHeld, OutputHeld
<1>6. CASE ~Writing(s)
  BY <1>1, <1>3, <1>6 DEF CopyAt, Writing, Beginning, Ending
<1> QED  BY <1>5, <1>6

(* What CopyInv says of the other threads is kept.                         *)
LEMMA CopyStep ==
  ASSUME HookInv, CopyInv, NEW t \in Thread, Keeps(t), UNCHANGED issued,
         UNCHANGED <<selected, dumps>> \/ \A s \in Thread : Writing(s) => s = t,
         CopyAt(t)', DumpHoldsInputs', DumpHoldsOutputs'
  PROVE  CopyInv'
<1>1. ASSUME NEW s \in Thread PROVE CopyAt(s)'
  BY <1>1, CopyOfOthers
<1> QED  BY <1>1 DEF CopyInv

(* Steps outside the hooks and those of a launch that is not being dumped. *)
LEMMA QuietCopy ==
  ASSUME HookInv, CopyInv, NEW t \in Thread, Keeps(t),
         UNCHANGED <<views, issued, selected, dumps>>,
         pc'[t] \notin Beginning \cup {"append", "copy_out"},
         Writing(t)' => Writing(t)
  PROVE  CopyInv'
<1>1. CopyAt(t)'
  <2>1. CopyAt(t)
    BY DEF CopyInv
  <2> QED  BY <2>1 DEF CopyAt, Beginning
<1>2. DumpHoldsInputs' /\ DumpHoldsOutputs'
  BY SameDumpsKept, InputsKept, OutputsKept DEF CopyInv
<1> QED  BY <1>1, <1>2, CopyStep

LEMMA LaunchCopy ==
  ASSUME TypeOK, HookInv, CopyInv, NEW t \in Thread, StartLaunch(t)
  PROVE  CopyInv'
<1>1. PICK l \in LabelsOf[t] :
        pc' = [pc EXCEPT ![t] = CASE ModeOf[l] = "krepe"   -> "ask"
                                  [] ModeOf[l] = "functor" -> "replay"
                                  [] ModeOf[l] = "plain"   -> "begin"]
  BY DEF StartLaunch
<1>2. ModeOf[l] \in {"krepe", "functor", "plain"}
  BY CaptureAssumption
<1>3. pc'[t] \in {"ask", "replay", "begin"}
  BY <1>1, <1>2 DEF TypeOK, AppTypeOK
<1>4. CopyAt(t)'
  BY <1>3 DEF CopyAt, Writing, Beginning, Ending
<1>5. UNCHANGED <<issued, selected, dumps>>
  BY DEF StartLaunch
<1>6. DumpHoldsInputs' /\ DumpHoldsOutputs'
  BY <1>5, SameDumpsKept, InputsKept, OutputsKept DEF CopyInv
<1> QED  BY <1>4, <1>5, <1>6, LaunchKeeps, CopyStep

LEMMA CountCopy ==
  ASSUME TypeOK, HookInv, CopyInv, NEW t \in Thread, CountInvocation(t)
  PROVE  CopyInv'
<1>1. Keeps(t) /\ UNCHANGED <<views, issued, dumps>>
  BY HookKeeps DEF CountInvocation
<1>2. CASE label[t] = DumpLabel /\ next_invocation_will_dump(DumpLabel)
  <2>1. /\ pc'[t] = "fence_in" /\ DOMAIN dumps' = {}
        /\ selected'.before = [v \in views[t] |-> issued[v]]
        /\ \A s \in Thread : ~Writing(s)
    BY <1>1, <1>2, ChosenNow
  <2>2. CopyAt(t)'
    BY <1>1, <2>1 DEF CopyAt
  <2>3. DumpHoldsInputs' /\ DumpHoldsOutputs'
    BY <2>1 DEF DumpHoldsInputs, DumpHoldsOutputs
  <2> QED  BY <1>1, <2>1, <2>2, <2>3, CopyStep
<1>3. CASE ~(label[t] = DumpLabel /\ next_invocation_will_dump(DumpLabel))
  <2>1. pc'[t] = "dispatch" /\ UNCHANGED selected /\ ~Writing(t)'
    BY <1>3, ChosenNow
  <2> QED  BY <1>1, <2>1, QuietCopy DEF Beginning
<1> QED  BY <1>2, <1>3

LEMMA DispatchCopy ==
  ASSUME TypeOK, HookInv, HeapInv, CopyInv, NEW t \in Thread, Dispatch(t)
  PROVE  CopyInv'
<1>1. /\ pc[t] = "dispatch" /\ pc'[t] = "end"
      /\ issued' = [v \in View |-> IF v \in views[t] THEN This(t) ELSE issued[v]]
      /\ UNCHANGED <<views, id, kernel_states, selected, dumps>>
  BY DEF Dispatch, TypeOK, AppTypeOK
<1>2. CopyAt(t)'
  <2>1. Writing(t)' => Writing(t)
    BY <1>1 DEF Writing, Beginning, Ending
  <2>2. Writing(t) => DOMAIN selected.before = views[t]
    BY DEF CopyInv, CopyAt
  <2> QED  BY <1>1, <2>1, <2>2 DEF CopyAt, Beginning
<1>3. ASSUME NEW s \in Thread, s # t PROVE CopyAt(s)'
  <2>1. \A v \in views[s] : v \in View /\ v \notin views[t]
    BY <1>3, OwnedByOne DEF HeapInv, TypeOK, AppTypeOK
  <2>2. \A v \in views[s] : issued'[v] = issued[v]
    BY <1>1, <2>1
  <2> QED  BY <1>1, <1>3, <2>2, HookKeeps, CopyOfOthers
<1>4. DumpHoldsInputs' /\ DumpHoldsOutputs'
  BY <1>1, SameDumpsKept, InputsKept, OutputsKept DEF CopyInv
<1> QED  BY <1>2, <1>3, <1>4 DEF CopyInv

(* The owner frees a View and obtains it again only when no launch of its  *)
(* own holds it.                                                           *)
LEMMA ViewStepCopy ==
  ASSUME TypeOK, HookInv, HeapInv, CopyInv, NEW t \in Thread, ViewStep(t)
  PROVE  CopyInv'
<1>1. PICK v \in ViewsOf[t] :
        \/ ObtainMemory(v) \/ kokkosp_allocate_data(v)
        \/ kokkosp_deallocate_data(v) \/ ReturnMemory(v)
  BY DEF ViewStep
<1>2. pc[t] = "app"
      /\ UNCHANGED <<pc, launch, label, views, id, snap, todo, kernel_states,
                     selected, dumps>>
  BY DEF ViewStep
<1>3. \A w : w # v /\ w \in View => issued'[w] = issued[w]
  <2>1. issued \in [View -> MaybeLaunch]
    BY DEF TypeOK, KokkosTypeOK, Contents
  <2> QED
    BY <1>1, <2>1
       DEF ObtainMemory, kokkosp_allocate_data, kokkosp_deallocate_data,
           ReturnMemory
<1>4. ASSUME NEW s \in Thread PROVE CopyAt(s)'
  <2>1. CASE s = t
    BY <1>2, <2>1 DEF CopyAt, Writing, Beginning, Ending
  <2>2. CASE s # t
    <3>1. \A w \in views[s] : w \in View /\ w # v
      BY <2>2, OwnedByOne DEF HeapInv, TypeOK, AppTypeOK
    <3>2. \A w \in views[s] : issued'[w] = issued[w]
      BY <1>3, <3>1
    <3>3. CopyAt(s)
      BY DEF CopyInv
    <3> QED
      BY <1>2, <3>2, <3>3 DEF CopyAt, Writing, InputHeld, OutputHeld, This
  <2> QED  BY <2>1, <2>2
<1>5. DumpHoldsInputs' /\ DumpHoldsOutputs'
  BY <1>2, SameDumpsKept, InputsKept, OutputsKept DEF CopyInv
<1> QED  BY <1>4, <1>5 DEF CopyInv

LEMMA CopyOutside ==
  ASSUME CopyInv, UNCHANGED <<pc, launch, views, id, snap, todo, kernel_states,
                              issued, selected, dumps>>
  PROVE  CopyInv'
<1>1. ASSUME NEW s \in Thread PROVE CopyAt(s)'
  BY DEF CopyInv, CopyAt, Writing, InputHeld, OutputHeld, This
<1>2. DumpHoldsInputs' /\ DumpHoldsOutputs'
  BY SameDumpsKept, InputsKept, OutputsKept DEF CopyInv
<1> QED  BY <1>1, <1>2 DEF CopyInv

(* The snapshot of the tracker holds the Views of the kernel, and with the *)
(* compiler plugins no others.                                             *)
LEMMA SnapshotOfViews ==
  ASSUME TypeOK, HookInv, HeapInv, HasCompilerPlugins => StageInv,
         NEW t \in Thread, Writing(t)
  PROVE  /\ views[t] \subseteq Snapshot
         /\ HasCompilerPlugins => Snapshot \subseteq views[t]
<1>1. views[t] \subseteq Reported
  <2>1. pc[t] # "app"
    BY WritingIsConcerned DEF Concerned
  <2>2. \A v \in views[t] : v \in Held /\ v \in View
    BY <2>1, HeldBy DEF TypeOK, AppTypeOK
  <2> QED  BY <2>2 DEF HeapInv, Reported
<1>2. HasCompilerPlugins => used_allocations = views[t]
  BY DEF StageInv, StageAt, StagedFor, ViewsStaged
<1> QED  BY <1>1, <1>2 DEF Snapshot

LEMMA DumpCopy ==
  ASSUME TypeOK, HookInv, HeapInv, FenceInv, CopyInv,
         HasCompilerPlugins => StageInv,
         NEW t \in Thread, DumpStep(t)
  PROVE  CopyInv'
<1>1. /\ pc[t] \in Beginning \cup Ending
      /\ UNCHANGED <<launch, label, views, heap, mem, issued, pending, id,
                     selected>>
      /\ pc[t] \in Beginning => pc'[t] \in Beginning \cup {"dispatch"}
      /\ pc[t] \in Ending => pc'[t] \in Ending \cup {"app"}
      /\ Keeps(t)
  BY DumpMoves, DumpKeeps
<1>2. Writing(t) /\ selected.launch = This(t)
      /\ \A s \in Thread : Writing(s) => s = t
  BY <1>1, WritingIsConcerned, OneWriter DEF Writing
<1>3. CopyAt(t) /\ DOMAIN selected.before = views[t]
  BY <1>2 DEF CopyInv, CopyAt
<1>4. /\ DOMAIN selected'.before = views'[t]
      /\ pc'[t] \in Beginning =>
           \A v \in views'[t] : selected'.before[v] = issued'[v]
      /\ This(t)' = This(t)
  BY <1>1, <1>3 DEF CopyAt, Beginning, Ending, This
<1>5. ~WriteFunctor(t) => DumpHoldsInputs'
  BY <1>1, InputStays, InputsKept DEF CopyInv
<1>6. ~CopyOut(t) => DumpHoldsOutputs'
  BY <1>1, OutputStays, OutputsKept DEF CopyInv
<1>7. ASSUME CopyAt(t)', DumpHoldsInputs', DumpHoldsOutputs' PROVE CopyInv'
  BY <1>1, <1>2, <1>7, CopyStep
<1>8. pc[t] \notin {"fence_in", "wait_in", "snap_in", "create"} =>
        DOMAIN dumps = {id[t]} /\ dumps[id[t]] \in Dump
  BY <1>1, FileAt
<1>9. /\ pc \in [Thread -> Pc] /\ snap \in [Thread -> SUBSET View]
      /\ todo \in [Thread -> SUBSET View]
  BY DEF TypeOK, AppTypeOK, LocalTypeOK
<1>10. CASE \/ CallFence(t, "fence_in", "wait_in")
            \/ CallFence(t, "fence_out", "wait_out")
            \/ ReturnFromFence(t, "wait_in", "snap_in")
            \/ ReturnFromFence(t, "wait_out", "snap_out")
  <2>1. pc'[t] \in {"wait_in", "wait_out", "snap_in", "snap_out"}
    BY <1>9, <1>10 DEF CallFence, ReturnFromFence
  <2>2. CopyAt(t)'
    BY <1>4, <2>1 DEF CopyAt
  <2>3. ~WriteFunctor(t) /\ ~CopyOut(t)
    BY <1>10 DEF CallFence, ReturnFromFence, WriteFunctor, CopyOut
  <2> QED  BY <1>5, <1>6, <1>7, <2>2, <2>3
<1>11. CASE \/ TakeSnapshot(t, "snap_in", "create")
            \/ TakeSnapshot(t, "snap_out", "append")
  <2>1. pc'[t] \in {"create", "append"} /\ snap'[t] = Snapshot
    BY <1>9, <1>11 DEF TakeSnapshot
  <2>2. views[t] \subseteq Snapshot
    BY <1>2, SnapshotOfViews
  <2>3. CopyAt(t)'
    BY <1>1, <1>4, <2>1, <2>2 DEF CopyAt
  <2>4. ~WriteFunctor(t) /\ ~CopyOut(t)
    BY <1>11 DEF TakeSnapshot, WriteFunctor, CopyOut
  <2> QED  BY <1>5, <1>6, <1>7, <2>3, <2>4
<1>12. CASE create_kernel_dump(t)
  <2>1. pc[t] = "create" /\ pc'[t] = "copy_in" /\ todo'[t] = snap[t]
    BY <1>9, <1>12 DEF create_kernel_dump
  <2>2. CopyAt(t)'
    BY <1>1, <1>3, <1>4, <2>1 DEF CopyAt
  <2>3. ~WriteFunctor(t) /\ ~CopyOut(t)
    BY <2>1 DEF WriteFunctor, CopyOut
  <2> QED  BY <1>5, <1>6, <1>7, <2>2, <2>3
<1>13. CASE CopyIn(t)
  <2>1. pc[t] = "copy_in"
        /\ \A w \in views[t] : w \in todo[t] \/ InputHeld(t, w)
    BY <1>3, <1>13 DEF CopyIn, CopyAt
  <2>2. ~WriteFunctor(t) /\ ~CopyOut(t)
    BY <2>1 DEF WriteFunctor, CopyOut
  <2>3. CopyAt(t)'
    <3>1. ASSUME NEW v \in todo[t],
                 dumps' = [dumps EXCEPT ![id[t]].in = Put(@, v, mem[v])],
                 todo' = [todo EXCEPT ![t] = @ \ {v}], UNCHANGED pc
          PROVE  CopyAt(t)'
      <4>1. dumps'[id[t]].in = Put(dumps[id[t]].in, v, mem[v])
        BY <1>8, <2>1, <3>1 DEF Dump
      <4>2. ASSUME NEW w \in views[t] PROVE w \in todo'[t] \/ InputHeld(t, w)'
        <5>1. CASE w # v
          BY <1>1, <1>9, <2>1, <3>1, <4>1, <5>1 DEF InputHeld, Put
        <5>2. CASE w = v
          <6>1. mem[v] = selected.before[v]
            <7>1. mem[v] = issued[v]
              BY <2>1, <4>2, <5>2, FencedMemory DEF Copying
            <7> QED
              BY <1>3, <2>1, <4>2, <5>2, <7>1 DEF CopyAt, Beginning
          <6> QED  BY <1>1, <4>1, <5>2, <6>1 DEF InputHeld, Put
        <5> QED  BY <5>1, <5>2
      <4> QED  BY <1>1, <1>4, <2>1, <3>1, <4>2 DEF CopyAt
    <3>2. ASSUME todo[t] = {}, pc'[t] = "write_policy", UNCHANGED dumps
          PROVE  CopyAt(t)'
      BY <1>1, <1>4, <2>1, <3>2 DEF CopyAt, InputHeld
    <3> QED  BY <1>9, <1>13, <3>1, <3>2 DEF CopyIn
  <2> QED  BY <1>5, <1>6, <1>7, <2>2, <2>3
<1>14. CASE WritePolicy(t)
  <2>1. pc[t] = "write_policy" /\ pc'[t] = "write_functor"
        /\ dumps' = [dumps EXCEPT ![id[t]].policy = policy]
    BY <1>9, <1>14 DEF WritePolicy
  <2>2. dumps'[id[t]].in = dumps[id[t]].in
    BY <1>8, <2>1 DEF Dump
  <2>3. CopyAt(t)'
    BY <1>1, <1>3, <1>4, <2>1, <2>2 DEF CopyAt, InputHeld
  <2>4. ~WriteFunctor(t) /\ ~CopyOut(t)
    BY <2>1 DEF WriteFunctor, CopyOut
  <2> QED  BY <1>5, <1>6, <1>7, <2>3, <2>4
<1>15. CASE WriteFunctor(t)
  <2>1. pc[t] = "write_functor" /\ pc'[t] = "record"
        /\ dumps' = [dumps EXCEPT ![id[t]].functor = functor_data,
                                  ![id[t]].state = "in"]
    BY <1>9, <1>15 DEF WriteFunctor
  <2>2. DOMAIN dumps' = {id[t]} /\ dumps'[id[t]].in = dumps[id[t]].in
    BY <1>8, <2>1 DEF Dump
  <2>3. \A v \in views[t] : InputHeld(t, v)
    BY <1>3, <2>1 DEF CopyAt
  <2>4. DumpHoldsInputs'
    BY <1>1, <1>3, <2>2, <2>3 DEF DumpHoldsInputs, InputHeld
  <2>5. CopyAt(t)' /\ ~CopyOut(t)
    BY <1>4, <2>1 DEF CopyAt, CopyOut
  <2> QED  BY <1>6, <1>7, <2>4, <2>5
<1>16. CASE append_kernel_output(t)
  <2>1. pc[t] = "append" /\ pc'[t] = "copy_out" /\ todo'[t] = snap[t]
    BY <1>9, <1>16 DEF append_kernel_output
  <2>2. CopyAt(t)'
    BY <1>1, <1>3, <1>4, <2>1 DEF CopyAt
  <2>3. ~WriteFunctor(t) /\ ~CopyOut(t)
    BY <2>1 DEF WriteFunctor, CopyOut
  <2> QED  BY <1>5, <1>6, <1>7, <2>2, <2>3
<1>17. CASE CopyOut(t)
  <2>1. pc[t] = "copy_out"
        /\ \A w \in views[t] : w \in todo[t] \/ OutputHeld(t, w)
    BY <1>3, <1>17 DEF CopyOut, CopyAt
  <2>2. ~WriteFunctor(t)
    BY <2>1 DEF WriteFunctor
  <2>3. DOMAIN dumps = {id[t]} /\ dumps[id[t]] \in Dump
        /\ dumps[id[t]].state = "writing_out"
    BY <1>1, <2>1, FileAt DEF FileStateAt
  <2>4. ASSUME NEW v \in todo[t],
               dumps' = [dumps EXCEPT ![id[t]].out = Put(@, v, mem[v])],
               todo' = [todo EXCEPT ![t] = @ \ {v}], UNCHANGED pc
        PROVE  CopyInv'
    <3>1. /\ dumps'[id[t]].out = Put(dumps[id[t]].out, v, mem[v])
          /\ DOMAIN dumps' = {id[t]} /\ dumps'[id[t]].state = "writing_out"
      BY <2>3, <2>4 DEF Dump
    <3>2. ASSUME NEW w \in views[t] PROVE w \in todo'[t] \/ OutputHeld(t, w)'
      <4>1. CASE w # v
        BY <1>1, <1>4, <1>9, <2>1, <2>4, <3>1, <4>1 DEF OutputHeld, Put
      <4>2. CASE w = v
        <5>1. mem[v] = issued[v]
          BY <2>1, <3>2, <4>2, FencedMemory DEF Copying
        <5>2. issued[v] = This(t)
          BY <2>1, <3>2, <4>2 DEF HeapInv, Ran, Ending
        <5> QED  BY <1>1, <1>4, <3>1, <4>2, <5>1, <5>2 DEF OutputHeld, Put
      <4> QED  BY <4>1, <4>2
    <3>3. CopyAt(t)'
      BY <1>1, <1>4, <2>1, <2>4, <3>2 DEF CopyAt
    <3>4. DumpHoldsOutputs'
      BY <3>1 DEF DumpHoldsOutputs
    <3> QED  BY <1>5, <1>7, <2>2, <3>3, <3>4
  <2>5. ASSUME todo[t] = {}, pc'[t] = "app",
               dumps' = [dumps EXCEPT ![id[t]].state = "complete"]
        PROVE  CopyInv'
    <3>1. DOMAIN dumps' = {id[t]} /\ dumps'[id[t]].out = dumps[id[t]].out
      BY <2>3, <2>5 DEF Dump
    <3>2. \A v \in views[t] : OutputHeld(t, v)
      BY <2>1, <2>5
    <3>3. DumpHoldsOutputs'
      BY <1>1, <1>2, <1>3, <3>1, <3>2 DEF DumpHoldsOutputs, OutputHeld
    <3>4. CopyAt(t)'
      BY <1>4, <2>5 DEF CopyAt, Beginning, Ending
    <3> QED  BY <1>5, <1>7, <2>2, <3>3, <3>4
  <2> QED  BY <1>9, <1>17, <2>4, <2>5 DEF CopyOut
<1>18. CASE FailIn(t) \/ FailOut(t)
  <2>1. pc'[t] \in {"dispatch", "app"}
    BY <1>9, <1>18 DEF FailIn, FailOut
  <2>2. CopyAt(t)'
    BY <1>4, <2>1 DEF CopyAt
  <2>3. ~WriteFunctor(t)
    BY <1>9, <2>1 DEF WriteFunctor
  <2>4. CASE CopyOut(t)
    BY <1>17, <2>4
  <2>5. CASE ~CopyOut(t)
    BY <1>5, <1>6, <1>7, <2>2, <2>3, <2>5
  <2> QED  BY <2>4, <2>5
<1> QED
  BY <1>10, <1>11, <1>12, <1>13, <1>14, <1>15, <1>16, <1>17, <1>18
     DEF DumpStep

-----------------------------------------------------------------------------
(* Only the Views of the kernel.                                           *)

LEMMA NarrowStep ==
  ASSUME NarrowInv, NEW t \in Thread, Keeps(t), NarrowAt(t)'
  PROVE  NarrowInv'
<1>1. ASSUME NEW s \in Thread, s # t PROVE NarrowAt(s)'
  BY <1>1 DEF NarrowInv, NarrowAt, Keeps
<1> QED  BY <1>1 DEF NarrowInv

LEMMA HookNarrow ==
  ASSUME NarrowInv, NEW t \in Thread, Keeps(t),
         pc'[t] \notin {"create", "append", "copy_in", "copy_out"}
  PROVE  NarrowInv'
  BY NarrowStep DEF NarrowAt

LEMMA DumpNarrow ==
  ASSUME TypeOK, HookInv, HeapInv, HasCompilerPlugins, StageInv, NarrowInv,
         NEW t \in Thread, DumpStep(t)
  PROVE  NarrowInv'
<1>1. /\ Writing(t) /\ Keeps(t) /\ UNCHANGED views /\ NarrowAt(t)
      /\ pc \in [Thread -> Pc] /\ snap \in [Thread -> SUBSET View]
      /\ todo \in [Thread -> SUBSET View]
  BY DumpMoves, DumpKeeps
     DEF Writing, TypeOK, AppTypeOK, LocalTypeOK, NarrowInv
<1>2. CASE \/ TakeSnapshot(t, "snap_in", "create")
           \/ TakeSnapshot(t, "snap_out", "append")
  <2>1. snap'[t] \subseteq views[t] /\ pc'[t] \in {"create", "append"}
    BY <1>1, <1>2, SnapshotOfViews DEF TakeSnapshot
  <2> QED  BY <1>1, <2>1, NarrowStep DEF NarrowAt
<1>3. CASE create_kernel_dump(t) \/ append_kernel_output(t)
  <2>1. /\ todo'[t] = snap[t] /\ snap[t] \subseteq views[t]
        /\ pc'[t] \in {"copy_in", "copy_out"}
    BY <1>1, <1>3 DEF create_kernel_dump, append_kernel_output, NarrowAt
  <2> QED  BY <1>1, <2>1, NarrowStep DEF NarrowAt
<1>4. CASE CopyIn(t) \/ CopyOut(t)
  <2>1. /\ todo'[t] \subseteq todo[t] /\ todo[t] \subseteq views[t]
        /\ pc'[t] \in {"copy_in", "write_policy", "copy_out", "app"}
    BY <1>1, <1>4 DEF CopyIn, CopyOut, NarrowAt
  <2> QED  BY <1>1, <2>1, NarrowStep DEF NarrowAt
<1>5. CASE \/ CallFence(t, "fence_in", "wait_in")
           \/ CallFence(t, "fence_out", "wait_out")
           \/ ReturnFromFence(t, "wait_in", "snap_in")
           \/ ReturnFromFence(t, "wait_out", "snap_out")
  BY <1>1, <1>5, HookNarrow DEF CallFence, ReturnFromFence
<1>6. CASE WritePolicy(t) \/ WriteFunctor(t) \/ FailIn(t) \/ FailOut(t)
  BY <1>1, <1>6, HookNarrow DEF WritePolicy, WriteFunctor, FailIn, FailOut
<1> QED  BY <1>2, <1>3, <1>4, <1>5, <1>6 DEF DumpStep

-----------------------------------------------------------------------------
(* One thread.                                                             *)

LEMMA HookAlone ==
  ASSUME AloneThread, NEW t \in Thread,
         pc'[t] \notin {"create", "append", "copy_in", "copy_out"}
  PROVE  AloneInv'
  BY DEF AloneThread, AloneInv, LiveAt

LEMMA AloneOutside ==
  ASSUME AloneInv, UNCHANGED <<pc, snap, todo, heap>>
  PROVE  AloneInv'
  BY DEF AloneInv, LiveAt, Reported

LEMMA ViewStepAlone ==
  ASSUME AloneThread, NEW t \in Thread, ViewStep(t)
  PROVE  AloneInv'
  BY HookAlone DEF ViewStep

LEMMA DumpAlone ==
  ASSUME TypeOK, HookInv, AloneThread, AloneInv,
         NEW t \in Thread, DumpStep(t)
  PROVE  AloneInv'
<1>1. /\ UNCHANGED heap /\ Reported' = Reported /\ LiveAt(t)
      /\ pc \in [Thread -> Pc] /\ snap \in [Thread -> SUBSET View]
      /\ todo \in [Thread -> SUBSET View]
  BY DumpMoves DEF Reported, TypeOK, AppTypeOK, LocalTypeOK, AloneInv
<1>2. ASSUME LiveAt(t)' PROVE AloneInv'
  BY <1>2 DEF AloneThread, AloneInv, LiveAt
<1>3. CASE \/ TakeSnapshot(t, "snap_in", "create")
           \/ TakeSnapshot(t, "snap_out", "append")
  <2>1. snap'[t] \subseteq Reported /\ pc'[t] \in {"create", "append"}
    BY <1>1, <1>3 DEF TakeSnapshot, Snapshot
  <2> QED  BY <1>1, <1>2, <2>1 DEF LiveAt
<1>4. CASE create_kernel_dump(t) \/ append_kernel_output(t)
  <2>1. /\ todo'[t] = snap[t] /\ snap[t] \subseteq Reported
        /\ pc'[t] \in {"copy_in", "copy_out"}
    BY <1>1, <1>4 DEF create_kernel_dump, append_kernel_output, LiveAt
  <2> QED  BY <1>1, <1>2, <2>1 DEF LiveAt
<1>5. CASE CopyIn(t) \/ CopyOut(t)
  <2>1. /\ todo'[t] \subseteq todo[t] /\ todo[t] \subseteq Reported
        /\ pc'[t] \in {"copy_in", "write_policy", "copy_out", "app"}
    BY <1>1, <1>5 DEF CopyIn, CopyOut, LiveAt
  <2> QED  BY <1>1, <1>2, <2>1 DEF LiveAt
<1>6. CASE \/ CallFence(t, "fence_in", "wait_in")
           \/ CallFence(t, "fence_out", "wait_out")
           \/ ReturnFromFence(t, "wait_in", "snap_in")
           \/ ReturnFromFence(t, "wait_out", "snap_out")
  BY <1>1, <1>6, HookAlone DEF CallFence, ReturnFromFence
<1>7. CASE WritePolicy(t) \/ WriteFunctor(t) \/ FailIn(t) \/ FailOut(t)
  BY <1>1, <1>7, HookAlone DEF WritePolicy, WriteFunctor, FailIn, FailOut
<1> QED  BY <1>3, <1>4, <1>5, <1>6, <1>7 DEF DumpStep

-----------------------------------------------------------------------------
(* The invariant.                                                          *)

LEMMA InitDataInv == Init => DataInv
<1> SUFFICES ASSUME Init PROVE DataInv
  OBVIOUS
<1>1. /\ \A t \in Thread : pc[t] = "app" /\ views[t] = {}
      /\ pending = {} /\ DOMAIN dumps = {}
      /\ binding = "unset" /\ policy = NoLaunch
      /\ \A v \in View : mem[v] = issued[v]
  BY DEF Init
<1>2. \A t \in Thread : ~Writing(t) /\ ~ToBeDumped(t)
  BY <1>1 DEF Writing, ToBeDumped, Beginning, Ending
<1>3. StageInv
  <2>1. ASSUME NEW t \in Thread PROVE StageAt(t)
    BY <1>1, <1>2
       DEF StageAt, LaunchOf, PathOf, StagedFor, Staging
  <2> QED  BY <1>1, <2>1 DEF StageInv, DumpHoldsItsKernel
<1>4. HeapInv
  <2>1. \A v : v \notin Held
    BY <1>1, HeldBy
  <2> QED  BY <1>1, <2>1 DEF HeapInv, Ran, Ending
<1>5. FenceInv
  BY <1>1 DEF FenceInv, FenceAt
<1>6. CopyInv
  <2>1. ASSUME NEW t \in Thread PROVE CopyAt(t)
    BY <1>1, <1>2 DEF CopyAt, Beginning
  <2> QED  BY <1>1, <2>1 DEF CopyInv, DumpHoldsInputs, DumpHoldsOutputs
<1>7. NarrowInv
  BY <1>1 DEF NarrowInv, NarrowAt
<1>8. AloneInv
  BY <1>1 DEF AloneInv, LiveAt
<1> QED  BY <1>3, <1>4, <1>5, <1>6, <1>7, <1>8 DEF DataInv

(* The step of a thread in the extractor, or at a hook that is not writing *)
(* the dump, leaves the copies alone.                                      *)
LEMMA ExtractorData ==
  ASSUME TypeOK, HookInv, DataInv, NEW t \in Thread, ExtractorStep(t)
  PROVE  DataInv'
<1>1. /\ Keeps(t) /\ pc[t] # "app"
      /\ UNCHANGED <<launch, views, heap, mem, issued, pending, selected, dumps>>
      /\ pc'[t] \in Staging \cup {"begin"}
  <2>1. pc \in [Thread -> Pc]
    BY DEF TypeOK, AppTypeOK
  <2> QED
    BY <2>1, ExtractorKeeps
       DEF ExtractorStep, parallel_for, register_bounds, replay_functor,
           clear_registered_views, register_view, copy_functor, Staging
<1>2. StagedByOneThread => StageInv'
  BY ExtractorStage DEF DataInv
<1>3. HeapInv'
  BY <1>1, HookHeap DEF DataInv, Ran, Ending, Staging
<1>4. ToolHasFence => FenceInv'
  BY <1>1, HookFence DEF DataInv, Copying, Staging
<1>5. ~Writing(t)' /\ pc'[t] \notin Beginning \cup {"append", "copy_out"}
  BY <1>1 DEF Writing, Beginning, Ending, Staging
<1>6. CopiesKernelViews => CopyInv'
  BY <1>1, <1>5, QuietCopy DEF DataInv
<1>7. HasCompilerPlugins /\ StagedByOneThread => NarrowInv'
  BY <1>1, HookNarrow DEF DataInv, Staging
<1>8. AloneThread => AloneInv'
  BY <1>1, HookAlone DEF DataInv, Staging
<1> QED  BY <1>2, <1>3, <1>4, <1>6, <1>7, <1>8 DEF DataInv

LEMMA FetchData ==
  ASSUME TypeOK, HookInv, DataInv, NEW t \in Thread, FetchKernelId(t)
  PROVE  DataInv'
<1>1. /\ Keeps(t) /\ pc[t] = "begin" /\ pc'[t] = "count"
      /\ UNCHANGED <<launch, views, heap, mem, issued, pending, selected, dumps>>
  BY HookKeeps DEF FetchKernelId, TypeOK, AppTypeOK
<1>2. StagedByOneThread => StageInv'
  BY FetchStage DEF DataInv
<1>3. HeapInv'
  BY <1>1, HookHeap DEF DataInv, Ran, Ending
<1>4. ToolHasFence => FenceInv'
  BY <1>1, HookFence DEF DataInv, Copying
<1>5. ~Writing(t)' /\ pc'[t] \notin Beginning
  BY <1>1 DEF Writing, Beginning, Ending
<1>6. CopiesKernelViews => CopyInv'
  BY <1>1, <1>5, QuietCopy DEF DataInv
<1>7. HasCompilerPlugins /\ StagedByOneThread => NarrowInv'
  BY <1>1, HookNarrow DEF DataInv
<1>8. AloneThread => AloneInv'
  BY <1>1, HookAlone DEF DataInv
<1> QED  BY <1>2, <1>3, <1>4, <1>6, <1>7, <1>8 DEF DataInv

LEMMA CountData ==
  ASSUME TypeOK, HookInv, DataInv, NEW t \in Thread, CountInvocation(t)
  PROVE  DataInv'
<1>1. /\ Keeps(t) /\ pc[t] = "count" /\ pc'[t] \in {"fence_in", "dispatch"}
      /\ UNCHANGED <<launch, views, heap, mem, issued, pending>>
  BY HookKeeps DEF CountInvocation, TypeOK, AppTypeOK
<1>2. StagedByOneThread => StageInv'
  BY CountStage DEF DataInv
<1>3. HeapInv'
  BY <1>1, HookHeap DEF DataInv, Ran, Ending
<1>4. ToolHasFence => FenceInv'
  BY <1>1, HookFence DEF DataInv, Copying
<1>5. CopiesKernelViews => CopyInv'
  BY CountCopy DEF DataInv
<1>6. HasCompilerPlugins /\ StagedByOneThread => NarrowInv'
  BY <1>1, HookNarrow DEF DataInv
<1>7. AloneThread => AloneInv'
  BY <1>1, HookAlone DEF DataInv
<1> QED  BY <1>2, <1>3, <1>4, <1>5, <1>6, <1>7 DEF DataInv

LEMMA DumpData ==
  ASSUME TypeOK, HookInv, DataInv, NEW t \in Thread, DumpStep(t)
  PROVE  DataInv'
<1>1. StagedByOneThread => StageInv'
  BY DumpStage DEF DataInv
<1>2. HeapInv'
  <2>1. /\ Keeps(t)
        /\ UNCHANGED <<launch, views, heap, mem, issued, pending>>
        /\ pc[t] \in Beginning \cup Ending
        /\ pc[t] \in Beginning => pc'[t] \in Beginning \cup {"dispatch"}
    BY DumpKeeps, DumpMoves
  <2>2. pc[t] # "app" /\ (pc'[t] \in Ran => pc[t] \in Ran)
    BY <2>1 DEF Ran, Beginning, Ending
  <2> QED  BY <2>1, <2>2, HookHeap DEF DataInv
<1>3. ToolHasFence => FenceInv'
  BY DumpFence DEF DataInv
<1>4. CopiesKernelViews => CopyInv'
  BY DumpCopy DEF DataInv, CopiesKernelViews
<1>5. HasCompilerPlugins /\ StagedByOneThread => NarrowInv'
  BY DumpNarrow DEF DataInv
<1>6. AloneThread => AloneInv'
  BY DumpAlone DEF DataInv
<1> QED  BY <1>1, <1>2, <1>3, <1>4, <1>5, <1>6 DEF DataInv

LEMMA RecordData ==
  ASSUME TypeOK, HookInv, DataInv, NEW t \in Thread, RecordDumpPath(t)
  PROVE  DataInv'
<1>1. /\ Keeps(t) /\ pc[t] = "record" /\ pc'[t] = "dispatch"
      /\ UNCHANGED <<launch, views, heap, mem, issued, pending, selected, dumps>>
  BY HookKeeps DEF RecordDumpPath, TypeOK, AppTypeOK
<1>2. StagedByOneThread => StageInv'
  BY RecordStage DEF DataInv
<1>3. HeapInv'
  BY <1>1, HookHeap DEF DataInv, Ran, Ending
<1>4. ToolHasFence => FenceInv'
  BY <1>1, HookFence DEF DataInv, Copying
<1>5. Writing(t) /\ pc'[t] \notin Beginning
  BY <1>1 DEF Writing, Beginning
<1>6. CopiesKernelViews => CopyInv'
  BY <1>1, <1>5, QuietCopy DEF DataInv
<1>7. HasCompilerPlugins /\ StagedByOneThread => NarrowInv'
  BY <1>1, HookNarrow DEF DataInv
<1>8. AloneThread => AloneInv'
  BY <1>1, HookAlone DEF DataInv
<1> QED  BY <1>2, <1>3, <1>4, <1>6, <1>7, <1>8 DEF DataInv

LEMMA DispatchData ==
  ASSUME TypeOK, HookInv, DataInv, NEW t \in Thread, Dispatch(t)
  PROVE  DataInv'
<1>1. Keeps(t) /\ pc'[t] = "end"
  BY HookKeeps DEF Dispatch, TypeOK, AppTypeOK
<1>2. StagedByOneThread => StageInv'
  BY DispatchStage DEF DataInv
<1>3. HeapInv'
  BY DispatchHeap DEF DataInv
<1>4. ToolHasFence => FenceInv'
  BY DispatchFence DEF DataInv
<1>5. CopiesKernelViews => CopyInv'
  BY DispatchCopy DEF DataInv
<1>6. HasCompilerPlugins /\ StagedByOneThread => NarrowInv'
  BY <1>1, HookNarrow DEF DataInv
<1>7. AloneThread => AloneInv'
  BY <1>1, HookAlone DEF DataInv
<1> QED  BY <1>2, <1>3, <1>4, <1>5, <1>6, <1>7 DEF DataInv

LEMMA EndData ==
  ASSUME TypeOK, HookInv, DataInv, NEW t \in Thread, end_kernel(t)
  PROVE  DataInv'
<1>1. /\ Keeps(t) /\ pc[t] = "end" /\ pc'[t] \in {"fence_out", "app"}
      /\ pc'[t] = "fence_out" => kernel_states[id[t]].dump_path
      /\ UNCHANGED <<launch, views, heap, mem, issued, pending, selected, dumps>>
  BY HookKeeps DEF end_kernel, TypeOK, AppTypeOK
<1>2. StagedByOneThread => StageInv'
  BY DispatchStage DEF DataInv
<1>3. HeapInv'
  BY <1>1, HookHeap DEF DataInv, Ran
<1>4. ToolHasFence => FenceInv'
  BY <1>1, HookFence DEF DataInv, Copying
<1>5. (Writing(t)' => Writing(t))
      /\ pc'[t] \notin Beginning \cup {"append", "copy_out"}
  BY <1>1 DEF Writing, Beginning, Ending
<1>6. CopiesKernelViews => CopyInv'
  BY <1>1, <1>5, QuietCopy DEF DataInv
<1>7. HasCompilerPlugins /\ StagedByOneThread => NarrowInv'
  BY <1>1, HookNarrow DEF DataInv
<1>8. AloneThread => AloneInv'
  BY <1>1, HookAlone DEF DataInv
<1> QED  BY <1>2, <1>3, <1>4, <1>6, <1>7, <1>8 DEF DataInv

LEMMA LaunchData ==
  ASSUME TypeOK, HookInv, DataInv, NEW t \in Thread, StartLaunch(t)
  PROVE  DataInv'
<1>1. PICK l \in LabelsOf[t] :
        pc' = [pc EXCEPT ![t] = CASE ModeOf[l] = "krepe"   -> "ask"
                                  [] ModeOf[l] = "functor" -> "replay"
                                  [] ModeOf[l] = "plain"   -> "begin"]
  BY DEF StartLaunch
<1>2. ModeOf[l] \in {"krepe", "functor", "plain"}
  BY CaptureAssumption
<1>3. /\ Keeps(t) /\ pc'[t] \in {"ask", "replay", "begin"}
      /\ UNCHANGED pending
  BY <1>1, <1>2, LaunchKeeps DEF StartLaunch, TypeOK, AppTypeOK
<1>4. StagedByOneThread => StageInv'
  BY LaunchStage DEF DataInv
<1>5. HeapInv'
  BY LaunchHeap DEF DataInv
<1>6. ToolHasFence => FenceInv'
  BY <1>3, HookFence DEF DataInv, Copying
<1>7. CopiesKernelViews => CopyInv'
  BY LaunchCopy DEF DataInv
<1>8. HasCompilerPlugins /\ StagedByOneThread => NarrowInv'
  BY <1>3, HookNarrow DEF DataInv
<1>9. AloneThread => AloneInv'
  BY <1>3, HookAlone DEF DataInv
<1> QED  BY <1>4, <1>5, <1>6, <1>7, <1>8, <1>9 DEF DataInv

LEMMA ViewStepData ==
  ASSUME TypeOK, HookInv, DataInv, NEW t \in Thread, ViewStep(t)
  PROVE  DataInv'
<1>1. UNCHANGED <<pc, appVars, pending, loaded, binding, countVars, stageVars,
                  localVars, dumps, selected>>
  BY DEF ViewStep
<1>2. StagedByOneThread => StageInv'
  BY <1>1, StageOutside DEF DataInv, StageInv
<1>3. HeapInv'
  BY ViewStepHeap DEF DataInv
<1>4. ToolHasFence => FenceInv'
  BY <1>1, FenceOutside DEF DataInv
<1>5. CopiesKernelViews => CopyInv'
  BY ViewStepCopy DEF DataInv
<1>6. HasCompilerPlugins /\ StagedByOneThread => NarrowInv'
  BY <1>1 DEF DataInv, NarrowInv, NarrowAt
<1>7. AloneThread => AloneInv'
  BY ViewStepAlone DEF DataInv
<1> QED  BY <1>2, <1>3, <1>4, <1>5, <1>6, <1>7 DEF DataInv

LEMMA ExecuteData ==
  ASSUME TypeOK, HookInv, DataInv, NEW k \in pending, Execute(k)
  PROVE  DataInv'
<1>1. /\ UNCHANGED <<pc, appVars, heap, issued, loaded, binding, countVars,
                     stageVars, localVars, dumps, selected>>
      /\ pending' \subseteq pending
  BY DEF Execute
<1>2. StagedByOneThread => StageInv'
  BY <1>1, StageOutside DEF DataInv, StageInv
<1>3. HeapInv'
  BY ExecuteHeap DEF DataInv
<1>4. ToolHasFence => FenceInv'
  BY <1>1, FenceOutside DEF DataInv
<1>5. CopiesKernelViews => CopyInv'
  BY <1>1, CopyOutside DEF DataInv
<1>6. HasCompilerPlugins /\ StagedByOneThread => NarrowInv'
  BY <1>1 DEF DataInv, NarrowInv, NarrowAt
<1>7. AloneThread => AloneInv'
  BY <1>1, AloneOutside DEF DataInv
<1> QED  BY <1>2, <1>3, <1>4, <1>5, <1>6, <1>7 DEF DataInv

(* Loading the tool, finding it, or nothing.                               *)
LEMMA OutsideData ==
  ASSUME TypeOK, DataInv,
         UNCHANGED <<pc, appVars, heap, mem, issued, pending, countVars,
                     stageVars, localVars, dumps, selected>>,
         loaded => loaded',
         StagedByOneThread /\ binding # "none" => binding' # "none"
  PROVE  DataInv'
<1>1. StagedByOneThread => StageInv'
  BY StageOutside DEF DataInv, StageInv
<1>2. HeapInv'
  BY HeapOutside DEF DataInv
<1>3. ToolHasFence => FenceInv'
  BY FenceOutside DEF DataInv
<1>4. CopiesKernelViews => CopyInv'
  BY CopyOutside DEF DataInv
<1>5. HasCompilerPlugins /\ StagedByOneThread => NarrowInv'
  BY DEF DataInv, NarrowInv, NarrowAt
<1>6. AloneThread => AloneInv'
  BY AloneOutside DEF DataInv
<1> QED  BY <1>1, <1>2, <1>3, <1>4, <1>5, <1>6 DEF DataInv

LEMMA NextDataInv == IInv /\ DataInv /\ [Next]_vars => DataInv'
<1> SUFFICES ASSUME TypeOK, HookInv, DataInv, [Next]_vars PROVE DataInv'
  BY DEF IInv
<1>1. CASE UNCHANGED vars
  BY <1>1, OutsideData DEF vars
<1>2. CASE Initialize
  BY <1>2, OutsideData DEF Initialize
<1>3. CASE add_metadata
  <2>1. StagedByOneThread /\ binding # "none" => binding' # "none"
    BY <1>3 DEF add_metadata, init_internal_functions, StagedByOneThread
  <2> QED  BY <1>3, <2>1, OutsideData DEF add_metadata
<1>4. CASE \E k \in pending : Execute(k)
  BY <1>4, ExecuteData
<1>5. ASSUME NEW t \in Thread, ViewStep(t) PROVE DataInv'
  BY <1>5, ViewStepData
<1>6. ASSUME NEW t \in Thread, StartLaunch(t) PROVE DataInv'
  BY <1>6, LaunchData
<1>7. ASSUME NEW t \in Thread, InLaunch(t) \/ FailIn(t) \/ FailOut(t)
      PROVE  DataInv'
  <2>1. \/ ExtractorStep(t) \/ FetchKernelId(t) \/ CountInvocation(t)
        \/ DumpStep(t) \/ RecordDumpPath(t) \/ Dispatch(t) \/ end_kernel(t)
    BY <1>7 DEF InLaunch, ExtractorStep, DumpStep
  <2> QED
    BY <2>1, ExtractorData, FetchData, CountData, DumpData, RecordData,
       DispatchData, EndData
<1> QED  BY <1>1, <1>2, <1>3, <1>4, <1>5, <1>6, <1>7 DEF Next

LEMMA DataInductive == Spec => []DataInv
<1> QED  BY Inductive, InitDataInv, NextDataInv, PTL DEF Spec

(* The functor and the policy in a dump are those of the launch that was   *)
(* counted (kernel_extractor.hpp stages them, begin_kernel writes them),   *)
(* when one thread stages and the tool is looked for after it was loaded.  *)
THEOREM KernelAlways == Spec => [](StagedByOneThread => DumpHoldsItsKernel)
<1>1. DataInv => (StagedByOneThread => DumpHoldsItsKernel)
  BY DEF DataInv, StageInv
<1> QED  BY <1>1, DataInductive, PTL

(* The input part of a dump holds the Views of the kernel as all the work  *)
(* issued before its launch left them: begin_kernel waits for the device   *)
(* and the Views are still there when their bytes are copied.              *)
THEOREM InputsAlways == Spec => [](CopiesKernelViews => DumpHoldsInputs)
<1>1. DataInv => (CopiesKernelViews => DumpHoldsInputs)
  BY DEF DataInv, CopyInv
<1> QED  BY <1>1, DataInductive, PTL

(* The output part holds them as the kernel left them (end_kernel).        *)
THEOREM OutputsAlways == Spec => [](CopiesKernelViews => DumpHoldsOutputs)
<1>1. DataInv => (CopiesKernelViews => DumpHoldsOutputs)
  BY DEF DataInv, CopyInv
<1> QED  BY <1>1, DataInductive, PTL

(* Bytes are copied only from memory Kokkos has not given back, although   *)
(* the tracker's mutex_ is released before the copy (view_dump.cpp): with  *)
(* the compiler plugins it is the memory of Views the kernel still holds,  *)
(* and a thread that is alone frees nothing meanwhile.                     *)
THEOREM CopiesLiveAlways == Spec => [](CopiesSafe => CopiesLiveMemory)
<1>1. TypeOK /\ DataInv => (CopiesSafe => CopiesLiveMemory)
  <2> SUFFICES ASSUME TypeOK, DataInv, CopiesSafe,
                      NEW t \in Thread, pc[t] \in {"copy_in", "copy_out"},
                      NEW v \in todo[t]
               PROVE  heap[v] \in {"live", "dying"}
    BY DEF CopiesLiveMemory
  <2>1. CASE AloneThread
    BY <2>1 DEF DataInv, AloneInv, LiveAt, Reported
  <2>2. CASE HasCompilerPlugins /\ StagedByOneThread
    <3>1. v \in views[t]
      BY <2>2 DEF DataInv, NarrowInv, NarrowAt
    <3>2. v \in Held
      BY <3>1, HeldBy
    <3> QED  BY <3>2 DEF DataInv, HeapInv
  <2> QED  BY <2>1, <2>2 DEF CopiesSafe
<1> QED  BY <1>1, DataInductive, CaptureTypeOK, PTL
=============================================================================
