------------------------- MODULE KernelCaptureProps -------------------------
(* What the capture of a kernel promises.                                  *)
EXTENDS KernelCapture

AppTypeOK ==
  /\ pc \in [Thread -> Pc]
  /\ launch \in [Thread -> 0 .. MaxLaunches]
  /\ label \in [Thread -> Label]
  /\ views \in [Thread -> SUBSET View]

KokkosTypeOK ==
  /\ heap \in [View -> Phase]
  /\ mem \in Contents
  /\ issued \in Contents
  /\ pending \in SUBSET Kernel
  /\ loaded \in BOOLEAN
  /\ binding \in {"unset", "tool", "none"}

CountTypeOK ==
  /\ next_kernel_id \in Nat
  /\ kernel_invocations \in [Label -> Nat]
  /\ DOMAIN kernel_states \subseteq Nat
  /\ \A i \in DOMAIN kernel_states : kernel_states[i] \in KernelState

StageTypeOK ==
  /\ functor_data \in MaybeLaunch
  /\ policy \in MaybeLaunch
  /\ used_allocations \in SUBSET View

LocalTypeOK ==
  /\ id \in [Thread -> Nat]
  /\ snap \in [Thread -> SUBSET View]
  /\ todo \in [Thread -> SUBSET View]
  /\ awaited \in [Thread -> SUBSET Kernel]

DumpTypeOK ==
  /\ DOMAIN dumps \subseteq Nat
  /\ \A i \in DOMAIN dumps : dumps[i] \in Dump
  /\ selected \in Selected \cup {NotSelected}

(* A thread that is not between launches is in one of its launches.        *)
LaunchStarted == \A t \in Thread : pc[t] # "app" => launch[t] # 0

TypeOK ==
  /\ AppTypeOK
  /\ KokkosTypeOK
  /\ CountTypeOK
  /\ StageTypeOK
  /\ LocalTypeOK
  /\ DumpTypeOK
  /\ LaunchStarted

(* A run writes at most one dump, of the invocation that was asked for     *)
(* (tests/launcher.sh expects exactly one file), however many threads      *)
(* launch kernels with that label.                                         *)
AtMostOneDump ==
  /\ \A i, j \in DOMAIN dumps : i = j
  /\ \A i \in DOMAIN dumps : /\ dumps[i].label = DumpLabel
                             /\ dumps[i].invocation = DumpInvocation

(* A dump whose input part is complete.                                    *)
HasInput(d) == d.state \notin {"writing_in", "failed_in"}

(* The policy and the functor in the dump are those of the launch that was *)
(* counted, although they are staged by other calls than the one that      *)
(* writes them, in globals without a lock; there is no policy when the     *)
(* application calls replay_functor itself.                                *)
DumpHoldsItsKernel ==
  \A i \in DOMAIN dumps :
    HasInput(dumps[i]) =>
      /\ dumps[i].functor = selected.launch
      /\ dumps[i].policy = IF ModeOf[DumpLabel] = "krepe"
                           THEN selected.launch ELSE NoLaunch

(* The input part holds every View of the kernel with the contents it had  *)
(* after all the work issued before the launch.                            *)
DumpHoldsInputs ==
  \A i \in DOMAIN dumps :
    HasInput(dumps[i]) =>
      \A v \in DOMAIN selected.before :
        v \in DOMAIN dumps[i].in /\ dumps[i].in[v] = selected.before[v]

(* The output part holds every View of the kernel as the kernel left it.   *)
DumpHoldsOutputs ==
  \A i \in DOMAIN dumps :
    dumps[i].state = "complete" =>
      \A v \in DOMAIN selected.before :
        v \in DOMAIN dumps[i].out /\ dumps[i].out[v] = selected.launch

(* Bytes are copied only from memory Kokkos has not given back, although   *)
(* the snapshot's lock is released before the copy.                        *)
CopiesLiveMemory ==
  \A t \in Thread :
    pc[t] \in {"copy_in", "copy_out"} =>
      \A v \in todo[t] : heap[v] \in {"live", "dying"}

(* kernel_states has the entry of each launch between its hooks and of no  *)
(* other: no entry is leaked and none is taken from another thread.        *)
Open == Beginning \cup {"dispatch", "end"}

KernelStatesMatch ==
  DOMAIN kernel_states = {id[t] : t \in {s \in Thread : pc[s] \in Open}}

(* What the application and the build must grant for the properties of the *)
(* dump's contents.  Only one thread launches the dumped label or calls    *)
(* replay_functor, the label is launched in a way that stages its functor, *)
(* and the extractor looks for the tool after it was loaded: shared_label  *)
(* and early_metadata show runs without.                                   *)
StagedByOneThread ==
  /\ ModeOf[DumpLabel] # "plain"
  /\ ~EarlyMetadata
  /\ \E one \in Thread : \A t \in Thread \ {one} : \A l \in LabelsOf[t] :
       l # DumpLabel /\ ModeOf[l] # "functor"

(* The tool can wait for the device, and the Views the compiler plugins    *)
(* register are those of the kernel; without the plugins all are copied.   *)
CopiesKernelViews == ToolHasFence /\ (HasCompilerPlugins => StagedByOneThread)

(* No other thread frees what is copied: there is none, or only Views of   *)
(* the kernel are copied.                                                  *)
AloneThread == \A s, t \in Thread : s = t
CopiesSafe  == AloneThread \/ (HasCompilerPlugins /\ StagedByOneThread)

(* What makes the properties above inductive.  Ids are never given twice;  *)
(* a thread that is writing the dump is the one of the chosen launch; and  *)
(* the state of the file follows the steps of that thread.                 *)
Hooked == {"count"} \cup Open \cup Ending

IdsDistinct ==
  /\ \A t \in Thread : pc[t] \in Hooked => id[t] < next_kernel_id
  /\ \A s, t \in Thread :
       s # t /\ pc[s] \in Hooked /\ pc[t] \in Hooked => id[s] # id[t]

FileStateAt(p) ==
  IF p \in {"copy_in", "write_policy", "write_functor"} THEN "writing_in"
  ELSE IF p = "copy_out" THEN "writing_out"
  ELSE "in"

Writing(t) ==
  \/ pc[t] \in Beginning \cup Ending
  \/ pc[t] \in {"dispatch", "end"} /\ kernel_states[id[t]].dump_path

ChosenAt(t) ==
  /\ Writing(t) =>
       /\ selected.launch = This(t)
       /\ label[t] = DumpLabel
       /\ IF pc[t] \in {"fence_in", "wait_in", "snap_in", "create"}
          THEN DOMAIN dumps = {}
          ELSE /\ DOMAIN dumps = {id[t]}
               /\ dumps[id[t]].state = FileStateAt(pc[t])
  /\ pc[t] \in Beginning =>
       /\ kernel_states[id[t]].invocation = DumpInvocation
       /\ ~kernel_states[id[t]].dump_path

ChosenWritesDump == \A t \in Thread : ChosenAt(t)

ChosenByCount ==
  /\ selected.launch # NoLaunch <=>
       DumpInvocation # 0 /\ kernel_invocations[DumpLabel] >= DumpInvocation
  /\ selected.launch = NoLaunch => DOMAIN dumps = {}

HookInv ==
  /\ KernelStatesMatch
  /\ IdsDistinct
  /\ ChosenWritesDump
  /\ ChosenByCount
  /\ AtMostOneDump

(* The capture as CaptureOnce sees it.  The chosen launch has run once its *)
(* thread is past Dispatch; a file whose writing failed counts for what    *)
(* was complete before.                                                    *)
ChosenKernel ==
  LET l == selected.launch IN
  IF l = NoLaunch THEN "none"
  ELSE IF launch[l[1]] = l[2] /\ pc[l[1]] \in Beginning \cup {"dispatch"}
       THEN "chosen" ELSE "ran"

CapturedPart ==
  IF \E i \in DOMAIN dumps : dumps[i].state = "complete" THEN "output"
  ELSE IF \E i \in DOMAIN dumps : HasInput(dumps[i]) THEN "input"
  ELSE "nothing"

Once == INSTANCE CaptureOnce WITH
          Invocation <- DumpInvocation,
          launched   <- kernel_invocations[DumpLabel],
          kernel     <- ChosenKernel,
          captured   <- CapturedPart

(* The hooks, the staging calls and the threads between them implement     *)
(* CaptureOnce, whatever fails and however the launches interleave.        *)
ImplementsCaptureOnce == Once!OnceSpec

(* Once the kernel is chosen its dump is eventually completed.             *)
ChosenIsDumped ==
  selected.launch # NoLaunch ~>
    \E i \in DOMAIN dumps : dumps[i].state = "complete"

(* kernel_extractor.hpp: krepe::parallel_for "saves the execution policy   *)
(* and the functor", here of the launch that is dumped.                    *)
ParallelForSavesItsFunctor == DumpHoldsItsKernel
=============================================================================
