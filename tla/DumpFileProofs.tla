--------------------------- MODULE DumpFileProofs ---------------------------
(***************************************************************************)
(* Proofs about DumpFile: what a file that loads holds, for any processes, *)
(* allocations and metadata, and for processes that run together unless a  *)
(* theorem assumes OneAtATime.                                             *)
(***************************************************************************)
EXTENDS DumpFile, TLAPS

-----------------------------------------------------------------------------
(* The files a step may make are files.                                    *)

(* No file and no snapshot are of their types, and a new file is a file.   *)
LEMMA Files ==
  /\ NoSnapshot \in Snapshot
  /\ NoFile \in File
  /\ Unreadable \in File
  /\ \A p \in Process : NewFile(p) \in File
  /\ \A p \in Process : StartedSnapshot(p) \in Snapshot
  /\ \A p \in Process : PartialSnapshots(p) \subseteq Snapshot
  /\ \A p \in Process : \A s \in PartialSnapshots(p) : s.made = "views" => s.by = p
<1>1. NoSnapshot \in Snapshot
  BY DEF NoSnapshot, Snapshot, ViewGroup
<1>2. NoFile \in File
  BY <1>1 DEF NoFile, File, Dataset
<1>3. Unreadable \in File
  BY <1>2 DEF Unreadable, File
<1>4. ASSUME NEW p \in Process PROVE NewFile(p) \in File
  BY <1>2 DEF NewFile, File
<1>5. ASSUME NEW p \in Process
      PROVE  StartedSnapshot(p) \in Snapshot /\ PartialSnapshots(p) \subseteq Snapshot
  BY <1>1 DEF StartedSnapshot, PartialSnapshots, Snapshot
<1>6. ASSUME NEW p \in Process, NEW s \in PartialSnapshots(p), s.made = "views"
      PROVE  s.by = p
  <2>1. NoSnapshot.made = "no"
    BY DEF NoSnapshot
  <2>2. [NoSnapshot EXCEPT !.made = "bare", !.by = p].made = "bare"
    BY <1>1 DEF Snapshot
  <2>3. StartedSnapshot(p).by = p
    BY <1>1 DEF Snapshot, StartedSnapshot
  <2> QED
    BY <1>6, <2>1, <2>2, <2>3 DEF PartialSnapshots
<1> QED
  BY <1>1, <1>2, <1>3, <1>4, <1>5, <1>6

(* A file with one group of its input or output set to g is a file.        *)
LEMMA ViewSet ==
  ASSUME NEW file \in File, NEW v \in View, NEW g \in ViewGroup
  PROVE  /\ [file EXCEPT !.in.views[v] = g] \in File
         /\ [file EXCEPT !.out.views[v] = g] \in File
<1>1. file.in \in Snapshot /\ file.out \in Snapshot
  BY DEF File
<1>2. /\ [file.in EXCEPT !.views[v] = g] \in Snapshot
      /\ [file.out EXCEPT !.views[v] = g] \in Snapshot
  BY <1>1 DEF Snapshot
<1> QED
  BY <1>1, <1>2 DEF File

-----------------------------------------------------------------------------
(* Types.                                                                  *)

(* What an interrupted step leaves of the file is a file.                  *)
LEMMA PartialFiles ==
  ASSUME DumpFileTypeOK, NEW p \in Process, Partial(p)
  PROVE  disk' \in File
<1> USE DumpFileAssumption
<1>1. image[p] \in File /\ todo[p] \subseteq View
  BY DEF DumpFileTypeOK
<1>2. \A v \in View : PartialViews(v) \subseteq ViewGroup
  BY DEF PartialViews, ViewGroup
<1>3. \A s \in PartialSnapshots(p) :
        [image[p] EXCEPT !.in = s] \in File /\ [image[p] EXCEPT !.out = s] \in File
  BY <1>1, Files DEF File
<1>4. \A v \in todo[p] : \A g \in PartialViews(v) :
        /\ [image[p] EXCEPT !.in.views[v] = g] \in File
        /\ [image[p] EXCEPT !.out.views[v] = g] \in File
  BY <1>1, <1>2, ViewSet
<1>5. /\ \A K \in SUBSET MetadataOf[p] :
           [image[p] EXCEPT !.metadata = TRUE, !.keys = K] \in File
      /\ [image[p] EXCEPT !.policy = "partial"] \in File
      /\ [image[p] EXCEPT !.functor = "zeros"] \in File
      /\ [image[p] EXCEPT !.inner = "zeros"] \in File
  BY <1>1 DEF File, Dataset
<1> QED
  BY <1>3, <1>4, <1>5, Zenon DEF Partial

(* A step of process p that ends with file keeps the types.                *)
LEMMA AdvanceType ==
  ASSUME DumpFileTypeOK, NEW p \in Process, NEW next \in Step, NEW file \in File,
         Advance(p, next, file), disk' \in File,
         snapshot' \in [Process -> SUBSET View], input' \in [Process -> SUBSET View],
         todo' \in [Process -> SUBSET View]
  PROVE  DumpFileTypeOK'
BY DEF DumpFileTypeOK, Advance, reader

(* Every step keeps the types.                                             *)
LEMMA TypeNext == DumpFileTypeOK /\ [Next]_vars => DumpFileTypeOK'
<1> SUFFICES ASSUME DumpFileTypeOK, [Next]_vars PROVE DumpFileTypeOK'
  OBVIOUS
<1> USE DumpFileAssumption
<1>1. /\ disk \in File /\ image \in [Process -> File]
      /\ snapshot \in [Process -> SUBSET View] /\ input \in [Process -> SUBSET View]
      /\ todo \in [Process -> SUBSET View]
  BY DEF DumpFileTypeOK
<1>2. /\ Step = {"idle", "closed", "root", "in", "metadata", "policy", "functor",
                 "inner", "close", "out", "views", "finish", "failed", "done", "dead"}
      /\ \A v \in View : Copied(v) \in ViewGroup
  BY DEF Step, InputSteps, OutputSteps, Ended, Copied, ViewGroup
<1>3. ASSUME NEW p \in Process,
             H5FcreateFails(p) \/ H5FopenFails(p)
      PROVE  DumpFileTypeOK'
  BY <1>3, <1>2, Files DEF DumpFileTypeOK, H5FcreateFails, H5FopenFails, reader
<1>4. ASSUME NEW p \in Process, H5Fcreate(p) PROVE DumpFileTypeOK'
  BY <1>4, <1>1, <1>2, Files, AdvanceType DEF H5Fcreate
<1>5. ASSUME NEW p \in Process, StartInput(p) \/ StartOutput(p) PROVE DumpFileTypeOK'
  <2>1. /\ [image[p] EXCEPT !.in = StartedSnapshot(p)] \in File
        /\ [image[p] EXCEPT !.out = StartedSnapshot(p)] \in File
    BY <1>1, Files DEF File
  <2> QED
    BY <1>5, <1>1, <1>2, <2>1, AdvanceType DEF StartInput, StartOutput
<1>6. ASSUME NEW p \in Process, WriteInput(p) \/ WriteOutput(p) PROVE DumpFileTypeOK'
  <2>1. PICK v \in todo[p] :
          /\ todo' = [todo EXCEPT ![p] = @ \ {v}]
          /\ \/ Advance(p, "in", [image[p] EXCEPT !.in.views[v] = Copied(v)])
             \/ Advance(p, "views", [image[p] EXCEPT !.out.views[v] = Copied(v)])
          /\ UNCHANGED <<snapshot, input, disk>>
    BY <1>6 DEF WriteInput, WriteOutput
  <2>2. v \in View /\ Copied(v) \in ViewGroup /\ image[p] \in File
    BY <1>1, <1>2
  <2>3. /\ [image[p] EXCEPT !.in.views[v] = Copied(v)] \in File
        /\ [image[p] EXCEPT !.out.views[v] = Copied(v)] \in File
    BY <2>2, ViewSet
  <2> QED
    BY <1>1, <1>2, <2>1, <2>3, AdvanceType
<1>7. ASSUME NEW p \in Process,
             \/ InputWritten(p) \/ WriteMetadata(p) \/ WritePolicy(p) \/ WriteFunctor(p)
             \/ WriteInnerLambda(p) \/ OutputWritten(p)
      PROVE  DumpFileTypeOK'
  <2>1. /\ image[p] \in File
        /\ [image[p] EXCEPT !.metadata = TRUE, !.keys = MetadataOf[p]] \in File
        /\ [image[p] EXCEPT !.policy = "written"] \in File
        /\ [image[p] EXCEPT !.functor = "written"] \in File
        /\ [image[p] EXCEPT !.inner = "written"] \in File
    BY <1>1 DEF File, Dataset
  <2> QED
    BY <1>7, <1>1, <1>2, <2>1, AdvanceType
    DEF InputWritten, WriteMetadata, WritePolicy, WriteFunctor, WriteInnerLambda,
        OutputWritten
<1>8. ASSUME NEW p \in Process, CloseInput(p) \/ CloseOutput(p) PROVE DumpFileTypeOK'
  BY <1>8, <1>1, <1>2, Files, AdvanceType DEF CloseInput, CloseOutput
<1>9. ASSUME NEW p \in Process, H5Fopen(p) PROVE DumpFileTypeOK'
  BY <1>9, <1>1, <1>2, AdvanceType DEF H5Fopen
<1>10. ASSUME NEW p \in Process, NEW end \in {"failed", "dead"}, Stop(p, end)
       PROVE  DumpFileTypeOK'
  BY <1>10, <1>1, <1>2, Files, PartialFiles, AdvanceType DEF Stop
<1>11. ASSUME NEW p \in Process, Throw(p) \/ Crash(p) PROVE DumpFileTypeOK'
  <2>1. CASE Stop(p, "failed") \/ Stop(p, "dead")
    BY <1>10, <2>1
  <2>2. CASE pc' = [pc EXCEPT ![p] = "dead"]
             /\ UNCHANGED <<snapshot, input, todo, image, disk, reader>>
    BY <2>2, <1>2 DEF DumpFileTypeOK, reader
  <2> QED
    BY <1>11, <2>1, <2>2 DEF Throw, Crash
<1>12. ASSUME ScopeGuard PROVE DumpFileTypeOK'
  <2>1. PICK f \in File :
          /\ loaded' = IF Loadable(f) THEN f ELSE NoFile
          /\ metadata' = IF ReadsInput(f) /\ f.metadata THEN Inserted(f) ELSE metadata
    BY <1>12, <1>1, Files DEF ScopeGuard
  <2>2. loaded' \in File
    BY <2>1, Files
  <2>3. metadata' \in [Key -> Process \cup {None}]
    BY <2>1 DEF Inserted, DumpFileTypeOK, File
  <2>4. guards' \in 0 .. MaxGuards
    BY <1>12 DEF ScopeGuard, DumpFileTypeOK
  <2> QED
    BY <1>12, <2>2, <2>3, <2>4 DEF ScopeGuard, writers, DumpFileTypeOK
<1>13. CASE UNCHANGED vars
  BY <1>13 DEF vars, DumpFileTypeOK
<1> QED
  BY <1>3, <1>4, <1>5, <1>6, <1>7, <1>8, <1>9, <1>11, <1>12, <1>13
  DEF Next, create_kernel_dump, append_kernel_output

(* The states are of their types: every file is one HDF5 can hold.         *)
THEOREM TypeCorrect == Spec => []DumpFileTypeOK
<1>1. Init => DumpFileTypeOK
  BY DumpFileAssumption, Files DEF Init, DumpFileTypeOK, Step
<1> QED
  BY <1>1, TypeNext, PTL DEF Spec

-----------------------------------------------------------------------------
(* The inductive invariant.  What a file that loads holds rests on the     *)
(* order of create_kernel_dump: a file with a functor has everything that  *)
(* was written before it.                                                  *)

WholeInput(f) ==
  /\ f.in.made = "views" /\ f.in.by = f.by
  /\ \A v \in View : f.in.views[v] = IF v \in input[f.by] THEN Copied(v) ELSE "no"
  /\ f.metadata /\ f.keys = MetadataOf[f.by]
  /\ f.policy = "written"

WrittenFrom(f) ==
  /\ f.form # "hdf5" => f.by = None
  /\ f.form = "hdf5" =>
       /\ f.by \in Process /\ pc[f.by] # "idle"
       /\ f.functor # "no" => WholeInput(f)
       /\ f.functor = "zeros" => pc[f.by] \in {"failed", "dead"}

(* The image of a process that writes its input: each part is there once   *)
(* its step is done, and the file on the disk was truncated.               *)
InputImage(p) ==
  pc[p] \in InputSteps =>
    /\ disk = Unreadable
    /\ image[p].form = "hdf5" /\ image[p].by = p /\ image[p].out = NoSnapshot
    /\ pc[p] # "root" =>
         /\ image[p].in.made = "views" /\ image[p].in.by = p
         /\ \A v \in View :
              image[p].in.views[v] =
                IF v \in input[p] /\ ~(pc[p] = "in" /\ v \in todo[p]) THEN Copied(v)
                ELSE "no"
    /\ pc[p] = "root" => snapshot[p] = input[p]
    /\ pc[p] = "in" => todo[p] \subseteq input[p]
    /\ pc[p] \in {"policy", "functor", "inner", "close"} =>
         image[p].metadata /\ image[p].keys = MetadataOf[p]
    /\ pc[p] \in {"functor", "inner", "close"} => image[p].policy = "written"
    /\ image[p].functor = IF pc[p] \in {"inner", "close"} THEN "written" ELSE "no"
    /\ pc[p] = "close" => image[p].inner = "written"

(* The image of a process that writes its output: the file, with the       *)
(* outputs written so far.                                                 *)
OutputImage(p) ==
  pc[p] \in OutputSteps =>
    /\ disk.form = "hdf5"
    /\ image[p] = [disk EXCEPT !.out = image[p].out]
    /\ pc[p] = "out" => image[p].out = disk.out
    /\ pc[p] = "views" => todo[p] \subseteq snapshot[p]
    /\ pc[p] # "out" =>
         /\ disk.out.made = "no"
         /\ image[p].out.made = "views" /\ image[p].out.by = p
         /\ \A v \in View :
              image[p].out.views[v] =
                IF v \in snapshot[p] /\ ~(pc[p] = "views" /\ v \in todo[p])
                THEN Copied(v) ELSE "no"

(* A dump that was closed without an error has its functor.                *)
Recorded(p) ==
  pc[p] \in {"closed", "done"} \cup OutputSteps /\ disk.by = p =>
    disk.functor = "written" /\ disk.inner = "written"

Lock == \A p, q \in Open : p = q

IInv ==
  /\ DumpFileTypeOK
  /\ Lock
  /\ \A p \in Process : InputImage(p) /\ OutputImage(p) /\ Recorded(p)
  /\ WrittenFrom(disk)
  /\ WrittenFrom(loaded)
  /\ loaded.form = "hdf5" => Loadable(loaded)

(* Processes only go forward, and what their files were written from stays *)
(* what it was.                                                            *)
Onward ==
  /\ \A q \in Process : pc[q] # "idle" => pc'[q] # "idle" /\ input'[q] = input[q]
  /\ \A q \in Process : pc[q] \in {"failed", "dead"} => pc'[q] \in {"failed", "dead"}

LEMMA WrittenStays ==
  ASSUME Onward, NEW file \in File, WrittenFrom(file)
  PROVE  WrittenFrom(file)'
BY DEF Onward, WrittenFrom, WholeInput, Copied

(* The one process that has the file open goes on to another step of its   *)
(* writing: what there is to show is about its image.                      *)
LEMMA StepInside ==
  ASSUME IInv, DumpFileTypeOK', NEW p \in Open, NEW file,
         NEW next \in InputSteps \cup OutputSteps,
         Advance(p, next, file), UNCHANGED <<input, snapshot, disk>>,
         InputImage(p)', OutputImage(p)', next \in InputSteps <=> pc[p] \in InputSteps
  PROVE  IInv'
<1>1. p \in Process /\ pc[p] \in InputSteps \cup OutputSteps
  BY DEF Open
<1>2. pc' = [pc EXCEPT ![p] = next] /\ UNCHANGED <<guards, loaded, metadata>>
  BY DEF Advance, reader
<1>3. /\ pc'[p] = next
      /\ \A q \in Process \ {p} : pc'[q] = pc[q] /\ q \notin Open
  BY <1>1, <1>2 DEF DumpFileTypeOK, IInv, Lock
<1>4. Lock'
  BY <1>3 DEF Lock, Open
<1>5. ASSUME NEW q \in Process \ {p} PROVE InputImage(q)' /\ OutputImage(q)'
  BY <1>3 DEF Open, InputImage, OutputImage
<1>6. ASSUME NEW q \in Process PROVE Recorded(q)'
  BY <1>1, <1>3 DEF IInv, Recorded, InputSteps, OutputSteps
<1>7. Onward
  BY <1>1, <1>3 DEF Onward, InputSteps, OutputSteps
<1>8. WrittenFrom(disk)' /\ WrittenFrom(loaded)'
  BY <1>2, <1>7, WrittenStays DEF IInv, DumpFileTypeOK
<1> QED
  BY <1>2, <1>4, <1>5, <1>6, <1>8 DEF IInv, Loadable, ReadsInput, ReadsRest

(* It closes the file, one way or another: what there is to show is about  *)
(* what is left on the disk.                                               *)
LEMMA StepOut ==
  ASSUME IInv, DumpFileTypeOK', NEW p \in Open,
         NEW next \in {"closed", "done", "failed", "dead"},
         Advance(p, next, NoFile), UNCHANGED <<input, snapshot>>,
         Onward => WrittenFrom(disk)',
         \A q \in Process : Recorded(q)'
  PROVE  IInv'
<1>1. p \in Process /\ pc[p] \in InputSteps \cup OutputSteps
  BY DEF Open
<1>2. pc' = [pc EXCEPT ![p] = next] /\ UNCHANGED <<guards, loaded, metadata>>
  BY DEF Advance, reader
<1>3. /\ pc'[p] = next
      /\ \A q \in Process \ {p} : pc'[q] = pc[q] /\ q \notin Open
  BY <1>1, <1>2 DEF DumpFileTypeOK, IInv, Lock
<1>4. \A q \in Process : pc'[q] \notin InputSteps \cup OutputSteps
  BY <1>3 DEF Open, InputSteps, OutputSteps
<1>5. Lock' /\ \A q \in Process : InputImage(q)' /\ OutputImage(q)'
  BY <1>4 DEF Lock, Open, InputImage, OutputImage
<1>6. Onward
  BY <1>1, <1>3 DEF Onward, InputSteps, OutputSteps
<1>7. WrittenFrom(loaded)'
  BY <1>2, <1>6, WrittenStays DEF IInv, DumpFileTypeOK
<1> QED
  BY <1>2, <1>5, <1>6, <1>7 DEF IInv, Loadable, ReadsInput, ReadsRest

(* Each step of create_kernel_dump and append_kernel_output.               *)
LEMMA InputStep ==
  ASSUME IInv, DumpFileTypeOK', NEW p \in Process,
         \/ StartInput(p) \/ WriteInput(p) \/ InputWritten(p) \/ WriteMetadata(p)
         \/ WritePolicy(p) \/ WriteFunctor(p) \/ WriteInnerLambda(p)
  PROVE  IInv'
<1> USE DumpFileAssumption
<1>1. /\ p \in Open /\ pc[p] \in InputSteps
      /\ image[p] \in File /\ InputImage(p)
      /\ pc \in [Process -> Step] /\ image \in [Process -> File]
      /\ todo \in [Process -> SUBSET View]
  BY DEF StartInput, WriteInput, InputWritten, WriteMetadata, WritePolicy, WriteFunctor,
         WriteInnerLambda, Open, InputSteps, IInv, DumpFileTypeOK
<1> DEFINE To(next, file) ==
      Advance(p, next, file) /\ UNCHANGED <<input, snapshot, disk>>
<1>2. ASSUME NEW next \in InputSteps, NEW file, To(next, file), InputImage(p)'
      PROVE  IInv'
  <2>1. pc'[p] = next
    BY <1>1, <1>2 DEF Advance
  <2>2. OutputImage(p)'
    BY <2>1 DEF OutputImage, InputSteps, OutputSteps
  <2> QED
    BY <1>1, <1>2, <2>2, StepInside
<1>3. CASE StartInput(p)
  <2>1. To("in", [image[p] EXCEPT !.in = StartedSnapshot(p)])
    BY <1>3 DEF StartInput
  <2>2. InputImage(p)'
    BY <1>1, <1>3 DEF InputImage, InputSteps, StartInput, Advance, File, Snapshot,
                      StartedSnapshot, NoSnapshot
  <2> QED
    BY <1>2, <2>1, <2>2 DEF InputSteps
<1>4. CASE WriteInput(p)
  <2>1. PICK v \in todo[p] :
          /\ todo' = [todo EXCEPT ![p] = @ \ {v}]
          /\ To("in", [image[p] EXCEPT !.in.views[v] = Copied(v)])
    BY <1>4 DEF WriteInput
  <2> DEFINE file == [image[p] EXCEPT !.in.views[v] = Copied(v)]
  <2>2. /\ pc'[p] = "in" /\ image'[p] = file /\ todo'[p] = todo[p] \ {v}
        /\ pc[p] = "in" /\ v \in View /\ todo[p] \subseteq input[p]
    BY <1>1, <1>4, <2>1 DEF Advance, WriteInput, InputImage, InputSteps
  <2>3. /\ file.in.views = [image[p].in.views EXCEPT ![v] = Copied(v)]
        /\ file.in.made = image[p].in.made /\ file.in.by = image[p].in.by
        /\ file = [image[p] EXCEPT !.in = file.in]
    <3>1. Copied(v) \in ViewGroup
      BY DEF Copied, ViewGroup
    <3>2. file = [image[p] EXCEPT !.in.views[v] = Copied(v)]
      OBVIOUS
    <3> HIDE DEF file
    <3>3. image[p] \in File /\ v \in View
      BY <1>1, <2>2
    <3> QED
      BY <3>1, <3>2, <3>3 DEF File, Snapshot
  <2> HIDE DEF file
  <2>4. file.form = image[p].form /\ file.by = image[p].by /\ file.out = image[p].out
        /\ file.functor = image[p].functor
    BY <1>1, <2>3 DEF File
  <2>5. image[p].in.views \in [View -> ViewGroup]
    BY <1>1 DEF File, Snapshot
  <2>6. \A u \in View : file.in.views[u] = IF u = v THEN Copied(v) ELSE image[p].in.views[u]
    BY <2>3, <2>5
  <2>7. InputImage(p)'
    BY <1>1, <2>1, <2>2, <2>3, <2>4, <2>6 DEF InputImage, InputSteps, Copied
  <2> QED
    BY <1>2, <2>1, <2>7 DEF InputSteps, file
<1>5. CASE InputWritten(p)
  <2>1. InputImage(p)'
    BY <1>1, <1>5 DEF InputImage, InputSteps, InputWritten, Advance, Copied
  <2> QED
    BY <1>2, <1>5, <2>1 DEF InputSteps, InputWritten
<1>6. CASE WriteMetadata(p)
  <2>1. InputImage(p)'
    BY <1>1, <1>6 DEF InputImage, InputSteps, WriteMetadata, Advance, File, Copied
  <2> QED
    BY <1>2, <1>6, <2>1 DEF InputSteps, WriteMetadata
<1>7. CASE WritePolicy(p)
  <2>1. InputImage(p)'
    BY <1>1, <1>7 DEF InputImage, InputSteps, WritePolicy, Advance, File, Copied
  <2> QED
    BY <1>2, <1>7, <2>1 DEF InputSteps, WritePolicy
<1>8. CASE WriteFunctor(p)
  <2>1. InputImage(p)'
    BY <1>1, <1>8 DEF InputImage, InputSteps, WriteFunctor, Advance, File, Copied
  <2> QED
    BY <1>2, <1>8, <2>1 DEF InputSteps, WriteFunctor
<1>9. CASE WriteInnerLambda(p)
  <2>1. InputImage(p)'
    BY <1>1, <1>9 DEF InputImage, InputSteps, WriteInnerLambda, Advance, File, Copied
  <2> QED
    BY <1>2, <1>9, <2>1 DEF InputSteps, WriteInnerLambda
<1> QED
  BY <1>3, <1>4, <1>5, <1>6, <1>7, <1>8, <1>9

(* The steps of append_kernel_output that write.                           *)
LEMMA OutputStep ==
  ASSUME IInv, DumpFileTypeOK', NEW p \in Process,
         StartOutput(p) \/ WriteOutput(p) \/ OutputWritten(p)
  PROVE  IInv'
<1> USE DumpFileAssumption
<1>1. /\ p \in Open /\ pc[p] \in OutputSteps
      /\ image[p] \in File /\ OutputImage(p) /\ disk \in File
      /\ pc \in [Process -> Step] /\ image \in [Process -> File]
      /\ todo \in [Process -> SUBSET View] /\ snapshot[p] \subseteq View
  BY DEF StartOutput, WriteOutput, OutputWritten, Open, OutputSteps, IInv, DumpFileTypeOK
<1> DEFINE To(next, file) ==
      Advance(p, next, file) /\ UNCHANGED <<input, snapshot, disk>>
<1>2. ASSUME NEW next \in OutputSteps, NEW file, To(next, file), OutputImage(p)'
      PROVE  IInv'
  <2>1. pc'[p] = next
    BY <1>1, <1>2 DEF Advance
  <2>2. InputImage(p)'
    BY <2>1 DEF InputImage, InputSteps, OutputSteps
  <2>3. next \notin InputSteps /\ pc[p] \notin InputSteps
    BY <1>1 DEF InputSteps, OutputSteps
  <2> QED
    BY <1>1, <1>2, <2>2, <2>3, StepInside
<1>3. CASE StartOutput(p)
  <2>1. To("views", [image[p] EXCEPT !.out = StartedSnapshot(p)])
    BY <1>3 DEF StartOutput
  <2>2. OutputImage(p)'
    BY <1>1, <1>3 DEF OutputImage, OutputSteps, StartOutput, Advance, File, Snapshot,
                      StartedSnapshot, NoSnapshot
  <2> QED
    BY <1>2, <2>1, <2>2 DEF OutputSteps
<1>4. CASE WriteOutput(p)
  <2>1. PICK v \in todo[p] :
          /\ todo' = [todo EXCEPT ![p] = @ \ {v}]
          /\ To("views", [image[p] EXCEPT !.out.views[v] = Copied(v)])
    BY <1>4 DEF WriteOutput
  <2> DEFINE file == [image[p] EXCEPT !.out.views[v] = Copied(v)]
  <2>2. /\ pc'[p] = "views" /\ image'[p] = file /\ todo'[p] = todo[p] \ {v}
        /\ pc[p] = "views" /\ v \in View /\ todo[p] \subseteq snapshot[p]
    BY <1>1, <1>4, <2>1 DEF Advance, WriteOutput, OutputImage, OutputSteps
  <2>3. /\ file.out.views = [image[p].out.views EXCEPT ![v] = Copied(v)]
        /\ file.out.made = image[p].out.made /\ file.out.by = image[p].out.by
        /\ file = [image[p] EXCEPT !.out = file.out]
    <3>1. Copied(v) \in ViewGroup
      BY DEF Copied, ViewGroup
    <3>2. file = [image[p] EXCEPT !.out.views[v] = Copied(v)]
      OBVIOUS
    <3> HIDE DEF file
    <3>3. image[p] \in File /\ v \in View
      BY <1>1, <2>2
    <3> QED
      BY <3>1, <3>2, <3>3 DEF File, Snapshot
  <2> HIDE DEF file
  <2>4. file = [disk EXCEPT !.out = file.out]
    BY <1>1, <2>3 DEF File, OutputImage
  <2>5. image[p].out.views \in [View -> ViewGroup]
    BY <1>1 DEF File, Snapshot
  <2>6. \A u \in View : file.out.views[u] = IF u = v THEN Copied(v) ELSE image[p].out.views[u]
    BY <2>3, <2>5
  <2>7. OutputImage(p)'
    <3>1. disk' = disk /\ snapshot' = snapshot /\ image'[p].out = file.out
      BY <2>1, <2>2
    <3>2. /\ disk.form = "hdf5" /\ disk.out.made = "no"
          /\ file.out.made = "views" /\ file.out.by = p
          /\ \A u \in View : image[p].out.views[u] = IF u \in snapshot[p] \ todo[p]
                                                 THEN Copied(u) ELSE "no"
      BY <1>1, <2>2, <2>3 DEF OutputImage
    <3>3. \A u \in View : file.out.views[u] = IF u \in snapshot[p] \ todo'[p]
                                           THEN Copied(u) ELSE "no"
      BY <2>2, <2>6, <3>2
    <3> QED
      BY <2>2, <2>4, <3>1, <3>2, <3>3 DEF OutputImage, Copied
  <2> QED
    BY <1>2, <2>1, <2>7 DEF OutputSteps, file
<1>5. CASE OutputWritten(p)
  <2>1. OutputImage(p)'
    BY <1>1, <1>5 DEF OutputImage, OutputSteps, OutputWritten, Advance, Copied
  <2> QED
    BY <1>2, <1>5, <2>1 DEF OutputSteps, OutputWritten
<1> QED
  BY <1>3, <1>4, <1>5

(* The file is opened: by H5Fcreate, which truncates it, or by H5Fopen.    *)
LEMMA OpenStep ==
  ASSUME IInv, DumpFileTypeOK', NEW p \in Process, H5Fcreate(p) \/ H5Fopen(p)
  PROVE  IInv'
<1> USE DumpFileAssumption
<1>1. /\ pc \in [Process -> Step] /\ image \in [Process -> File] /\ disk \in File
      /\ snapshot \in [Process -> SUBSET View] /\ input \in [Process -> SUBSET View]
  BY DEF IInv, DumpFileTypeOK
<1>2. /\ Open = {} /\ pc[p] \notin InputSteps \cup OutputSteps
      /\ UNCHANGED <<guards, loaded, metadata>>
  BY DEF H5Fcreate, H5Fopen, Open, Advance, reader, InputSteps, OutputSteps
<1>3. \A q \in Process : pc[q] \notin InputSteps \cup OutputSteps
  BY <1>2 DEF Open
<1>4. \A q \in Process \ {p} : pc'[q] = pc[q] /\ input'[q] = input[q]
  BY <1>1 DEF H5Fcreate, H5Fopen, Advance
<1>5. Onward
  BY <1>1, <1>4 DEF Onward, H5Fcreate, H5Fopen, Advance
<1>6. WrittenFrom(loaded)'
  BY <1>2, <1>5, WrittenStays DEF IInv, DumpFileTypeOK
<1>7. Lock' /\ \A q \in Process \ {p} : InputImage(q)' /\ OutputImage(q)'
  BY <1>3, <1>4 DEF Lock, Open, InputImage, OutputImage
<1>8. CASE H5Fcreate(p)
  <2>1. /\ pc'[p] = "root" /\ image'[p] = NewFile(p) /\ disk' = Unreadable
        /\ snapshot'[p] = input'[p]
    BY <1>1, <1>8 DEF H5Fcreate, Advance
  <2>2. InputImage(p)' /\ OutputImage(p)'
    BY <2>1 DEF InputImage, OutputImage, InputSteps, OutputSteps, NewFile, NoFile
  <2>3. WrittenFrom(disk)' /\ \A q \in Process : Recorded(q)'
    BY <2>1 DEF WrittenFrom, Recorded, Unreadable, NoFile
  <2> QED
    BY <1>2, <1>6, <1>7, <2>2, <2>3 DEF IInv, Loadable, ReadsInput, ReadsRest
<1>9. CASE H5Fopen(p)
  <2>1. /\ pc[p] = "closed" /\ pc'[p] = "out" /\ image'[p] = disk /\ disk' = disk
        /\ disk.form = "hdf5"
    BY <1>1, <1>9 DEF H5Fopen, Advance
  <2>2. InputImage(p)' /\ OutputImage(p)'
    BY <1>1, <2>1 DEF InputImage, OutputImage, InputSteps, OutputSteps, File
  <2>3. WrittenFrom(disk)'
    BY <1>1, <1>5, <2>1, WrittenStays DEF IInv
  <2>4. \A q \in Process : Recorded(q)'
    BY <1>3, <1>4, <2>1 DEF IInv, Recorded, OutputSteps
  <2> QED
    BY <1>2, <1>6, <1>7, <2>2, <2>3, <2>4 DEF IInv, Loadable, ReadsInput, ReadsRest
<1> QED
  BY <1>8, <1>9

(* The file is closed: after the input, the dump loads; after the output,  *)
(* it has what it had.                                                     *)
LEMMA CloseStep ==
  ASSUME IInv, DumpFileTypeOK', NEW p \in Process, CloseInput(p) \/ CloseOutput(p)
  PROVE  IInv'
<1> USE DumpFileAssumption
<1>1. /\ pc \in [Process -> Step] /\ image[p] \in File /\ disk \in File
      /\ p \in Open /\ disk' = image[p]
  BY DEF IInv, DumpFileTypeOK, CloseInput, CloseOutput, Open, InputSteps, OutputSteps
<1>2. \A q \in Process \ {p} : pc'[q] = pc[q] /\ q \notin Open
  BY <1>1 DEF IInv, Lock, CloseInput, CloseOutput, Advance
<1>3. CASE CloseInput(p)
  <2>1. pc'[p] = "closed" /\ pc[p] = "close" /\ InputImage(p) /\ input' = input
    BY <1>1, <1>3 DEF CloseInput, Advance, IInv
  <2>2. WrittenFrom(disk)'
    BY <1>1, <2>1 DEF WrittenFrom, WholeInput, InputImage, InputSteps, Copied
  <2>3. \A q \in Process : Recorded(q)'
    BY <1>1, <2>1 DEF Recorded, InputImage, InputSteps
  <2> QED
    BY <1>1, <1>3, <2>2, <2>3, StepOut DEF CloseInput
<1>4. CASE CloseOutput(p)
  <2>1. pc'[p] = "done" /\ pc[p] = "finish" /\ OutputImage(p) /\ input' = input
    BY <1>1, <1>4 DEF CloseOutput, Advance, IInv
  <2>2. /\ disk.form = disk'.form /\ disk.by = disk'.by /\ disk.in = disk'.in
        /\ disk.functor = disk'.functor /\ disk.inner = disk'.inner
        /\ disk.keys = disk'.keys /\ disk.metadata = disk'.metadata
        /\ disk.policy = disk'.policy
    BY <1>1, <2>1 DEF OutputImage, OutputSteps, File
  <2>3. Onward => WrittenFrom(disk)'
    BY <2>2 DEF IInv, Onward, WrittenFrom, WholeInput, Copied
  <2>4. \A q \in Process : Recorded(q)'
    BY <1>2, <2>1, <2>2 DEF IInv, Recorded, OutputSteps
  <2> QED
    BY <1>1, <1>4, <2>3, <2>4, StepOut DEF CloseOutput
<1> QED
  BY <1>3, <1>4

(* A step that does not come to its end leaves a file without a functor,   *)
(* a whole input, or, when outputs were being added, what was there.       *)
LEMMA LeftOnDisk ==
  ASSUME IInv, NEW p \in Open, Partial(p) \/ disk' = image[p]
  PROVE  /\ pc[p] \in InputSteps =>
              /\ disk'.form = "hdf5" /\ disk'.by = p
              /\ \/ disk'.functor = "no"
                 \/ /\ pc[p] \in {"functor", "inner", "close"}
                    /\ disk'.in = image[p].in /\ disk'.metadata = image[p].metadata
                    /\ disk'.keys = image[p].keys /\ disk'.policy = image[p].policy
              /\ disk'.out = NoSnapshot
         /\ pc[p] \in OutputSteps =>
              /\ disk'.form = disk.form /\ disk'.by = disk.by /\ disk'.in = disk.in
              /\ disk'.metadata = disk.metadata /\ disk'.keys = disk.keys
              /\ disk'.policy = disk.policy
              /\ disk'.functor = disk.functor /\ disk'.inner = disk.inner
              /\ disk'.out.made = "views" => disk'.out = disk.out \/ disk'.out.by = p
<1>1. /\ p \in Process /\ image[p] \in File /\ disk \in File
      /\ InputImage(p) /\ OutputImage(p)
  BY DEF Open, IInv, DumpFileTypeOK
<1>2. CASE disk' = image[p]
  BY <1>1, <1>2 DEF InputImage, OutputImage, InputSteps, OutputSteps, File
<1>3. CASE Partial(p) /\ pc[p] \in {"root", "in", "metadata", "policy"}
  BY <1>1, <1>3 DEF Partial, InputImage, InputSteps, OutputSteps, File
<1>4. CASE Partial(p) /\ pc[p] \in {"functor", "inner"}
  BY <1>1, <1>4 DEF Partial, InputImage, InputSteps, OutputSteps, File
<1>5. CASE Partial(p) /\ pc[p] \in {"out", "views"}
  <2>1. image[p] = [disk EXCEPT !.out = image[p].out] /\ pc[p] \in OutputSteps
    BY <1>1, <1>5 DEF OutputImage, OutputSteps
  <2>2. /\ image[p].form = disk.form /\ image[p].by = disk.by /\ image[p].in = disk.in
        /\ image[p].metadata = disk.metadata /\ image[p].keys = disk.keys
        /\ image[p].policy = disk.policy
        /\ image[p].functor = disk.functor /\ image[p].inner = disk.inner
    BY <1>1, <2>1 DEF File
  <2>3. /\ disk' = [image[p] EXCEPT !.out = disk'.out]
        /\ disk'.out.made = "views" => disk'.out.by = p
    <3>1. CASE pc[p] = "out"
      <4>1. PICK s \in PartialSnapshots(p) : disk' = [image[p] EXCEPT !.out = s]
        BY <1>5, <3>1 DEF Partial
      <4>2. s.made = "views" => s.by = p
        BY <1>1, <4>1, Files
      <4> QED
        BY <1>1, <4>1, <4>2 DEF File
    <3>2. CASE pc[p] = "views"
      <4>1. PICK v \in todo[p] : \E g \in PartialViews(v) :
              disk' = [image[p] EXCEPT !.out.views[v] = g]
        BY <1>5, <3>2 DEF Partial
      <4>2. PICK g \in PartialViews(v) : disk' = [image[p] EXCEPT !.out.views[v] = g]
        BY <4>1
      <4> DEFINE s == [image[p].out EXCEPT !.views[v] = g]
      <4>3. disk' = [image[p] EXCEPT !.out = s] /\ s.by = p
        BY <1>1, <3>2, <4>2 DEF OutputImage, OutputSteps, File, Snapshot
      <4> QED
        BY <1>1, <3>2, <4>3 DEF File
    <3> QED
      BY <1>5, <3>1, <3>2
  <2> QED
    BY <1>1, <1>5, <2>2, <2>3 DEF File, InputSteps
<1> QED
  BY <1>2, <1>3, <1>4, <1>5 DEF Partial

(* The process stops while it has the file open.                           *)
LEMMA StopStep ==
  ASSUME IInv, DumpFileTypeOK', NEW p \in Process, NEW end \in {"failed", "dead"},
         Stop(p, end)
  PROVE  IInv'
<1> USE DumpFileAssumption
<1>1. /\ p \in Open /\ pc \in [Process -> Step] /\ image[p] \in File /\ disk \in File
      /\ InputImage(p) /\ input' = input
      /\ pc' = [pc EXCEPT ![p] = end]
  BY DEF Stop, IInv, DumpFileTypeOK, Advance
<1>2. /\ pc'[p] = end
      /\ \A q \in Process \ {p} : pc'[q] = pc[q] /\ q \notin Open
  BY <1>1 DEF IInv, Lock, Open
<1>3. ASSUME Onward, disk' \in {disk, Unreadable} PROVE WrittenFrom(disk)'
  BY <1>1, <1>3, WrittenStays DEF IInv, WrittenFrom, Unreadable, NoFile
<1>4. ASSUME disk' \in {disk, Unreadable}, NEW q \in Process PROVE Recorded(q)'
  BY <1>1, <1>2, <1>4 DEF IInv, Recorded, OutputSteps, Unreadable, NoFile
<1>5. ASSUME Partial(p) \/ disk' = image[p], pc[p] \in InputSteps
      PROVE  WrittenFrom(disk)' /\ \A q \in Process : Recorded(q)'
  <2>1. /\ disk'.form = "hdf5" /\ disk'.by = p
        /\ \/ disk'.functor = "no"
           \/ /\ pc[p] \in {"functor", "inner", "close"}
              /\ disk'.in = image[p].in /\ disk'.metadata = image[p].metadata
              /\ disk'.keys = image[p].keys /\ disk'.policy = image[p].policy
    BY <1>1, <1>5, LeftOnDisk
  <2>2. WrittenFrom(disk)'
    BY <1>1, <1>2, <2>1 DEF WrittenFrom, WholeInput, InputImage, InputSteps, Copied
  <2>3. \A q \in Process : Recorded(q)'
    BY <1>2, <2>1 DEF Recorded, OutputSteps
  <2> QED
    BY <2>2, <2>3
<1>6. ASSUME Partial(p) \/ disk' = image[p], pc[p] \in OutputSteps
      PROVE  (Onward => WrittenFrom(disk)') /\ \A q \in Process : Recorded(q)'
  <2>1. /\ disk'.form = disk.form /\ disk'.by = disk.by /\ disk'.in = disk.in
        /\ disk'.metadata = disk.metadata /\ disk'.keys = disk.keys
        /\ disk'.policy = disk.policy
        /\ disk'.functor = disk.functor /\ disk'.inner = disk.inner
    BY <1>1, <1>6, LeftOnDisk
  <2>2. Onward => WrittenFrom(disk)'
    BY <2>1 DEF IInv, Onward, WrittenFrom, WholeInput, Copied
  <2>3. \A q \in Process : Recorded(q)'
    BY <1>2, <2>1 DEF IInv, Recorded, OutputSteps
  <2> QED
    BY <2>2, <2>3
<1>7. (Onward => WrittenFrom(disk)') /\ \A q \in Process : Recorded(q)'
  BY <1>1, <1>3, <1>4, <1>5, <1>6 DEF Stop, Open
<1> QED
  BY <1>1, <1>7, StepOut DEF Stop

(* A call that fails before the file is open, or a process that dies then. *)
LEMMA FailStep ==
  ASSUME IInv, DumpFileTypeOK', NEW p \in Process, NEW end \in {"failed", "dead"},
         pc[p] \in {"idle", "closed"}, pc' = [pc EXCEPT ![p] = end],
         disk' \in {disk} \cup (IF Open = {} THEN {Unreadable} ELSE {}),
         UNCHANGED <<snapshot, input, todo, image, reader>>
  PROVE  IInv'
<1> USE DumpFileAssumption
<1>1. /\ pc'[p] = end
      /\ \A q \in Process \ {p} : pc'[q] = pc[q]
      /\ UNCHANGED <<guards, loaded, metadata>>
  BY DEF IInv, DumpFileTypeOK, reader
<1>2. Onward
  BY <1>1 DEF Onward
<1>3. WrittenFrom(disk)' /\ WrittenFrom(loaded)'
  BY <1>1, <1>2, WrittenStays DEF IInv, DumpFileTypeOK, WrittenFrom, Unreadable, NoFile
<1>4. Open' = Open /\ Lock'
  BY <1>1 DEF IInv, Lock, Open, InputSteps, OutputSteps
<1>5. ASSUME NEW q \in Process PROVE InputImage(q)' /\ OutputImage(q)'
  <2>1. CASE q \in Open
    BY <1>1, <2>1 DEF IInv, InputImage, OutputImage, Open, InputSteps, OutputSteps, Copied
  <2>2. CASE q \notin Open
    BY <1>4, <2>2 DEF InputImage, OutputImage, Open
  <2> QED
    BY <2>1, <2>2
<1>6. ASSUME NEW q \in Process PROVE Recorded(q)'
  BY <1>1, <1>6 DEF IInv, Recorded, OutputSteps, Unreadable, NoFile
<1> QED
  BY <1>1, <1>3, <1>4, <1>5, <1>6 DEF IInv, Loadable, ReadsInput, ReadsRest

(* The replayer loads the file, or does not.                               *)
LEMMA GuardStep ==
  ASSUME IInv, DumpFileTypeOK', ScopeGuard
  PROVE  IInv'
<1>1. UNCHANGED <<pc, snapshot, input, todo, image, disk>>
  BY DEF ScopeGuard, writers
<1>2. WrittenFrom(NoFile)
  BY DEF WrittenFrom, NoFile
<1>3. /\ loaded' = NoFile \/ (loaded' = disk /\ Loadable(disk))
  BY DEF ScopeGuard
<1>4. WrittenFrom(loaded)'
  BY <1>1, <1>2, <1>3 DEF IInv, WrittenFrom, WholeInput, Copied
<1>5. loaded'.form = "hdf5" => Loadable(loaded)'
  BY <1>3 DEF NoFile, Loadable, ReadsInput, ReadsRest
<1>6. /\ Lock' /\ WrittenFrom(disk)'
      /\ \A p \in Process : InputImage(p)' /\ OutputImage(p)' /\ Recorded(p)'
  BY <1>1 DEF IInv, Lock, Open, WrittenFrom, WholeInput, InputImage, OutputImage, Recorded,
              Copied
<1> QED
  BY <1>4, <1>5, <1>6 DEF IInv

(* Every step preserves the inductive invariant.                           *)
LEMMA IInvNext == IInv /\ [Next]_vars => IInv'
<1> SUFFICES ASSUME IInv, [Next]_vars PROVE IInv'
  OBVIOUS
<1>1. DumpFileTypeOK'
  BY TypeNext DEF IInv
<1>2. ASSUME NEW p \in Process, H5FcreateFails(p) \/ H5FopenFails(p) PROVE IInv'
  BY <1>1, <1>2, FailStep DEF H5FcreateFails, H5FopenFails
<1>3. ASSUME NEW p \in Process, create_kernel_dump(p) \/ append_kernel_output(p)
      PROVE  IInv'
  BY <1>1, <1>2, <1>3, OpenStep, InputStep, OutputStep, CloseStep
  DEF create_kernel_dump, append_kernel_output
<1>4. ASSUME NEW p \in Process, Throw(p) \/ Crash(p) PROVE IInv'
  <2>1. CASE Stop(p, "failed") \/ Stop(p, "dead")
    BY <1>1, <2>1, StopStep
  <2>2. CASE /\ pc[p] = "closed" /\ pc' = [pc EXCEPT ![p] = "dead"]
             /\ UNCHANGED <<snapshot, input, todo, image, disk, reader>>
    BY <1>1, <2>2, FailStep
  <2> QED
    BY <1>4, <2>1, <2>2 DEF Throw, Crash
<1>5. CASE UNCHANGED vars
  BY <1>1, <1>5 DEF vars, IInv, Lock, Open, WrittenFrom, WholeInput, InputImage,
     OutputImage, Recorded, Copied, Loadable, ReadsInput, ReadsRest
<1> QED
  BY <1>1, <1>3, <1>4, <1>5, GuardStep DEF Next

LEMMA IInvInit == Init => IInv
BY DumpFileAssumption, Files
DEF Init, IInv, DumpFileTypeOK, Step, Lock, Open, InputSteps, OutputSteps, InputImage,
    OutputImage, Recorded, WrittenFrom, NoFile

LEMMA IInvAlways == Spec => []IInv
BY IInvInit, IInvNext, PTL DEF Spec

(* A file that loads has the whole input of the process that created it,   *)
(* whichever HDF5 calls fail, whenever processes die, and even when        *)
(* several of them write the file at once.                                 *)
THEOREM LoadedInputIsWholeAlways == Spec => []LoadedInputIsWhole
<1>1. IInv => LoadedInputIsWhole
  BY DEF IInv, DumpFileTypeOK, WrittenFrom, WholeInput, Loadable, ReadsInput, ReadsRest,
         LoadedInputIsWhole, Copied
<1> QED
  BY <1>1, IInvAlways, PTL

-----------------------------------------------------------------------------
(* Metadata.  The map only grows, and the first guard finds it empty.      *)

MInv ==
  /\ MetadataAnswers
  /\ guards = 0 => \A k \in Key : metadata[k] = None

(* get_metadata answers for every key of the loaded dump, whoever writes   *)
(* the file and however often it is loaded.                                *)
THEOREM MetadataAnswersAlways == Spec => []MetadataAnswers
<1>1. Init => MInv
  BY DEF Init, MInv, MetadataAnswers, NoFile
<1>2. IInv /\ MInv /\ [Next]_vars => MInv'
  <2> SUFFICES ASSUME IInv, MInv, [Next]_vars PROVE MInv'
    OBVIOUS
  <2> USE DumpFileAssumption
  <2>1. CASE ScopeGuard
    <3>1. PICK f \in {disk, NoFile} :
            /\ loaded' = IF Loadable(f) THEN f ELSE NoFile
            /\ metadata' = IF ReadsInput(f) /\ f.metadata THEN Inserted(f) ELSE metadata
      BY <2>1 DEF ScopeGuard
    <3>2. guards' = guards + 1 /\ guards \in Nat
      BY <2>1 DEF ScopeGuard, IInv, DumpFileTypeOK
    <3>3. f.form = "hdf5" => f.by \in Process
      BY DEF IInv, WrittenFrom, NoFile
    <3>4. CASE Loadable(f)
      <4>1. /\ f.form = "hdf5" /\ f.by \in Process /\ loaded' = f
            /\ metadata' = Inserted(f)
        BY <3>1, <3>3, <3>4 DEF Loadable, ReadsInput
      <4>2. \A k \in Key : metadata'[k] = IF k \in f.keys /\ metadata[k] = None THEN f.by
                                           ELSE metadata[k]
        BY <4>1 DEF Inserted
      <4> QED
        BY <3>2, <4>1, <4>2 DEF MInv, MetadataAnswers
    <3>5. CASE ~Loadable(f)
      BY <3>1, <3>2, <3>5 DEF MInv, MetadataAnswers, NoFile
    <3> QED
      BY <3>4, <3>5
  <2>2. CASE UNCHANGED reader
    BY <2>2 DEF reader, MInv, MetadataAnswers
  <2> QED
    BY <2>1, <2>2 DEF Next, vars, reader, create_kernel_dump, append_kernel_output, Throw,
       Crash, Stop, Advance, H5Fcreate, H5FcreateFails, StartInput, WriteInput,
       InputWritten, WriteMetadata, WritePolicy, WriteFunctor, WriteInnerLambda,
       CloseInput, H5Fopen, H5FopenFails, StartOutput, WriteOutput, OutputWritten,
       CloseOutput
<1>3. MInv => MetadataAnswers
  BY DEF MInv
<1> QED
  BY <1>1, <1>2, <1>3, IInvAlways, PTL DEF Spec

-----------------------------------------------------------------------------
(* One process at a time: the file a process opens again is the one it     *)
(* wrote, without outputs.                                                 *)

OwnOutput(f) == f.out.made = "views" => f.out.by = f.by

Finished(p) == pc[p] \in {"idle", "failed", "done", "dead"}

(* The file while p runs, and once it is done for as long as it stays.     *)
Mine(p) ==
  /\ pc[p] \in {"closed"} \cup OutputSteps => disk.form = "hdf5" /\ disk.by = p
  /\ pc[p] \in {"closed", "out"} => disk.out = NoSnapshot
  /\ pc[p] = "done" /\ disk.by = p =>
       /\ disk.out.made = "views" /\ disk.out.by = p
       /\ \A v \in View :
            disk.out.views[v] = IF v \in snapshot[p] THEN Copied(v) ELSE "no"

AInv ==
  /\ \A p \in Process : \A q \in Process \ {p} : Finished(p) \/ Finished(q)
  /\ \A p \in Process : Mine(p)
  /\ OwnOutput(disk)
  /\ OwnOutput(loaded)

(* Process p takes a step to next: what there is to show is about p itself *)
(* and the file, which is p's or nobody's if it has changed.               *)
LEMMA AloneStep ==
  ASSUME OneAtATime, IInv, AInv, NEW p \in Process, NEW next,
         pc' = [pc EXCEPT ![p] = next], loaded' = loaded,
         pc[p] = "idle" => MayStart(p), pc[p] \notin Ended,
         \A q \in Process \ {p} : snapshot'[q] = snapshot[q],
         disk' = disk \/ disk'.by \in {p, None},
         Mine(p)', OwnOutput(disk)'
  PROVE  AInv'
<1> USE DumpFileAssumption
<1>1. /\ pc'[p] = next
      /\ \A q \in Process \ {p} : pc'[q] = pc[q]
  BY DEF IInv, DumpFileTypeOK
<1>2. \A q \in Process \ {p} : Finished(q)
  BY DEF AInv, Finished, MayStart, Ended
<1>3. ASSUME NEW q \in Process \ {p} PROVE Mine(q)' /\ Finished(q)'
  BY <1>1, <1>2, <1>3 DEF AInv, Mine, Finished, OutputSteps, Copied
<1> QED
  BY <1>1, <1>3 DEF AInv, Finished, OwnOutput

LEMMA AInvNext == OneAtATime /\ IInv /\ IInv' /\ AInv /\ [Next]_vars => AInv'
<1> SUFFICES ASSUME OneAtATime, IInv, IInv', AInv, [Next]_vars PROVE AInv'
  OBVIOUS
<1> USE DumpFileAssumption
<1>1. /\ pc \in [Process -> Step] /\ disk \in File
      /\ snapshot \in [Process -> SUBSET View]
  BY DEF IInv, DumpFileTypeOK
<1>2. ASSUME NEW p \in Process, H5FcreateFails(p) \/ H5FopenFails(p) PROVE AInv'
  <2>1. /\ pc' = [pc EXCEPT ![p] = "failed"] /\ loaded' = loaded /\ pc'[p] = "failed"
        /\ snapshot' = snapshot /\ disk' \in {disk, Unreadable}
        /\ pc[p] = "idle" => MayStart(p)
        /\ pc[p] \notin Ended
    BY <1>1, <1>2 DEF H5FcreateFails, H5FopenFails, reader, Ended
  <2>2. Mine(p)'
    BY <2>1 DEF Mine, OutputSteps
  <2>3. OwnOutput(disk)' /\ (disk' = disk \/ disk'.by = None)
    BY <2>1 DEF AInv, OwnOutput, Unreadable, NoFile, NoSnapshot
  <2> QED
    BY <2>1, <2>2, <2>3, AloneStep
<1>3. ASSUME NEW p \in Process, H5Fcreate(p) PROVE AInv'
  <2>1. /\ pc' = [pc EXCEPT ![p] = "root"] /\ loaded' = loaded /\ pc'[p] = "root"
        /\ \A q \in Process \ {p} : snapshot'[q] = snapshot[q]
        /\ disk' = Unreadable /\ MayStart(p) /\ pc[p] = "idle"
    BY <1>1, <1>3 DEF H5Fcreate, Advance, reader
  <2>2. Mine(p)' /\ OwnOutput(disk)' /\ disk'.by = None
    BY <2>1 DEF Mine, OutputSteps, OwnOutput, Unreadable, NoFile, NoSnapshot
  <2> QED
    BY <2>1, <2>2, AloneStep DEF Ended
<1>4. ASSUME NEW p \in Process,
             \/ StartInput(p) \/ WriteInput(p) \/ InputWritten(p) \/ WriteMetadata(p)
             \/ WritePolicy(p) \/ WriteFunctor(p) \/ WriteInnerLambda(p)
      PROVE  AInv'
  <2>1. PICK next \in InputSteps : pc' = [pc EXCEPT ![p] = next]
    BY <1>4 DEF StartInput, WriteInput, InputWritten, WriteMetadata, WritePolicy,
                WriteFunctor, WriteInnerLambda, Advance, InputSteps
  <2>2. loaded' = loaded /\ snapshot' = snapshot /\ disk' = disk /\ pc[p] \in InputSteps
    BY <1>4 DEF StartInput, WriteInput, InputWritten, WriteMetadata, WritePolicy,
                WriteFunctor, WriteInnerLambda, Advance, reader, InputSteps
  <2>3. Mine(p)'
    BY <1>1, <2>1 DEF Mine, InputSteps, OutputSteps
  <2> QED
    BY <2>1, <2>2, <2>3, AloneStep DEF AInv, OwnOutput, InputSteps, Ended
<1>5. ASSUME NEW p \in Process, CloseInput(p) PROVE AInv'
  <2>1. /\ pc' = [pc EXCEPT ![p] = "closed"] /\ loaded' = loaded /\ pc'[p] = "closed"
        /\ snapshot' = snapshot /\ disk' = image[p] /\ pc[p] = "close"
        /\ InputImage(p)
    BY <1>1, <1>5 DEF CloseInput, Advance, reader, IInv
  <2>2. disk'.form = "hdf5" /\ disk'.by = p /\ disk'.out = NoSnapshot
    BY <2>1 DEF InputImage, InputSteps
  <2>3. Mine(p)' /\ OwnOutput(disk)'
    BY <2>1, <2>2 DEF Mine, OutputSteps, OwnOutput, NoSnapshot
  <2> QED
    BY <2>1, <2>2, <2>3, AloneStep DEF Ended
<1>6. ASSUME NEW p \in Process, H5Fopen(p) PROVE AInv'
  <2>1. /\ pc' = [pc EXCEPT ![p] = "out"] /\ loaded' = loaded /\ pc'[p] = "out"
        /\ \A q \in Process \ {p} : snapshot'[q] = snapshot[q]
        /\ disk' = disk /\ pc[p] = "closed"
    BY <1>1, <1>6 DEF H5Fopen, Advance, reader
  <2>2. Mine(p)' /\ OwnOutput(disk)'
    BY <2>1 DEF AInv, Mine, OutputSteps, OwnOutput
  <2> QED
    BY <2>1, <2>2, AloneStep DEF Ended
<1>7. ASSUME NEW p \in Process, StartOutput(p) \/ WriteOutput(p) \/ OutputWritten(p)
      PROVE  AInv'
  <2>1. PICK next \in {"views", "finish"} : pc' = [pc EXCEPT ![p] = next]
    BY <1>7 DEF StartOutput, WriteOutput, OutputWritten, Advance
  <2>2. /\ loaded' = loaded /\ snapshot' = snapshot /\ disk' = disk
        /\ pc[p] \in OutputSteps
    BY <1>7 DEF StartOutput, WriteOutput, OutputWritten, Advance, reader, OutputSteps
  <2>3. Mine(p)'
    BY <1>1, <2>1, <2>2 DEF AInv, Mine, OutputSteps
  <2> QED
    BY <2>1, <2>2, <2>3, AloneStep DEF AInv, OwnOutput, OutputSteps, Ended
<1>8. ASSUME NEW p \in Process, CloseOutput(p) PROVE AInv'
  <2>1. /\ pc' = [pc EXCEPT ![p] = "done"] /\ loaded' = loaded /\ pc'[p] = "done"
        /\ snapshot' = snapshot /\ disk' = image[p] /\ pc[p] = "finish"
        /\ OutputImage(p)
    BY <1>1, <1>8 DEF CloseOutput, Advance, reader, IInv
  <2>2. disk'.by = disk.by /\ disk.by = p
    BY <1>1, <2>1 DEF OutputImage, OutputSteps, AInv, Mine, File
  <2>3. /\ disk'.out.made = "views" /\ disk'.out.by = p
        /\ \A v \in View :
             disk'.out.views[v] = IF v \in snapshot[p] THEN Copied(v) ELSE "no"
    BY <2>1 DEF OutputImage, OutputSteps
  <2>4. Mine(p)' /\ OwnOutput(disk)'
    BY <2>1, <2>2, <2>3 DEF Mine, OutputSteps, OwnOutput, Copied
  <2> QED
    BY <2>1, <2>2, <2>4, AloneStep DEF Ended
<1>9. ASSUME NEW p \in Process, NEW end \in {"failed", "dead"}, Stop(p, end) PROVE AInv'
  <2>1. /\ pc' = [pc EXCEPT ![p] = end] /\ loaded' = loaded /\ pc'[p] = end
        /\ snapshot' = snapshot /\ p \in Open
        /\ pc[p] \in InputSteps \cup OutputSteps
    BY <1>1, <1>9 DEF Stop, Advance, reader, Open
  <2>2. Mine(p)'
    BY <2>1 DEF Mine, OutputSteps
  <2> DEFINE Left == OwnOutput(disk)' /\ (disk' = disk \/ disk'.by \in {p, None})
  <2>3. ASSUME disk' \in {disk, Unreadable} PROVE Left
    BY <2>3 DEF AInv, OwnOutput, Unreadable, NoFile, NoSnapshot
  <2>4. ASSUME Partial(p) \/ disk' = image[p], pc[p] \in InputSteps PROVE Left
    BY <2>1, <2>4, LeftOnDisk DEF OwnOutput, NoSnapshot
  <2>5. ASSUME Partial(p) \/ disk' = image[p], pc[p] \in OutputSteps PROVE Left
    BY <2>1, <2>5, LeftOnDisk DEF AInv, Mine, OwnOutput
  <2>6. Left
    BY <1>9, <2>1, <2>3, <2>4, <2>5 DEF Stop
  <2> QED
    BY <2>1, <2>2, <2>6, AloneStep DEF InputSteps, OutputSteps, Ended
<1>10. ASSUME NEW p \in Process, Throw(p) \/ Crash(p) PROVE AInv'
  <2>1. CASE /\ pc[p] = "closed" /\ pc' = [pc EXCEPT ![p] = "dead"]
             /\ UNCHANGED <<snapshot, input, todo, image, disk, reader>>
    <3>1. Mine(p)'
      BY <1>1, <2>1 DEF Mine, OutputSteps
    <3> QED
      BY <2>1, <3>1, AloneStep DEF AInv, OwnOutput, Ended, reader
  <2> QED
    BY <1>9, <1>10, <2>1 DEF Throw, Crash
<1>11. CASE ScopeGuard
  <2>1. UNCHANGED <<pc, snapshot, disk>> /\ loaded' \in {disk, NoFile}
    BY <1>11 DEF ScopeGuard, writers
  <2> QED
    BY <2>1 DEF AInv, Mine, Finished, OwnOutput, Copied, NoFile, NoSnapshot
<1>12. CASE UNCHANGED vars
  BY <1>12 DEF vars, AInv, Mine, Finished, OwnOutput, Copied
<1> QED
  BY <1>2, <1>3, <1>4, <1>5, <1>6, <1>7, <1>8, <1>10, <1>11, <1>12
  DEF Next, create_kernel_dump, append_kernel_output

LEMMA AInvInit == Init => AInv
BY DEF Init, AInv, Mine, Finished, OwnOutput, NoFile, NoSnapshot, OutputSteps

LEMMA AInvAlways == OneAtATime => (Spec => []AInv)
<1> SUFFICES ASSUME OneAtATime PROVE Spec => []AInv
  OBVIOUS
<1>1. IInv /\ IInv' /\ AInv /\ [Next]_vars => AInv'
  BY AInvNext
<1> QED
  BY <1>1, AInvInit, IInvAlways, PTL DEF Spec

(* When the processes run one after the other, outputs that are loaded are *)
(* of the process whose inputs are loaded with them.                       *)
THEOREM OutputOfItsInputAlways == OneAtATime => (Spec => []OutputOfItsInput)
<1>1. AInv => OutputOfItsInput
  BY DEF AInv, OwnOutput, OutputOfItsInput
<1> QED
  BY <1>1, AInvAlways, PTL

(* And a dump whose process reports no error loads, with its outputs once  *)
(* the process is done.                                                    *)
THEOREM RecordedDumpLoadsAlways == OneAtATime => (Spec => []RecordedDumpLoads)
<1>1. IInv /\ AInv => RecordedDumpLoads
  <2> SUFFICES ASSUME IInv, AInv, NEW p \in Process,
                      pc[p] \in {"closed", "done"}, disk.by = p, input[p] \cap Skipped = {}
               PROVE  /\ Loadable(disk)
                      /\ pc[p] = "done" =>
                           /\ disk.out.made = "views" /\ disk.out.by = p
                           /\ \A v \in View :
                                disk.out.views[v] = IF v \in snapshot[p] THEN Copied(v)
                                                    ELSE "no"
    BY DEF RecordedDumpLoads
  <2>1. disk.form = "hdf5" /\ disk.functor = "written" /\ disk.inner = "written"
    BY DumpFileAssumption DEF IInv, WrittenFrom, Recorded
  <2>2. WholeInput(disk)
    BY <2>1 DEF IInv, WrittenFrom
  <2>3. ReadsInput(disk) /\ disk.metadata
    BY <2>1, <2>2 DEF ReadsInput, WholeInput, Copied
  <2>4. /\ pc[p] = "closed" => disk.out.made = "no"
        /\ pc[p] = "done" =>
             /\ disk.out.made = "views" /\ disk.out.by = p
             /\ \A v \in View :
                  disk.out.views[v] = IF v \in snapshot[p] THEN Copied(v) ELSE "no"
    BY DEF AInv, Mine, NoSnapshot
  <2>5. ReadsRest(disk)
    BY <2>1, <2>2, <2>4 DEF ReadsRest, WholeInput, Copied
  <2> QED
    BY <2>3, <2>4, <2>5 DEF Loadable
<1> QED
  BY <1>1, IInvAlways, AInvAlways, PTL

-----------------------------------------------------------------------------
(* The refinement: what can be loaded goes from nothing to a whole input,  *)
(* from there to the same input with outputs, and to nothing again.        *)

StoreStep ==
  \/ dumped' = None /\ appended' = None
  \/ \E p \in Process :
       \/ dumped = None /\ dumped' = p /\ appended' = None
       \/ dumped = p /\ appended = None /\ dumped' = p /\ appended' = p
  \/ dumped' = dumped /\ appended' = appended

(* The input of p appears on the disk, whole or not, where there was none. *)
LEMMA InputAppears ==
  ASSUME NEW p \in Process, disk = Unreadable, disk'.by = p, disk'.out = NoSnapshot
  PROVE  StoreStep
<1>1. ~Loadable(disk)
  BY DEF Loadable, ReadsInput, Unreadable, NoFile
<1>2. disk'.out.made # "views"
  BY DEF NoSnapshot
<1> QED
  BY <1>1, <1>2 DEF StoreStep, dumped, appended

(* Outputs of p are added to its file, which loads only if it did before.  *)
LEMMA OutputAppears ==
  ASSUME NEW p \in Process, disk.by = p, disk.out.made = "no",
         disk'.form = disk.form, disk'.by = disk.by, disk'.in = disk.in,
         disk'.metadata = disk.metadata, disk'.policy = disk.policy,
         disk'.functor = disk.functor, disk'.inner = disk.inner,
         disk'.out.made = "views" => disk'.out.by = p
  PROVE  StoreStep
<1>1. Loadable(disk)' => Loadable(disk)
  BY DEF Loadable, ReadsInput, ReadsRest
<1>2. appended = None
  BY DEF appended
<1>3. CASE Loadable(disk)'
  BY <1>1, <1>2, <1>3 DEF StoreStep, dumped, appended
<1>4. CASE ~Loadable(disk)'
  BY <1>4 DEF StoreStep, dumped, appended
<1> QED
  BY <1>3, <1>4

(* Every step of DumpFile is a step of DumpStore or changes nothing there. *)
LEMMA StoreNext == OneAtATime /\ IInv /\ AInv /\ [Next]_vars => StoreStep
<1> SUFFICES ASSUME OneAtATime, IInv, AInv, [Next]_vars PROVE StoreStep
  OBVIOUS
<1> USE DumpFileAssumption
<1>1. pc \in [Process -> Step] /\ disk \in File /\ image \in [Process -> File]
  BY DEF IInv, DumpFileTypeOK
<1>2. CASE disk' = disk
  BY <1>2 DEF StoreStep, dumped, appended, Loadable, ReadsInput, ReadsRest
<1>3. CASE disk' = Unreadable
  <2>1. ~Loadable(disk)'
    BY <1>3 DEF Loadable, ReadsInput, Unreadable, NoFile
  <2> QED
    BY <2>1 DEF StoreStep, dumped, appended
<1>4. ASSUME NEW p \in Open, Partial(p) \/ disk' = image[p] PROVE StoreStep
  <2>1. p \in Process /\ pc[p] \in InputSteps \cup OutputSteps
    BY DEF Open
  <2>2. CASE pc[p] \in InputSteps
    <3>1. disk = Unreadable
      BY <2>1, <2>2 DEF IInv, InputImage
    <3>2. disk'.by = p /\ disk'.out = NoSnapshot
      BY <1>4, <2>2, LeftOnDisk
    <3> QED
      BY <2>1, <3>1, <3>2, InputAppears
  <2>3. CASE pc[p] \in OutputSteps
    <3>1. disk.by = p /\ disk.out.made = "no"
      <4>1. Mine(p) /\ OutputImage(p)
        BY <2>1 DEF AInv, IInv
      <4>2. NoSnapshot.made = "no"
        BY DEF NoSnapshot
      <4> QED
        BY <2>3, <4>1, <4>2 DEF Mine, OutputImage, OutputSteps
    <3>2. /\ disk'.form = disk.form /\ disk'.by = disk.by /\ disk'.in = disk.in
          /\ disk'.metadata = disk.metadata /\ disk'.policy = disk.policy
          /\ disk'.functor = disk.functor /\ disk'.inner = disk.inner
          /\ disk'.out.made = "views" => disk'.out.by = p
      BY <1>4, <2>3, <3>1, LeftOnDisk
    <3> QED
      BY <2>1, <3>1, <3>2, OutputAppears
  <2> QED
    BY <2>1, <2>2, <2>3
<1>5. ASSUME NEW p \in Process, CloseInput(p) \/ CloseOutput(p) PROVE StoreStep
  BY <1>4, <1>5 DEF CloseInput, CloseOutput, Open, InputSteps, OutputSteps
<1>6. ASSUME NEW p \in Process, Throw(p) \/ Crash(p) PROVE StoreStep
  BY <1>2, <1>3, <1>4, <1>6 DEF Throw, Crash, Stop
<1>7. ASSUME NEW p \in Process, H5Fcreate(p) \/ H5FcreateFails(p) PROVE StoreStep
  BY <1>2, <1>3, <1>7 DEF H5Fcreate, H5FcreateFails
<1>8. ASSUME NEW p \in Process,
             \/ StartInput(p) \/ WriteInput(p) \/ InputWritten(p) \/ WriteMetadata(p)
             \/ WritePolicy(p) \/ WriteFunctor(p) \/ WriteInnerLambda(p)
             \/ H5Fopen(p) \/ H5FopenFails(p)
             \/ StartOutput(p) \/ WriteOutput(p) \/ OutputWritten(p)
      PROVE  StoreStep
  BY <1>2, <1>8 DEF StartInput, WriteInput, InputWritten, WriteMetadata, WritePolicy,
     WriteFunctor, WriteInnerLambda, H5Fopen, H5FopenFails, StartOutput, WriteOutput,
     OutputWritten
<1> QED
  BY <1>2, <1>5, <1>6, <1>7, <1>8
  DEF Next, create_kernel_dump, append_kernel_output, ScopeGuard, writers, vars

(* One process after the other, the file that can be loaded behaves as     *)
(* DumpStore says, through every failure and crash.                        *)
THEOREM DumpFileImplementsDumpStore == OneAtATime => (Spec => ImplementsDumpStore)
<1> SUFFICES ASSUME OneAtATime PROVE Spec => ImplementsDumpStore
  OBVIOUS
<1>1. Init => Store!Init
  BY DEF Init, Store!Init, dumped, appended, Loadable, ReadsInput, NoFile
<1>2. StoreStep => [Store!Next]_<<dumped, appended>>
  BY DEF StoreStep, dumped, appended, Store!Next, Store!Lose, Store!Publish, Store!Complete
<1>3. IInv /\ AInv /\ [Next]_vars => [Store!Next]_<<dumped, appended>>
  BY <1>2, StoreNext
<1> QED
  BY <1>1, <1>3, IInvAlways, AInvAlways, PTL DEF ImplementsDumpStore, Store!Spec, Spec
=============================================================================
