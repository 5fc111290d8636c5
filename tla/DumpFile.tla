------------------------------ MODULE DumpFile ------------------------------
(***************************************************************************)
(* One dump file through its life (capture/view_dump.cpp, and the reads of *)
(* replay/kernel_replayer.cpp).  Runs of the application, one after the    *)
(* other or together (the ranks of an MPI job), dump the same kernel, and  *)
(* the file name has only the label and the kernel id: krepe_<label>_<id>. *)
(* Each truncates the file and writes the input part, closes it, runs the  *)
(* kernel, opens the file again by name and appends the output part.  Any  *)
(* HDF5 call may fail, which throws and closes what is open, and a process *)
(* may die at any step.  A replay process loads what is in the file.       *)
(*                                                                         *)
(* HDF5 is external: a file open for writing is locked, so no other open   *)
(* succeeds; what an open handle wrote reaches the disk when it is closed. *)
(* When the process dies first, or the close fails, the disk holds what it *)
(* held before, all of what was written, or a file HDF5 cannot open.       *)
(*                                                                         *)
(* An operator no action uses (FailedCreateRecorded, ...) is a slip in the *)
(* definition that follows it, and a property must catch it.               *)
(***************************************************************************)
EXTENDS Integers, FiniteSets

CONSTANTS
  Process,     \* runs of the application that write this file
  View,        \* allocations a snapshot may hold
  Skipped,     \* those copy_allocation_bytes has a reason to skip
  Key,         \* metadata keys
  MetadataOf,  \* the keys each process adds with krepe::add_metadata
  OneAtATime,  \* a process starts when the ones before it have ended
  MayFail,     \* HDF5 calls may throw and processes may die
  HdlReplayer, \* the replayer is built with the nvcc lambda workaround
  MaxGuards,   \* bound: ScopeGuards constructed in the replay process
  None

ASSUME DumpFileAssumption ==
  /\ None \notin Process
  /\ Skipped \subseteq View
  /\ MetadataOf \in [Process -> SUBSET Key]
  /\ OneAtATime \in BOOLEAN
  /\ MayFail \in BOOLEAN
  /\ HdlReplayer \in BOOLEAN
  /\ MaxGuards \in Nat

VARIABLES
  pc,       \* of each process: how far its one dump is
  snapshot, \* of each process: the allocations of the snapshot being written
  input,    \* history: those of its input snapshot
  todo,     \* of each process: those write_snapshot has not reached
  image,    \* of each process: the file as its open handle has it
  disk,     \* the file under the name
  guards,   \* number of ScopeGuards the replay process has constructed
  loaded,   \* the file the last one loaded, if its constructor returned
  metadata  \* the replayer's static map: the process a value is from

writers == <<pc, snapshot, input, todo, image, disk>>
reader == <<guards, loaded, metadata>>
vars == <<pc, snapshot, input, todo, image, disk, guards, loaded, metadata>>

-----------------------------------------------------------------------------
(* What is in a file.  A group of one allocation is "bare" until its       *)
(* bytes_dumped attribute is there; then it is "skipped", or "flagged" as  *)
(* long as it says 1 and has no bytes.  A dataset that was created and not *)
(* written reads as zeros.                                                 *)
ViewGroup == {"no", "bare", "flagged", "skipped", "zeros", "written"}
Dataset == {"no", "zeros", "written"}
Snapshot == [made : {"no", "bare", "views"}, views : [View -> ViewGroup],
             by : Process \cup {None}]
File == [form : {"absent", "unreadable", "hdf5"}, by : Process \cup {None},
         in : Snapshot, keys : SUBSET Key, metadata : BOOLEAN,
         policy : {"no", "partial", "written"},
         functor : Dataset, inner : Dataset, out : Snapshot]

NoSnapshot == [made |-> "no", views |-> [v \in View |-> "no"], by |-> None]
NoFile == [form |-> "absent", by |-> None, in |-> NoSnapshot, keys |-> {},
           metadata |-> FALSE, policy |-> "no", functor |-> "no",
           inner |-> "no", out |-> NoSnapshot]
Unreadable == [NoFile EXCEPT !.form = "unreadable"]
NewFile(p) == [NoFile EXCEPT !.form = "hdf5", !.by = p]

InputSteps == {"root", "in", "metadata", "policy", "functor", "inner", "close"}
OutputSteps == {"out", "views", "finish"}
Ended == {"failed", "done", "dead"}
Step == {"idle", "closed"} \cup InputSteps \cup OutputSteps \cup Ended

Open == {p \in Process : pc[p] \in InputSteps \cup OutputSteps}
MayStart(p) == OneAtATime => \A q \in Process \ {p} : pc[q] \in Ended \cup {"idle"}

Init ==
  /\ pc = [p \in Process |-> "idle"]
  /\ snapshot = [p \in Process |-> {}]
  /\ input = [p \in Process |-> {}]
  /\ todo = [p \in Process |-> {}]
  /\ image = [p \in Process |-> NoFile]
  /\ disk = NoFile
  /\ guards = 0
  /\ loaded = NoFile
  /\ metadata = [k \in Key |-> None]

-----------------------------------------------------------------------------
(* The input part: create_kernel_dump.                                     *)

Advance(p, next, file) ==
  /\ pc' = [pc EXCEPT ![p] = next]
  /\ image' = [image EXCEPT ![p] = file]
  /\ UNCHANGED reader

H5FcreateInPlace(p) ==
  /\ pc[p] = "idle" /\ MayStart(p) /\ Open = {}
  /\ \E S \in SUBSET View :
       /\ snapshot' = [snapshot EXCEPT ![p] = S]
       /\ input' = [input EXCEPT ![p] = S]
  /\ Advance(p, "root", NewFile(p))
  /\ UNCHANGED <<todo, disk>>

H5Fcreate(p) ==
  /\ pc[p] = "idle" /\ MayStart(p) /\ Open = {}
  /\ \E S \in SUBSET View :
       /\ snapshot' = [snapshot EXCEPT ![p] = S]
       /\ input' = [input EXCEPT ![p] = S]
  /\ disk' = Unreadable
  /\ Advance(p, "root", NewFile(p))
  /\ UNCHANGED todo

FailedCreateRecorded(p) ==
  /\ MayFail /\ pc[p] = "idle" /\ MayStart(p)
  /\ pc' = [pc EXCEPT ![p] = "closed"]
  /\ disk' \in {disk} \cup (IF Open = {} THEN {Unreadable} ELSE {})
  /\ UNCHANGED <<snapshot, input, todo, image, reader>>

H5FcreateFails(p) ==
  /\ MayFail /\ pc[p] = "idle" /\ MayStart(p)
  /\ pc' = [pc EXCEPT ![p] = "failed"]
  /\ disk' \in {disk} \cup (IF Open = {} THEN {Unreadable} ELSE {})
  /\ UNCHANGED <<snapshot, input, todo, image, reader>>

StartedSnapshot(p) == [NoSnapshot EXCEPT !.made = "views", !.by = p]
PartialSnapshots(p) ==
  {NoSnapshot, [NoSnapshot EXCEPT !.made = "bare", !.by = p], StartedSnapshot(p)}

(* write_snapshot creates its groups, then one group per allocation.       *)
StartInput(p) ==
  /\ pc[p] = "root"
  /\ todo' = [todo EXCEPT ![p] = snapshot[p]]
  /\ Advance(p, "in", [image[p] EXCEPT !.in = StartedSnapshot(p)])
  /\ UNCHANGED <<snapshot, input, disk>>

CopiedUnflagged(v) == IF v \in Skipped THEN "skip_reason" ELSE "written"
Copied(v) == IF v \in Skipped THEN "skipped" ELSE "written"
PartialViews(v) ==
  IF v \in Skipped THEN {"no", "bare", "skipped"}
  ELSE {"no", "bare", "flagged", "zeros"}

WriteInput(p) ==
  /\ pc[p] = "in"
  /\ \E v \in todo[p] :
       /\ todo' = [todo EXCEPT ![p] = @ \ {v}]
       /\ Advance(p, "in", [image[p] EXCEPT !.in.views[v] = Copied(v)])
  /\ UNCHANGED <<snapshot, input, disk>>

InputWrittenEarly(p) ==
  /\ pc[p] = "in" /\ Cardinality(todo[p]) <= 1
  /\ Advance(p, "metadata", image[p])
  /\ UNCHANGED <<snapshot, input, todo, disk>>

InputWritten(p) ==
  /\ pc[p] = "in" /\ todo[p] = {}
  /\ Advance(p, "metadata", image[p])
  /\ UNCHANGED <<snapshot, input, todo, disk>>

WriteMetadata(p) ==
  /\ pc[p] = "metadata"
  /\ Advance(p, "policy", [image[p] EXCEPT !.metadata = TRUE,
                                           !.keys = MetadataOf[p]])
  /\ UNCHANGED <<snapshot, input, todo, disk>>

WritePolicy(p) ==
  /\ pc[p] = "policy"
  /\ Advance(p, "functor", [image[p] EXCEPT !.policy = "written"])
  /\ UNCHANGED <<snapshot, input, todo, disk>>

WriteFunctor(p) ==
  /\ pc[p] = "functor"
  /\ Advance(p, "inner", [image[p] EXCEPT !.functor = "written"])
  /\ UNCHANGED <<snapshot, input, todo, disk>>

WriteInnerLambda(p) ==
  /\ pc[p] = "inner"
  /\ Advance(p, "close", [image[p] EXCEPT !.inner = "written"])
  /\ UNCHANGED <<snapshot, input, todo, disk>>

(* close_checked, and begin_kernel keeps the path for the end of the       *)
(* kernel; without it there is no output part.                             *)
CloseInput(p) ==
  /\ pc[p] = "close"
  /\ disk' = image[p]
  /\ Advance(p, "closed", NoFile)
  /\ UNCHANGED <<snapshot, input, todo>>

-----------------------------------------------------------------------------
(* The output part: append_kernel_output, once the kernel has run.         *)

H5FopenTruncates(p) ==
  /\ pc[p] = "closed" /\ Open = {} /\ disk.form = "hdf5"
  /\ snapshot' \in {[snapshot EXCEPT ![p] = S] : S \in SUBSET View}
  /\ Advance(p, "out", NewFile(p))
  /\ UNCHANGED <<input, todo, disk>>

H5Fopen(p) ==
  /\ pc[p] = "closed" /\ Open = {} /\ disk.form = "hdf5"
  /\ snapshot' \in {[snapshot EXCEPT ![p] = S] : S \in SUBSET View}
  /\ Advance(p, "out", disk)
  /\ UNCHANGED <<input, todo, disk>>

H5FopenFails(p) ==
  /\ pc[p] = "closed" /\ (MayFail \/ Open # {} \/ disk.form # "hdf5")
  /\ pc' = [pc EXCEPT ![p] = "failed"]
  /\ UNCHANGED <<snapshot, input, todo, image, disk, reader>>

(* H5Gcreate2 refuses a group that exists.                                 *)
StartOutput(p) ==
  /\ pc[p] = "out" /\ image[p].out.made = "no"
  /\ todo' = [todo EXCEPT ![p] = snapshot[p]]
  /\ Advance(p, "views", [image[p] EXCEPT !.out = StartedSnapshot(p)])
  /\ UNCHANGED <<snapshot, input, disk>>

WriteOutput(p) ==
  /\ pc[p] = "views"
  /\ \E v \in todo[p] :
       /\ todo' = [todo EXCEPT ![p] = @ \ {v}]
       /\ Advance(p, "views", [image[p] EXCEPT !.out.views[v] = Copied(v)])
  /\ UNCHANGED <<snapshot, input, disk>>

OutputWritten(p) ==
  /\ pc[p] = "views" /\ todo[p] = {}
  /\ Advance(p, "finish", image[p])
  /\ UNCHANGED <<snapshot, input, todo, disk>>

CloseOutput(p) ==
  /\ pc[p] = "finish"
  /\ disk' = image[p]
  /\ Advance(p, "done", NoFile)
  /\ UNCHANGED <<snapshot, input, todo>>

-----------------------------------------------------------------------------
(* A step does not come to its end: an HDF5 call throws, every handle is   *)
(* closed on the way out, and no further part is written; or the process   *)
(* dies.                                                                   *)
Partial(p) ==
  \/ pc[p] = "root" /\ \E s \in PartialSnapshots(p) :
       disk' = [image[p] EXCEPT !.in = s]
  \/ pc[p] = "in" /\ \E v \in todo[p] : \E g \in PartialViews(v) :
       disk' = [image[p] EXCEPT !.in.views[v] = g]
  \/ pc[p] = "metadata" /\ \E K \in SUBSET MetadataOf[p] :
       disk' = [image[p] EXCEPT !.metadata = TRUE, !.keys = K]
  \/ pc[p] = "policy" /\ disk' = [image[p] EXCEPT !.policy = "partial"]
  \/ pc[p] = "functor" /\ disk' = [image[p] EXCEPT !.functor = "zeros"]
  \/ pc[p] = "inner" /\ disk' = [image[p] EXCEPT !.inner = "zeros"]
  \/ pc[p] = "out" /\ image[p].out.made = "no" /\ \E s \in PartialSnapshots(p) :
       disk' = [image[p] EXCEPT !.out = s]
  \/ pc[p] = "views" /\ \E v \in todo[p] : \E g \in PartialViews(v) :
       disk' = [image[p] EXCEPT !.out.views[v] = g]

Stop(p, end) ==
  /\ p \in Open
  /\ disk' \in {disk, Unreadable, image[p]} \/ Partial(p)
  /\ Advance(p, end, NoFile)
  /\ UNCHANGED <<snapshot, input, todo>>

Throw(p) ==
  /\ MayFail \/ (pc[p] = "out" /\ image[p].out.made # "no")
  /\ Stop(p, "failed")

Crash(p) ==
  /\ MayFail
  /\ \/ Stop(p, "dead")
     \/ /\ pc[p] = "closed"
        /\ pc' = [pc EXCEPT ![p] = "dead"]
        /\ UNCHANGED <<snapshot, input, todo, image, disk, reader>>

-----------------------------------------------------------------------------
(* The replayer: what the constructor of ScopeGuard reads, in its order.   *)
(* A skipped input, or one without bytes, makes it throw; a skipped output *)
(* is left out; a file without outputs is fine.  metadata is filled before *)
(* the functor is read and keeps what it has.                              *)
ReadsInput(f) ==
  /\ f.form = "hdf5"
  /\ f.in.made = "views"
  /\ \A v \in View : f.in.views[v] \in {"no", "zeros", "written"}

ReadsRest(f) ==
  /\ f.functor # "no"
  /\ HdlReplayer => f.inner # "no"
  /\ f.policy = "written"
  /\ f.out.made = "views" =>
       \A v \in View : f.out.views[v] \in {"no", "skipped", "zeros", "written"}

Loadable(f) == ReadsInput(f) /\ f.metadata /\ ReadsRest(f)

InsertedOnce(f) ==
  [k \in Key |-> IF k \in f.keys /\ \A j \in Key : metadata[j] = None
                 THEN f.by ELSE metadata[k]]

Inserted(f) ==
  [k \in Key |-> IF k \in f.keys /\ metadata[k] = None THEN f.by ELSE metadata[k]]

(* "fits" is whether the captured addresses could be mapped, which module  *)
(* ReplayScope is about.  A file open for writing cannot be opened.        *)
ScopeGuard ==
  /\ guards < MaxGuards
  /\ guards' = guards + 1
  /\ \E fits \in BOOLEAN :
       LET f == IF Open = {} /\ fits THEN disk ELSE NoFile
       IN  /\ loaded' = IF Loadable(f) THEN f ELSE NoFile
           /\ metadata' = IF ReadsInput(f) /\ f.metadata THEN Inserted(f)
                          ELSE metadata
  /\ UNCHANGED writers

-----------------------------------------------------------------------------
create_kernel_dump(p) ==
  \/ H5Fcreate(p) \/ H5FcreateFails(p) \/ StartInput(p) \/ WriteInput(p)
  \/ InputWritten(p) \/ WriteMetadata(p) \/ WritePolicy(p) \/ WriteFunctor(p)
  \/ WriteInnerLambda(p) \/ CloseInput(p)

append_kernel_output(p) ==
  \/ H5Fopen(p) \/ H5FopenFails(p) \/ StartOutput(p) \/ WriteOutput(p)
  \/ OutputWritten(p) \/ CloseOutput(p)

Next ==
  \/ \E p \in Process : \/ create_kernel_dump(p) \/ append_kernel_output(p)
                        \/ Throw(p) \/ Crash(p)
  \/ ScopeGuard

Spec == Init /\ [][Next]_vars

-----------------------------------------------------------------------------
DumpFileTypeOK ==
  /\ pc \in [Process -> Step]
  /\ snapshot \in [Process -> SUBSET View]
  /\ input \in [Process -> SUBSET View]
  /\ todo \in [Process -> SUBSET View]
  /\ image \in [Process -> File]
  /\ disk \in File
  /\ guards \in 0 .. MaxGuards
  /\ loaded \in File
  /\ metadata \in [Key -> Process \cup {None}]

(* A file that loads has the whole input snapshot of the process that      *)
(* created it, its metadata and its policy, however the process ended:     *)
(* create_kernel_dump writes the functor last and ScopeGuard asks for it.  *)
(* The bytes of the functor may be zeros, when writing them failed, which  *)
(* the process then reported.                                              *)
LoadedInputIsWhole ==
  loaded.form = "hdf5" =>
    /\ loaded.by \in Process
    /\ loaded.in.by = loaded.by
    /\ {v \in View : loaded.in.views[v] = "written"} = input[loaded.by]
    /\ \A v \in View : loaded.in.views[v] \in {"no", "written"}
    /\ loaded.keys = MetadataOf[loaded.by]
    /\ loaded.functor = "zeros" => pc[loaded.by] \in {"failed", "dead"}

(* The reference outputs a replay is compared with are those of the launch *)
(* whose inputs it loads.  The file is closed while the kernel runs, and   *)
(* append_kernel_output opens it again by its name only.                   *)
OutputOfItsInput ==
  loaded.out.made = "views" => loaded.out.by = loaded.by

(* Once begin_kernel has the path the dump loads, even before its output   *)
(* is there, unless an input was skipped; once the output is appended the  *)
(* file has every allocation of the output snapshot too, and still loads.  *)
RecordedDumpLoads ==
  \A p \in Process :
    pc[p] \in {"closed", "done"} /\ disk.by = p /\ input[p] \cap Skipped = {} =>
      /\ Loadable(disk)
      /\ pc[p] = "done" =>
           /\ disk.out.made = "views" /\ disk.out.by = p
           /\ \A v \in View :
                disk.out.views[v] = IF v \in snapshot[p] THEN Copied(v) ELSE "no"

(* get_metadata answers for every key of the dump that is loaded.  Only    *)
(* the answers after the first guard of a process are sure to be of that   *)
(* dump: insert keeps what an earlier guard read, its constructor having   *)
(* returned or not.                                                        *)
MetadataAnswers ==
  loaded.form = "hdf5" =>
    \A k \in Key :
      /\ k \in loaded.keys => metadata[k] # None
      /\ guards = 1 => metadata[k] = IF k \in loaded.keys THEN loaded.by ELSE None

(* What a reader of the file can see implements DumpStore: a whole input   *)
(* appears in place of nothing, outputs are added once, by the process the *)
(* input is from, and whatever else happens leaves nothing to load.        *)
dumped == IF Loadable(disk) THEN disk.by ELSE None
appended == IF Loadable(disk) /\ disk.out.made = "views" THEN disk.out.by ELSE None

Store == INSTANCE DumpStore WITH dump <- dumped, outputs <- appended
ImplementsDumpStore == Store!Spec
=============================================================================
