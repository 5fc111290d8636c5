# KREPE in TLA+

A model of KREPE (Kernel Replay, Execution for Performance Evaluation): the tool
that dumps the memory, the functor and the execution policy of one Kokkos kernel
to an HDF5 file while an application runs, and the library that loads such a file
into another process, each allocation at the address it had, and runs the kernel
again. Paths below are relative to the repository.

Contents: 1 the system, 2 the modules, 3 correspondence with the code, 4 the runs,
5 fairness, 6 the proofs, 7 findings, 8 what is left out, 9 the plan.

## 1. The system

| Component | State | Operations | Talks to |
|---|---|---|---|
| Allocation tracker `src/krepe/capture/allocation_tracker.*` | `active_allocations_` (live allocations by space and address), `used_allocations_` (registered View pointers, sorted), both under `mutex_` | record / erase an allocation, register / clear pointers, `snapshot` | called by the hooks and by the staging entry points |
| Size detection `capture/kokkos_hooks.cpp` | none | is a reported size the size of the data or of the header of an empty View? | asks malloc, CUDA or HIP for the extent of the block |
| Capture hooks `capture/kokkos_hooks.cpp` | `next_kernel_id`, `kernel_invocations`, `kernel_states` (under `state_mutex`); `functor_data`, `policy`, `metadata` (without a lock) | `kokkosp_*` hooks, `next_invocation_will_dump`, `copy_functor`, `register_*` | called by Kokkos on every thread, and by the extractor |
| Dump writer `capture/view_dump.cpp`, `memory_copy.cpp` | the file while it is open; its name in `kernel_states` between the two parts | `create_kernel_dump` (inputs, metadata, policy, functor), `append_kernel_output` | reads memory of the application, writes HDF5 |
| Extractor `extract/kernel_extractor.*` | function pointers bound at the first call | `parallel_for`, `replay_functor`, `register_bounds`, `add_metadata` | linked into the application; finds the tool with `dlsym` |
| Policy `extract/kernel_extractor.hpp`, `capture/view_dump.cpp`, `replay/kernel_replayer.*` | a `PolicyDesc` | `register_bounds` takes it apart, `write_policy` stores it, `read_policy_from_hdf5` and `ParallelForVisitor` build it again | extractor, tool, file, replayer |
| Compiler plugins `compiler_plugins/*` | none at run time | walk the type of the functor, insert `clear_registered_views` and `register_view` at the head of `replay_functor` | the tracker |
| Region planning `replay/allocation.hpp`, `compute_allocations` | none | the whole pages to map for a set of allocations | its result is mapped by the replay scope |
| Replay scope `replay/kernel_replayer.cpp` (`ScopeGuard`) | two vectors of `Allocation`, the label maps, functor, policy; `metadata` is static | constructor, destructor, `get_allocation`, `get_out_allocation`, `has_out_allocation` | HDF5, mmap, CUDA / HIP |
| Replay of functor and policy `replay/kernel_replayer.hpp` | the bytes read from the dump, Kokkos' tracking flag | `replay_functor`, `parallel_for`, `force_policy`, `ParallelForVisitor` | Kokkos |
| Command line `remove_cli_args`, `find_flag_argument` | argv, argc | take KREPE's argument out | read by Kokkos afterwards |

What is hard:

* **The launch is spread over calls.** `krepe::parallel_for` asks whether the next
  launch will be dumped, stages policy, Views and functor in globals, and then calls
  Kokkos, which calls the begin hook, dispatches the kernel and calls the end hook.
  Other threads launch kernels and create or destroy Views between any two of these.
* **Kernels are asynchronous.** The bytes a snapshot should hold are those after all
  work issued before it, which only the fences make true.
* **Locks are short.** The snapshot is taken under the tracker's mutex, its bytes are
  copied without it; staged data are never locked.
* **Steps fail.** Any HDF5 call may throw, in the middle of the input or of the output,
  and the application may die with the file open. What is left has to be refused, or be
  what a complete dump would be.
* **The file has no owner.** It is closed while the kernel runs and opened again by its
  name, which two processes of one application share.
* **The revived functor is foreign.** Its bytes hold handles of `View`s to records of
  the process that was captured; no destructor may give one back.
* **Numbers change their type.** Bounds of any index type travel as 64-bit words.
* **Addresses are fixed on replay.** An allocation has to be restored exactly where it
  was, in a process that uses memory of its own and whose drivers allocate more.
* **Construction unwinds.** Every step of `ScopeGuard`'s constructor may throw; the
  memory mapped so far has to be given back, by `Allocation`s that a growing vector
  has moved.

What makes each part correct:

* Tracker: its table agrees with the Kokkos heap at every moment; a snapshot holds
  exactly the user's Views in question, and no byte twice.
* Hooks: at most one dump, of the chosen launch; inputs as the launch found them,
  outputs as it left them, its own functor and policy; nothing is left behind in
  `kernel_states`; a failed input is never followed by an output.
* Dump writer: what loads has a whole input and the outputs of that launch, however the
  process ended.
* Policy: the launch of the replay is the launch that was captured, for every index type.
* Plugins: every View inside the functor is registered.
* Region planning: regions are disjoint, cover every allocation, are whole pages and
  include no page that is not needed.
* Replay scope: every byte restored at its address, nothing of the process overwritten,
  input and reference output of a label paired, mappings given back.
* Functor and command line: the kernel runs with the captured bytes, no foreign handle is
  released, tracking is on again; the program and Kokkos get every other argument.

The full list of hazards, each at its line, is in `PROJECT.json`.

## 2. The modules

```
DataSize <- AllocationTracker <- MCAllocationTracker
                  ^------------- AllocationTrackerProofs

CaptureOnce (abstract)
   ^ INSTANCE with a refinement mapping
KernelCapture <- KernelCaptureProps <- MCKernelCapture
                        ^------------- KernelCaptureProofs <- CaptureRefinementProofs
                                                ^------------ CaptureDataProofs

DumpStore (abstract)
   ^ INSTANCE with a refinement mapping
DumpFile <- MCDumpFile
   ^------- DumpFileProofs

Regions <- RegionMerge <- MCRegionMerge
   ^            ^-------- RegionMergeProofs
   | INSTANCE twice: host pages, device granularity
ReplayScope <- ReplayProps <- MCReplay
                   ^--------- ReplayScopeProofs

CommandLine, PolicyCodec <- ReplayLaunch <- MCReplayLaunch
                                  ^-------- ReplayLaunchProofs

FunctorViews <- MCFunctorViews
```

* `DataSize` - `allocation_data_size` and `validated_data_size` over integers.
* `AllocationTracker` - the tracker, the two hooks that feed it, and the Kokkos heap
  as an environment: blocks with a header, data and malloc's padding, in three phases
  (`raw`: obtained but not reported, `reported`, `dying`: reported as released but
  not returned). Properties are at its end.
* `CaptureOnce` - the promise of the capture, without the how: the chosen launch of
  the label, its input before it runs, its output after and only if there is an
  input, nothing twice and nothing lost.
* `KernelCapture` - application threads, extractor, staging, hooks, dump writer and an
  asynchronous device. `KernelCaptureProps` holds its invariants, the refinement
  mapping to `CaptureOnce`, what documentation and comments say of it, and, under names
  (`StagedByOneThread`, `CopiesKernelViews`, `CopiesSafe`), what an application has to
  grant for the contents of the dump to be right.
* `DumpStore` - the promise of the file: an input of one process or nothing, and outputs
  of that process only.
* `DumpFile` - the file from `H5Fcreate` to what a `ScopeGuard` makes of it: the HDF5
  steps of `view_dump.cpp`, with failures, deaths and processes that share the name, and
  the guards of a replay process with their static metadata.
* `Regions`, `RegionMerge` - page arithmetic and one loop iteration as operators; the
  loop of `compute_allocations` as a state machine, so that its loop invariant can be
  stated.
* `ReplayScope`, `ReplayProps` - the life of a `ScopeGuard`: constructor step by step
  with everything that may throw, one replay, destructor. It composes `Regions`
  (with the two granularities) with an address space, a vector of `Allocation`s and
  the label maps.
* `CommandLine` - `find_flag_argument` and `remove_cli_args`, one step per turn of their
  loops. `PolicyCodec` - every type of policy through its four conversions, as operators.
* `ReplayLaunch` - composes the two: from the command line over the dump to the launch,
  with `replay_functor` one statement at a time.
* `FunctorViews` - the walk of the compiler plugins over the type of a functor.

Some modules contain operators that no action uses (`SnapshotForgetsViews`,
`NeverMerged`, `DeviceInitFirst`, `FailedCreateRecorded`, `OrZero`, ...). Each is a
plausible slip in the definition that follows it; `PROJECT.json` says which property refutes it, so that every property is
known to depend on the code it is about.

## 3. Correspondence with the code

`PROJECT.json` maps each definition to the lines it translates. The main choices:

**AllocationTracker.** Each method of the class holds `mutex_` throughout and is one
step. `kokkosp_allocate_data` computes the size first and records afterwards; the
computation reads nothing of the tool, so hook and record are one step.
`kokkosp_deallocate_data` does not test the label, as in the code. `LowerBound` is
`std::lower_bound` with the iterator as a set of at most one element. Blocks of one
space do not overlap; spaces are independent, as their address ranges are disjoint
keys of the map. `register_view` takes any pointer into a live View (interior, one past
the end for an empty View) or null.

**KernelCapture.** A step is a critical section of `state_mutex` or of the tracker, or
one unlocked access of a global. `pc[t]` says where thread `t` is:

| pc | code |
|---|---|
| `app` | between launches; `ViewStep` creates and destroys its Views |
| `ask` | `krepe::parallel_for`: binding and `next_invocation_will_dump` |
| `replay` | `krepe::replay_functor` called by the application |
| `policy`, `clear`, `register`, `functor` | `register_bounds`, the plugin's calls, `copy_functor` |
| `begin`, `count` | `begin_kernel`: the id, then the count under `state_mutex` |
| `fence_in`, `wait_in`, `snap_in`, `create`, `copy_in`, `write_policy`, `write_functor`, `record` | input part of the dump |
| `dispatch` | Kokkos hands the kernel to the device |
| `end` | `end_kernel`: takes the entry out of `kernel_states` |
| `fence_out`, `wait_out`, `snap_out`, `append`, `copy_out` | output part |

The bytes of a View are the launch that wrote them last: `mem` when executed, `issued`
when dispatched. A fence waits for the kernels pending when it was called. The snapshot
is the tracker's, reduced to what `AllocationTracker`'s theorems say of it: reported
Views, with the plugins those of them that are registered. A View's owner does not
destroy it while a functor that has not run captures it (Views are reference counted).
`FailIn` and `FailOut` are the `catch` blocks of the two hooks, enabled at every HDF5
call.

**DumpFile.** `pc[p]` is how far the one dump of process `p` is; between `closed` and
`out` its kernel runs, with no handle on the file. `image[p]` is the file as its open handle
has it, `disk` the file under the name. HDF5 is external, and used as it behaves: a file
open for writing is locked, so another open fails; what was written is sure to be on the
disk only after the close. When a call throws, `ScopedHandle` closes what is open
(`Throw`), and when the process dies nobody does (`Crash`); in both cases the disk holds what
it held before, all that was written, the unfinished step in part (`Partial`), or a file HDF5
cannot open. The group of an allocation goes through `no`, `bare`, `flagged`, `zeros`
and `written`, or ends as `skipped`, in the order of the code's calls. `Loadable` is what
the constructor of `ScopeGuard` asks of a file, in its order, without the mapping of
addresses (`fits`), which `ReplayScope` is about. `metadata` is filled by `insert`, before
the functor is read, so that a constructor that throws later has filled it.

**ReplayScope.** `phase` follows the constructor: read the host allocations (`open`),
merge them into regions (`merge_host`), map these (`map_host`), `device_init`, the same
for the device (`collect`, `merge_device`, `map_device`), copy the inputs and read the
rest (`copy`), read the output groups (`output`). `compute_allocations` takes one step
for what it does before its loop (`Begin`), one per iteration (`Iterate`) and one to
return (`Return`); `todo` holds the allocations still to come, `plan` the locals of the
loop, `pending` the regions it returned that are not mapped yet. `MemoryAssumption` says
that the device granularity is a multiple of the page size, as 32 MiB is;
`DumpsAssumption` that the Views of one dump share no byte, which is what
`SnapshotDisjoint` proves of a snapshot, and lie within the pages of the model. HDF5 visits the groups of `in/views` in any order. `owner` gives
each page to the process, to a host mapping, to a device reservation or to none.
`emplace_back` decides freely whether the vector grows; a moved `Allocation` has lost
its `memory_space` (the move constructor does not copy it), and its destructor reads
either value, which is the choice `asHost` in `Destroy`. A device call on a
host mapping throws out of a destructor: `terminated`. A copy to an address that is not
mapped for it is `fault`. The CUDA version compares the reserved address with the one it
asked for and throws; the HIP version does not, so a reservation may land elsewhere
(`Elsewhere`), and then the driver refuses the copy, which throws. Either version may
throw before it has reserved anything or after: when the reservation is elsewhere, or
when mapping it, giving access to it or releasing the handle fails. What is
reserved by then stays, and belongs to no `Allocation` (`DeviceAllocateThrows`). A build
without a device has no driver to initialise: its `device_init` takes no memory and does not
throw.

**CommandLine, PolicyCodec, ReplayLaunch.** Indices into `argv` are one higher than in the
code; `argc` is a variable of its own, and what is swapped behind it stays there. An
integer of size `s` has `2 * Half[s]` values, and a conversion is a remainder, with
`Half` scaled down for TLC and any positive numbers in the proofs. An optional number is a
sequence of at most one. `at` is the statement of `replay_functor` that is next. The bytes
of a functor are of the user or `stored` in the dump, and `counted` when their View handles
are; a copy made with tracking disabled is not counted, nor is a copy of that one. Destroying
stored, counted bytes is `crashed`. `threw` remembers that `init_functor` threw. A call that
returns has `launched` a policy, or `Nothing` when the functor does not take its arguments;
one without any policy throws out of the visitor, and is `refused`.

**FunctorViews.** The type of a functor is a tree of subobjects, each a member, base class,
array element or referred-to object of another. Both plugins visit members. GCC's list of
fields has base classes, Clang's has not; Clang's plugin looks through references, GCC's
does not; neither enters an array.

## 4. The runs

| Run | Question | Properties |
|---|---|---|
| `tracker` | Does the table agree with the heap; is a snapshot what was registered? | `TrackerTypeOK`, `TrackerMatchesHeap`, `SnapshotHoldsUsedViews`, `SnapshotHoldsOnlyUsedViews`, `SnapshotDisjoint` |
| `capture_threads` | One thread launches the dumped label through `krepe::parallel_for`, another launches other kernels and creates and destroys Views, HDF5 fails: is the dump the chosen kernel? | `TypeOK`, `DumpHoldsItsKernel`, `DumpHoldsInputs`, `DumpHoldsOutputs`, `CopiesLiveMemory`, `KernelStatesMatch`, `ChosenWritesDump`, `ImplementsCaptureOnce` |
| `capture_solo` | The application calls `replay_functor` itself, no plugins, other kernels in between: is the chosen launch dumped, and with its own functor? | `DumpHoldsItsKernel`, `ChosenIsDumped` (liveness) |
| `capture_shared` | Two threads launch the same label without KREPE in the call: one dump, of the chosen launch, whoever counts first? | `AtMostOneDump`, `DumpHoldsOutputs` |
| `dump_file` | Two runs of an application write the file one after the other, calls fail, processes die, a replay process loads at any time: is what loads whole, and its own? | `DumpFileTypeOK`, `LoadedInputIsWhole`, `OutputOfItsInput`, `RecordedDumpLoads`, `MetadataAnswers`, `ImplementsDumpStore` |
| `region_merge` | Every set of up to four allocations: the right pages? | `MergeTypeOK`, `RegionsDisjoint`, `RegionsCover`, `RegionsTight`, `RegionsAligned` |
| `replay_load` | Loading, replaying and closing any dump of a pool, in builds without a device, with CUDA and with HIP, in a process that holds pages | `ScopeTypeOK`, `CopiesLandInMappedMemory`, `NeverInItsOwnWay`, `RestoredWhenReady`, `LookupsPairUp`, `MappingsGivenBack`, `ProcessPagesKept`, `HostDumpIsLoaded` (liveness) |
| `replay_launch` | From any command line and any dump to two launches: is argv kept, the captured policy launched, no foreign handle released, tracking on again? | `ArgvKept`, `LaunchedAsCaptured`, `StoredNeverReleased`, `TrackingBack` |

Four more runs check what a text of the repository says and find it violated (section 7).

**Bounds.** `tracker`: three blocks at two addresses of two spaces (one measurable, one
not), sizes zero, the header's and a larger one, one byte of padding, the legacy size
report, two registered pointers; addresses and sizes are chosen so that blocks touch,
are nested in what another left, and reuse an address.
`capture_*`: two threads (the one that captures and the one that interferes) and two Views
(one thread in `capture_solo`, one View in `capture_shared`), two labels, invocation 2 of up to three launches, so that there are launches of the
label before the chosen one and, where a thread has three launches, after it. A third
thread adds no new interference: the staged globals have no owner, and one interfering thread already
overwrites them. `shared_label` selects the first invocation and gives each thread one
launch; `early_metadata` has one thread. `region_merge`: seven addresses and sizes of less than, exactly and more
than a page of two bytes; four allocations give chains, nesting and touching regions.
`replay_load`: eight pages of two bytes, a device granularity of two pages, up to three of
nine allocations that share a page, cross one, leave one between them, are empty, share
a label or were skipped, one of them on the host within the granule of one on the
device; the process holds at most one page at the start and, with a device, one more
after `device_init`. The counterexamples of the slips show up within these bounds.
The theorems of section 6 have no bounds.

`dump_file`: two processes, since a file has at most a writer of the input and one of the
output to confuse; two Views, one of them skipped, so that a snapshot is empty, whole, or
cannot be loaded; two keys, of which the processes add different ones; two guards, since
the second is the first that finds metadata already there. `two_processes` is the same with
the processes together and nothing failing.
`replay_launch`: all command lines of up to four arguments with the flag in both forms,
more than once, and last; integers of 2, 3, 4 and 5 bits in place of 8, 16, 32 and 64, with
bounds at both ends of each index type, at -1, 0 and 1; ranks 1 (refused
before Kokkos 5.2), 2 and 3, as the code is the same loop for all; functors as large as the dump's or not, twice. `plugin_views`: three
functors, with a View in a member, in a base class and in an array, for both plugins.

`CHECK_DEADLOCK FALSE` is set where the system stops: `region_merge` and `plugin_views` (a
function returns), `replay_load`, `dump_file`, `replay_launch` and `two_processes` (the
programs end). The capture runs and the tracker check deadlock: no
thread may get stuck, in a fence or elsewhere; `add_metadata`, which is always possible
once the tool is loaded, does keep the capture model from stopping altogether, so the
statement that a launch gets through is `ChosenIsDumped`.

## 5. Fairness

`FairSpec` of `KernelCapture` assumes weak fairness of the steps of each thread inside a
launch (the operating system schedules threads, and no hook waits on a condition except
the fence) and of the device as a whole (a dispatched kernel terminates). It does not
assume that the application launches anything, initialises Kokkos or releases a View.
`ChosenIsDumped` therefore starts at the moment the launch is chosen, and is checked
where HDF5 does not fail.

`FairSpec` of `ReplayScope` assumes weak fairness of `Constructor` alone: sequential
code that nothing can hold up. Replay and destructor are up to the program.

## 6. The proofs

All of it for every value of the constants, under the named assumptions of the modules.

| Theorem | Says | Rests on |
|---|---|---|
| `MeasuredSizeExact`, `UnmeasuredSizeExactOrUnknown`, `ValidatedSizeInsideBlock` | the decided size is the data size, or unknown, and never passes the block's end | padding smaller than the header |
| `TrackerTypes`, `TrackerCorrect` | `TrackerTypeOK` and `TrackerMatchesHeap` always | `TrackerAssumption`, `HeaderSizeAssumption` |
| `SnapshotsDisjoint`, `SnapshotsMinimal`, `SnapshotsComplete` | the three snapshot properties | the same invariant |
| `CaptureTypeOK`, `OneDump`, `NoStateLeaked`, `OnlyChosenWrites` | type, `AtMostOneDump`, `KernelStatesMatch`, `ChosenWritesDump` | `CaptureAssumption` only: any threads, labels, Views, launch modes, failures |
| `KernelAlways` | `StagedByOneThread => DumpHoldsItsKernel`: functor and policy in the dump are those of the chosen launch | `CaptureAssumption`; the hypothesis |
| `InputsAlways`, `OutputsAlways` | `CopiesKernelViews => DumpHoldsInputs`, `... => DumpHoldsOutputs`: the Views of the kernel as the launch found them, and as it left them | `CaptureAssumption`; the hypothesis |
| `CopiesLiveAlways` | `CopiesSafe => CopiesLiveMemory`: nothing is freed under a copy | `CaptureAssumption`; the hypothesis |
| `CaptureImplementsOnce` | `ImplementsCaptureOnce`: every step of the capture is a step of `CaptureOnce` or a stutter | the same, with `IInv` |
| `TypeCorrect`, `LoadedInputIsWholeAlways`, `MetadataAnswersAlways` | what loads is whole, whoever writes and whatever fails | `DumpFileAssumption` |
| `OutputOfItsInputAlways`, `RecordedDumpLoadsAlways`, `DumpFileImplementsDumpStore` | outputs are of the input's process; a recorded dump loads; `ImplementsDumpStore` | also `OneAtATime`, which `two_processes` shows to be necessary for the first |
| `MergeTypes`, `DisjointRegions`, `CoveringRegions`, `TightRegions`, `AlignedRegions` | the properties of `compute_allocations` | a positive granularity, non-negative addresses, positive sizes |
| `MappingsGivenBackAlways`, `ProcessPagesKeptAlways`, `LookupsPairUpAlways` | `MappingsGivenBack`: nothing outlives the guard but what moved `Allocation`s forgot and at most one reservation of a `device_allocate` that threw; `ProcessPagesKept`; `LookupsPairUp`: lookups by a label give memory and reference output of that label | `MemoryAssumption`, `DumpsAssumption` |
| `ScopeTypes`, `CopiesLandAlways`, `RestoredAlways`, `NeverInItsOwnWayAlways` | `ScopeTypeOK`; no copy outside mapped memory; every byte back at its address; only where allocations of both spaces need the same page, or with HIP, can the guard's own mappings refuse a region | the same, `NothingAssumption` (nullptr is no region), and `RegionMerge`'s invariant for both granularities |
| `LaunchTypes`, `ArgvKeptAlways`, `LaunchedAsCapturedAlways`, `StoredNeverReleasedAlways`, `TrackingBackAlways` | type correctness and the four properties of the launch | `CommandLineAssumption`, `PolicyCodecAssumption`, `ReplayLaunchAssumption` |

`TrackerInv` adds to the properties that blocks in use do not overlap
(`HeapDisjoint`): the allocator's promise, needed because disjoint records follow
from disjoint blocks only. The padding assumption is real: with a header's worth of
padding or more, `malloc_usable_size` cannot tell an empty View from one of header size.

`IInv == TypeOK /\ HookInv` for the capture. `AtMostOneDump` alone is not inductive: two
threads in `create` would break it. What excludes them is that invocations of a label are
counted once each (`ChosenByCount`), that ids are never given twice (`IdsDistinct`, so
that an entry of `kernel_states` belongs to one thread), and that only the thread of the
chosen launch is ever between the fence of the input and the end of the output, with the
file in the state its step implies (`ChosenWritesDump`). The proof has one lemma per
action, under it one step per conjunct. The refinement needs one thing more, `RInv ==
IInv /\ ChosenPlace`: where the chosen thread is when the abstract state is still before
its input, between input and output, or behind both.

`DataInv` says what the dump holds. Its parts stand under the hypotheses they need, so that
each theorem asks for no more than its own:

* `StageInv`, under `StagedByOneThread`: from `ask` to `record` the staged functor, policy
  and registered Views are those of the launch the thread makes, or the launch is not the
  one to be dumped. What keeps it is that no other thread reaches a staging call, and that
  the number `next_invocation_will_dump` looked at is the number the count will find.
* `HeapInv`, without a hypothesis: a View that a kernel holds is live; the contents of a
  View are those of the launch issued last for it, or the pending kernel that will run
  last among those with the View is that launch (kernels of one thread run in their order,
  and a View has one owner).
* `FenceInv`, with a fence: behind it no kernel of the thread is pending, and while it waits
  those that are pending are awaited.
* `CopyInv`, under `CopiesKernelViews`: each View of the kernel is in the snapshot, then
  still to be copied or held by the dump with the right contents.
* `NarrowInv` (with the plugins) and `AloneInv` (a single thread): what is to be copied is of
  the kernel, or is reported; both give `CopiesLiveMemory`.

The hypotheses hold of real programs, `capture_threads` and `capture_solo` are instances of
them, and TLC shows that they are needed: `shared_label` has two threads that stage, and
`early_metadata` an early binding. When `CopiesLiveMemory` is added to `capture_shared` (no
plugins, two threads), or `ToolHasFence` made FALSE in `capture_threads`, TLC finds
`CopiesLiveMemory` or `DumpHoldsInputs` violated. `CopiesKernelViews` asks for no single
thread when there are no plugins: then every reported View is copied, whoever staged.

`DumpFileProofs` has three invariants. `IInv` says of each open image what its step
implies, and of the disk and of what is loaded that a file with a functor has a whole input:
the functor is the last thing `create_kernel_dump` writes, and the first a reader misses.
`MInv` is about the static metadata. `AInv`, under `OneAtATime`, says that at most one
process is neither idle nor ended, so that the file found by name is the one it closed.

`MergeInv` is the loop invariant: finished regions end before the current one starts,
which starts before all regions still to come (`Sorted`); every region visited lies in
one that is built; every built byte is in a page that some allocation touches; bounds
are multiples of the granularity.

`OwnerInv` of the replay scope: while the guard lives, the pages mapped by it are exactly
those of the `Allocation`s in its vectors, and the process' pages are its own; a moved
element keeps its pages and loses its `memory_space`, and that is left behind; the one reservation
that a `device_allocate` has when it throws is added to it in that very step, so
`MappingsGivenBack` follows from what `OwnerInv` says just before it.
`LabelInv`: the label maps hold what was read of the groups visited so far. Neither looks
into `compute_allocations`; the other parts of `ScopeInv` do:

* `IdleInv`, `PlanInv`: `todo` and `plan` are the state of `RegionMerge`, instantiated once with
  host pages and once with the device granularity, so that each step of the loop is
  a step of `RegionMerge`, `MergeInv` holds all through it, and its theorems say what is returned
  (`Planned`: disjoint whole pages that cover every allocation).
* `PlaceInv`: while regions are mapped, every byte of the space is in a page that is mapped or in
  a region still to come, no two regions share a page, and none of theirs is mapped; afterwards
  every byte is in a mapped page. For a HIP build only the host half holds, as a reservation
  may land elsewhere; a copy the driver refuses there is no fault.
* `MemoryInv`: the bytes of every View read so far are in place. A later copy does not
  overwrite them because Views are disjoint (`DumpsAssumption`).
* `SpanInv`: every page that is mapped on the host or lies in a region still to map is needed by
  a captured allocation of that space, rounded to its granularity. Such pages are the only ones
  where `NeverInItsOwnWay` lets a host mapping refuse a device region.

`LInv` of the launch says, per statement of `replay_functor`, which of the temporary,
its saved bytes and the copy hold stored bytes, and which are counted. `ArgInv` is the loop
invariant of the swaps: what is before `moved` is in place, and what is `n` or more behind it is
as it was given. `LaunchedAsCaptured` rests on `BoundRoundTrip` and `PolicyRoundTrip`: a bound
stored as a word of the widest type and cast back is the bound, for index types of any width
up to that of the word, signed or not.

Checked by TLC only: liveness (`ChosenIsDumped`, `HostDumpIsLoaded`), as the prover handles
neither fairness nor ENABLED. Nor does it handle induction over data, or `RECURSIVE`
operators, of which there are none here; this is why the two loops whose result the
proofs need (`compute_allocations`, the swaps of `remove_cli_args`) are state machines.

## 7. Findings

Each is a run that ends with a counterexample.

* `shared_label`: two threads launch the dumped label through `krepe::parallel_for`, and both
  ask before either launch is counted, so both are told that theirs will be dumped. One
  stages policy and functor and is counted: it is the launch to dump. The other stages its
  policy before the first has written it. The dump has the functor of one launch
  and the policy of the other. This is why `KernelAlways` supposes `StagedByOneThread`.
* `early_metadata`: `krepe::add_metadata` before `Kokkos::initialize` binds the extractor
  to no-ops for the rest of the run, while the tool still dumps the kernel: without
  functor and policy.
* `plugin_views`: a View in a base class is not registered by the Clang plugin (the trace), and
  one in an array by neither (the same walk, in the code and in the model). README.md:112-115 says the plugins look for the Views contained in
  the functor and excepts references only. Such a View is in no snapshot, and the replayed
  kernel reads memory nobody restored.
* `two_processes`: two processes that dump the same label and id in one directory (ranks of
  an MPI job) truncate each other's file while the kernel runs; a file with the inputs of one
  and the outputs of the other loads.

Two sentences of docs/hdf5-dumps.md are wider than the code, without a run of their own:
line 7 promises a file for each matching invocation (one is written, of the
selected invocation); lines 13-15 promise all active allocations (with the plugins those
the functor does not hold are left out, as the README says).

Met while modelling and stated in the properties as they are:

* `Allocation`'s move constructor leaves `memory_space` indeterminate, so a mapping can
  be kept after the guard (`MappingsGivenBack` allows for exactly these).
* When `device_allocate` throws after it has reserved the range, the range stays reserved or
  mapped (`MappingsGivenBack` allows for one such range, after a failed constructor).
* A host allocation that was captured within 32 MiB of a device allocation is mapped first and
  makes the guard refuse its own device region: such a dump cannot be loaded
  (`NeverInItsOwnWay` says for which pages).
* Labels are not unique, and the maps keep the record visited last, so that input and output
  of a label may be of different allocations (`LookupsPairUp` promises the label only).
* A View whose size is unknown is found by its first byte only, so a subview into
  it is not dumped (`SnapshotHoldsUsedViews` excludes unknown sizes).
* One input whose bytes were skipped makes a dump impossible to load (`RecordedDumpLoads`
  excludes it).
* Without the plugins the View of another thread may be freed while its bytes are copied
  (`CopiesSafe`, the hypothesis of `CopiesLiveAlways`, excludes it).
* When `init_functor` throws, tracking stays disabled until the next replay
  (`TrackingBack`).
* A functor that has only an `operator()` with a work tag is not launched, without a word
  (`LaunchedAsCaptured`).
* A second guard in a process keeps the metadata of the first (`MetadataAnswers`).
* The bytes of a functor may load as zeros when writing them failed, which the writing
  process reported (`LoadedInputIsWhole`).

## 8. Left out

* Of the capture: the contents of the log, the root attributes of the file and those that
  describe an allocation (written with their group), `kokkosp_parse_args` (its outcome is a
  pair of constants), `dlsym`, the nvcc branch of the extractor's `replay_functor`.
* In `KernelCapture`, Views have a known size and a supported space, so none is skipped, and
  each label is launched in one way; skipped bytes appear in `DumpFile` and `ReplayScope`.
* In `ReplayScope`: memory the process allocates elsewhere than in `device_init` (copy
  buffers, HDF5 itself), the handles of physical memory of CUDA and HIP (a call that throws
  loses them too), and a guard that is alive
  while another is built. The label maps are members of the guard and lookups reach them
  through static pointers that the destructor leaves as they are, so that a lookup after it
  has undefined behaviour; the model has no such lookup.
* `compare_views` (floating-point comparison of data), the machinery that finds the host
  lambda of an nvcc extended lambda (templates without state; its result is `hdl`), the
  construction of syntax trees by the plugins.
* Build system, scripts, examples and tests: no behaviour of the program.

## 9. The plan

Every component of section 1 has its modules. What could be added, in this order:

1. `KernelCapture`: a label launched in several ways (a stale functor staged by a reduction
   or a scan that shares it), and skipped Views.
2. A guard that lives while another one is built: two sets of mappings, one set of labels.
3. Proofs: the contents of the dump under weaker hypotheses on who launches what (a second
   thread that launches the label only after the dump is complete changes nothing).
