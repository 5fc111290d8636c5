---------------------------- MODULE ReplayScope ----------------------------
(***************************************************************************)
(* krepe::ScopeGuard (replay/kernel_replayer.cpp): its constructor loads a *)
(* dump into the replaying process, each captured allocation at the        *)
(* address it had, and publishes the labels; a kernel is replayed; its     *)
(* destructor gives the memory back.  Any step of the constructor may      *)
(* throw, and then the members built so far are destroyed.                 *)
(*                                                                         *)
(* The address space is a set of pages, each free or held by the process   *)
(* itself, by a host mapping of the guard (mmap) or by a device            *)
(* reservation (CUDA or HIP).  HDF5, mmap and the driver are external.     *)
(*                                                                         *)
(* An operator no action uses (MovedFromStillOwns, ...) is a slip in the   *)
(* definition that follows it, and a property must catch it.               *)
(***************************************************************************)
EXTENDS Integers, FiniteSets, SequencesExt

CONSTANTS
  PageSize,           \* getpagesize()
  DeviceGranularity,  \* the 0x2000000 of cuda_allocation.hpp, scaled down
  Pages,              \* 0 .. n - 1
  Dumps,              \* the files a replay may be given
  MaxHeap,            \* bound: pages held by the process at the start, and
                      \* pages device_init may take
  Nothing,            \* nullptr, and the value of memory never written
  Result              \* what the replayed kernel wrote

Space == {"HOST", "DEVICE"}

BytesOf(v) == v.address .. (v.address + v.size - 1)

ASSUME MemoryAssumption ==
  /\ PageSize \in Nat \ {0}
  /\ DeviceGranularity \in Nat \ {0}
  /\ DeviceGranularity % PageSize = 0
  /\ IsFiniteSet(Pages)
  /\ Pages = 0 .. (Cardinality(Pages) - 1)

(* The views of a dump are allocations that were alive together: no two    *)
(* share a byte (AllocationTracker, SnapshotDisjoint).                     *)
ASSUME DumpsAssumption ==
  \A f \in Dumps :
    /\ \A v \in f.views \cup f.out :
         v.space \in Space /\ v.size \in Nat /\ v.address \in Nat
    /\ \A v \in f.views : v.address + v.size <= Cardinality(Pages) * PageSize
    /\ \A v, w \in f.views : v # w => BytesOf(v) \cap BytesOf(w) = {}

HostRegions   == INSTANCE Regions WITH Granularity <- PageSize
DeviceRegions == INSTANCE Regions WITH Granularity <- DeviceGranularity

ASSUME NothingAssumption == Nothing \notin HostRegions!Region

VARIABLES
  file,        \* what the dump holds: its groups in/views and out/views
  device,      \* the device memory space of the build
  phase,       \* how far the constructor, or the program after it, is
  owner,       \* of each page
  memory,      \* what each byte holds: the bytes of a captured allocation
  todo, plan,  \* regions the loop of compute_allocations has not visited,
               \* and what it made of the others
  pending,     \* regions still to map
  unread,      \* groups H5Literate has not visited
  raw,         \* the two vectors of Allocation
  allocations, out_allocations, out_labels,  \* the label maps, by space
  held         \* history: the pages the process held at the start

vars == <<file, device, phase, owner, memory, todo, plan, pending, unread,
          raw, allocations, out_allocations, out_labels, held>>
lookupVars == <<allocations, out_allocations, out_labels>>
mergeVars  == <<todo, plan>>

-----------------------------------------------------------------------------
PagesOf(r) == {p \in Pages : \E b \in r.start .. (r.start + r.size - 1) :
                               p = b \div PageSize}

Views(space) == {v \in file.views : v.space = space}

get_allocation_address(v) ==
  IF v.space = "HOST"
  THEN HostRegions!get_allocation_address(v.address, v.size)
  ELSE DeviceRegions!get_allocation_address(v.address, v.size)

Wanted(space) ==
  {get_allocation_address(v) : v \in {w \in Views(space) : w.size > 0}}

(* Allocation's move constructor takes address and size, not memory_space, *)
(* and clears the source, whose destructor then does nothing.              *)
Moved(a) == [a EXCEPT !.memory_space = "unset"]
MovedFromStillOwns(a) == PagesOf(a)
MovedFromUnmaps(a) == {}

has_device == device # "none"

RawSet == ToSet(raw["HOST"]) \cup ToSet(raw["DEVICE"])

DeviceInitFirst(p) ==
  CASE p = "open"         -> "merge_host"
    [] p = "merge_host"   -> "device_init"
    [] p = "device_init"  -> "map_host"
    [] p = "map_host"     -> "collect"
    [] p = "collect"      -> "merge_device"
    [] p = "merge_device" -> "map_device"
    [] p = "map_device"   -> "copy"
    [] p = "copy"         -> "output"
    [] p = "output"       -> "ready"

NextPhase(p) ==
  CASE p = "open"         -> "merge_host"
    [] p = "merge_host"   -> "map_host"
    [] p = "map_host"     -> "device_init"
    [] p = "device_init"  -> "collect"
    [] p = "collect"      -> "merge_device"
    [] p = "merge_device" -> "map_device"
    [] p = "map_device"   -> "copy"
    [] p = "copy"         -> "output"
    [] p = "output"       -> "ready"

NoPlan == [current |-> Nothing, allocs |-> {}]

-----------------------------------------------------------------------------
Init ==
  /\ file \in Dumps
  /\ device \in {"none", "cuda", "hip"}
  /\ phase = "open"
  /\ held \in SUBSET Pages
  /\ Cardinality(held) <= MaxHeap
  /\ owner = [p \in Pages |-> IF p \in held THEN "process" ELSE "free"]
  /\ memory = [b \in 0 .. (Cardinality(Pages) * PageSize - 1) |-> Nothing]
  /\ todo = {}
  /\ plan = NoPlan
  /\ pending = {}
  /\ unread = file.views
  /\ raw = [s \in Space |-> <<>>]
  /\ allocations = [s \in Space |-> <<>>]
  /\ out_allocations = [s \in Space |-> <<>>]
  /\ out_labels = [s \in Space |-> {}]

(* Allocation's destructor, for every element of the two vectors.  An      *)
(* indeterminate memory_space reads as either value: "asHost" are those    *)
(* that are unmapped as host memory.  A device call on a host address      *)
(* fails, and its exception leaves a destructor.  No element owns "left",  *)
(* what a device_allocate that threw had reserved.                         *)
FirstPageUnmapped(a) == {a.start \div PageSize}
Unmapped(a) == PagesOf(a)

Destroy(end, left) ==
  \E asHost \in SUBSET {a \in RawSet : a.memory_space = "unset"} :
    LET host    == {a \in RawSet : a.memory_space = "HOST"} \cup asHost
        others  == IF has_device THEN RawSet \ host ELSE {}
        misread == \E a \in others : \E p \in PagesOf(a) : owner[p] # "device"
        gone    == UNION {Unmapped(a) : a \in host \cup others}
    IN  /\ phase' = IF misread THEN "terminated" ELSE end
        /\ owner' = [p \in Pages |->
                       IF p \in left THEN "device"
                       ELSE IF p \in gone /\ ~misread THEN "free" ELSE owner[p]]
        /\ UNCHANGED <<file, device, memory, mergeVars, pending, unread, raw,
                       lookupVars, held>>

Throw == Destroy("failed", {})

(* The dataset in/views/<name>/bytes is missing when the bytes were not    *)
(* dumped, and asking for its rank throws.                                 *)
CollectFails(space) ==
  \/ \E v \in Views(space) : ~v.dumped
  \/ space = "DEVICE" /\ ~has_device /\ \E v \in Views(space) : v.size > 0

Collect(space) ==
  IF CollectFails(space) THEN Throw
  ELSE /\ todo' = Wanted(space)
       /\ phase' = NextPhase(phase)
       /\ UNCHANGED <<file, device, owner, memory, plan, pending, unread, raw,
                      lookupVars, held>>

(* The std::set is sorted, and so is the vector that is returned: the      *)
(* least region is the next one, here and where it is mapped.              *)
Least(S) == HostRegions!Least(S)

Begin ==
  /\ plan = NoPlan
  /\ todo # {}
  /\ plan' = [current |-> Least(todo), allocs |-> {}]
  /\ todo' = todo \ {Least(todo)}
  /\ UNCHANGED <<phase, pending>>

Iterate ==
  /\ plan # NoPlan
  /\ todo # {}
  /\ plan' = HostRegions!Visit(plan, Least(todo))
  /\ todo' = todo \ {Least(todo)}
  /\ UNCHANGED <<phase, pending>>

Return ==
  /\ todo = {}
  /\ pending' = IF plan = NoPlan THEN {} ELSE plan.allocs \cup {plan.current}
  /\ plan' = NoPlan
  /\ phase' = NextPhase(phase)
  /\ UNCHANGED todo

compute_allocations ==
  /\ Begin \/ Iterate \/ Return
  /\ UNCHANGED <<file, device, owner, memory, unread, raw, lookupVars, held>>

(* vector::emplace_back: when it has to grow, which the standard library   *)
(* decides, the older elements are moved.                                  *)
emplace_back(space, r) ==
  \E grows \in BOOLEAN :
    LET old  == raw[space]
        kept == IF grows THEN [i \in DOMAIN old |-> Moved(old[i])] ELSE old
        lost == IF grows THEN UNION {MovedFromUnmaps(old[i]) : i \in DOMAIN old}
                ELSE {}
    IN  /\ raw' = [raw EXCEPT ![space] = Append(kept,
                     [start |-> r.start, size |-> r.size, memory_space |-> space])]
        /\ owner' = [p \in Pages |->
                       IF p \in PagesOf(r)
                       THEN (IF space = "HOST" THEN "host" ELSE "device")
                       ELSE IF p \in lost THEN "free" ELSE owner[p]]

ReplacesMappings(r) == TRUE
(* MAP_FIXED_NOREPLACE: the kernel refuses pages that are in use.          *)
MayMap(r) == \A p \in PagesOf(r) : owner[p] = "free"

AllMapped ==
  /\ pending = {}
  /\ phase' = NextPhase(phase)
  /\ UNCHANGED <<file, device, owner, memory, mergeVars, pending, unread, raw,
                 lookupVars, held>>

host_allocate ==
  \/ AllMapped
  \/ /\ pending # {}
     /\ MayMap(Least(pending))
     /\ emplace_back("HOST", Least(pending))
     /\ pending' = pending \ {Least(pending)}
     /\ UNCHANGED <<file, device, phase, memory, mergeVars, unread,
                    lookupVars, held>>
  \/ pending # {} /\ ~MayMap(Least(pending)) /\ Throw

(* A reservation need not be at the address it was asked for.  CUDA builds *)
(* compare and throw, HIP builds map it where it is: there, or somewhere   *)
(* that is not modelled.                                                   *)
Elsewhere(r) ==
  {[r EXCEPT !.start = a] :
     a \in {x \in {p * PageSize : p \in Pages} :
               x + r.size <= Cardinality(Pages) * PageSize}
          \cup {Cardinality(Pages) * PageSize}}

Reservations(r) ==
  {q \in {r} \cup Elsewhere(r) : \A p \in PagesOf(q) : owner[p] = "free"}

ReservedFor(r) == {q \in Reservations(r) : q = r \/ device = "hip"}

(* The call throws before it has reserved anything, or after: when the     *)
(* reservation is not where it was asked for, or when mapping it, giving   *)
(* access to it or releasing the handle fails.  The pages then stay        *)
(* reserved, or mapped, and no Allocation is built to give them back.      *)
DeviceAllocateThrows ==
  \/ Throw
  \/ \E q \in Reservations(Least(pending)) : Destroy("failed", PagesOf(q))

device_allocate ==
  \/ AllMapped
  \/ /\ pending # {}
     /\ \E q \in ReservedFor(Least(pending)) : emplace_back("DEVICE", q)
     /\ pending' = pending \ {Least(pending)}
     /\ UNCHANGED <<file, device, phase, memory, mergeVars, unread,
                    lookupVars, held>>
  \/ pending # {} /\ DeviceAllocateThrows

(* Initialising the device driver might allocate heap memory; a build      *)
(* without a device has none to initialise.                                *)
DriverHeap == IF has_device THEN {p \in Pages : owner[p] = "free"} ELSE {}

device_init ==
  \/ \E heap \in SUBSET DriverHeap :
       /\ Cardinality(heap) <= MaxHeap
       /\ owner' = [p \in Pages |-> IF p \in heap THEN "process" ELSE owner[p]]
       /\ phase' = NextPhase(phase)
       /\ UNCHANGED <<file, device, memory, mergeVars, pending, unread, raw,
                      lookupVars, held>>
  \/ has_device /\ Throw

(* copy_data_wrapper, for one group of in/views, in whatever order HDF5    *)
(* visits them.  A copy to pages that are not mapped for it is a fault on  *)
(* the host; the driver refuses one to the device, which throws.           *)
FromRegionStart(v) ==
  get_allocation_address(v).start .. (v.address + v.size - 1)
Copied(v) == BytesOf(v)

Inside(v) ==
  LET target == IF v.space = "HOST" THEN "host" ELSE "device"
  IN  \A b \in Copied(v) : owner[b \div PageSize] = target

copy_data(v) ==
  /\ phase' = IF Inside(v) THEN phase ELSE "fault"
  /\ memory' = [b \in DOMAIN memory |->
                  IF Inside(v) /\ b \in Copied(v) THEN v ELSE memory[b]]

Refused(v) == device = "hip" /\ v.space = "DEVICE" /\ v.size > 0 /\ ~Inside(v)

Put(f, k, e) == [x \in DOMAIN f \cup {k} |-> IF x = k THEN e ELSE f[x]]

allocate_hdf5_dataset(v) ==
  /\ IF v.size = 0
     THEN UNCHANGED <<phase, memory>>
     ELSE copy_data(v)
  /\ allocations' =
       IF v.space = "HOST" \/ has_device
       THEN [allocations EXCEPT ![v.space] =
               Put(@, v.label, IF v.size = 0 THEN Nothing ELSE v.address)]
       ELSE allocations
  /\ unread' = unread \ {v}
  /\ UNCHANGED <<file, device, owner, mergeVars, pending, raw,
                 out_allocations, out_labels, held>>

(* The metadata, the functor and the policy; one that is missing throws.   *)
read_rest ==
  IF file.complete
  THEN /\ phase' = NextPhase(phase)
       /\ unread' = file.out
       /\ UNCHANGED <<file, device, owner, memory, mergeVars, pending, raw,
                      lookupVars, held>>
  ELSE Throw

(* The reference copy is ordinary memory and stands for the group it was   *)
(* read from.                                                              *)
EmptyNotNoted(v) == v.size > 0
Noted(v) == v.dumped

allocate_output(v) ==
  IF v.dumped /\ v.space = "DEVICE" /\ ~has_device
  THEN Throw
  ELSE /\ out_labels' =
            IF Noted(v)
            THEN [out_labels EXCEPT ![v.space] = @ \cup {v.label}]
            ELSE out_labels
       /\ out_allocations' =
            IF v.dumped /\ v.size > 0
            THEN [out_allocations EXCEPT ![v.space] = Put(@, v.label, v)]
            ELSE out_allocations
       /\ unread' = unread \ {v}
       /\ UNCHANGED <<file, device, phase, owner, memory, mergeVars, pending,
                      raw, allocations, held>>

(* The file is closed and the label maps are published.                    *)
publish ==
  /\ phase' = NextPhase(phase)
  /\ UNCHANGED <<file, device, owner, memory, mergeVars, pending, unread, raw,
                 lookupVars, held>>

(* krepe::parallel_for: the kernel writes allocations it captured.         *)
parallel_for ==
  \E written \in SUBSET {v \in file.views : v.size > 0} :
    /\ phase' = "replayed"
    /\ memory' = [b \in DOMAIN memory |->
                    IF \E v \in written : b \in BytesOf(v)
                    THEN Result ELSE memory[b]]
    /\ UNCHANGED <<file, device, owner, mergeVars, pending, unread, raw,
                   lookupVars, held>>

Constructor ==
  \/ phase = "open" /\ Collect("HOST")
  \/ phase \in {"merge_host", "merge_device"} /\ compute_allocations
  \/ phase = "map_host" /\ host_allocate
  \/ phase = "device_init" /\ device_init
  \/ phase = "collect" /\ Collect("DEVICE")
  \/ phase = "map_device" /\ device_allocate
  \/ phase = "copy" /\ \E v \in unread : IF Refused(v) THEN Throw
                                           ELSE allocate_hdf5_dataset(v)
  \/ phase = "copy" /\ unread = {} /\ read_rest
  \/ phase = "output" /\ \E v \in unread : allocate_output(v)
  \/ phase = "output" /\ unread = {} /\ publish

Next ==
  \/ Constructor
  \/ phase = "ready" /\ parallel_for
  \/ phase \in {"ready", "replayed"} /\ Destroy("closed", {})

Spec == Init /\ [][Next]_vars

(* The constructor is sequential code that no other thread can hold up.    *)
FairSpec == Spec /\ WF_vars(Constructor)

-----------------------------------------------------------------------------
(* get_allocation, get_out_allocation and has_out_allocation.              *)
get_allocation(space, label) ==
  IF label \in DOMAIN allocations[space]
  THEN allocations[space][label] ELSE Nothing

get_out_allocation(space, label) ==
  IF label \in DOMAIN out_allocations[space]
  THEN out_allocations[space][label] ELSE Nothing

has_out_allocation(space, label) == label \in out_labels[space]
=============================================================================
