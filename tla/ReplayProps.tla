---------------------------- MODULE ReplayProps ----------------------------
(***************************************************************************)
(* What a replay relies on once ScopeGuard is built, and what it leaves    *)
(* behind when it is not.                                                  *)
(***************************************************************************)
EXTENDS ReplayScope

Loaded == phase \in {"ready", "replayed"}

AllocationValue ==
  [start : Nat, size : Nat, memory_space : Space \cup {"unset"}]

(* The guard's members and the memory it manages have their types.         *)
ScopeTypeOK ==
  /\ owner \in [Pages -> {"free", "process", "host", "device"}]
  /\ \A s \in Space : /\ raw[s] \in Seq(AllocationValue)
                      /\ out_labels[s] \subseteq
                           {v.label : v \in file.views \cup file.out}
  /\ todo \cup pending \subseteq HostRegions!Region
  /\ plan = NoPlan \/ plan \in [current : HostRegions!Region,
                               allocs : SUBSET HostRegions!Region]
  /\ unread \subseteq file.views \cup file.out

(* No copy goes to memory that is not mapped for it, whatever regions      *)
(* compute_allocations chose and however the vector of Allocations grew.   *)
CopiesLandInMappedMemory == phase # "fault"

(* Some captured allocation of the space needs page p.                     *)
Spanned(space, p) ==
  \E v \in Views(space) : v.size > 0 /\ p \in PagesOf(get_allocation_address(v))

(* When is the guard in its own way?  A host region is never refused       *)
(* because of what the guard has mapped.  A device region may be, but only *)
(* by a host mapping, on a page which captured allocations of both spaces  *)
(* need once they are rounded to their granularities - or, in a HIP build, *)
(* by an earlier reservation that landed elsewhere.                        *)
NeverInItsOwnWay ==
  /\ phase = "map_host" =>
       \A r \in pending : \A p \in PagesOf(r) : owner[p] \in {"free", "process"}
  /\ phase = "map_device" =>
       \A r \in pending : \A p \in PagesOf(r) :
         /\ owner[p] = "device" => device = "hip"
         /\ owner[p] = "host" => Spanned("HOST", p) /\ Spanned("DEVICE", p)

(* The bytes of every captured allocation are at its own address when the  *)
(* kernel starts: no copy overwrites what another one restored.            *)
RestoredWhenReady ==
  phase = "ready" =>
    \A v \in file.views : \A b \in BytesOf(v) : memory[b] = v

(* What compare_views gets for a label belongs to an allocation of that    *)
(* label and space: the memory the kernel wrote, and the reference output  *)
(* of one whose output was dumped.  An output is reported missing when all *)
(* those of its label were skipped, and never because the View is empty.   *)
Namesakes(v, S) == {w \in S : w.space = v.space /\ w.label = v.label}

LookupsPairUp ==
  Loaded =>
    /\ \A v \in file.views : v.space = "HOST" \/ has_device =>
         \E w \in Namesakes(v, file.views) :
           get_allocation(v.space, v.label) =
             IF w.size > 0 THEN w.address ELSE Nothing
    /\ \A v \in file.out :
         LET references == {w \in Namesakes(v, file.out) : w.dumped}
             nonempty   == {w \in references : w.size > 0}
         IN  /\ has_out_allocation(v.space, v.label) <=> references # {}
             /\ get_out_allocation(v.space, v.label) \in
                  IF nonempty = {} THEN {Nothing} ELSE nonempty

(* After the guard only the mappings of Allocations that were moved, and   *)
(* lost their memory_space, are left.  When the constructor threw there    *)
(* may be one device reservation more, for the region that was next, which *)
(* no Allocation owns.                                                     *)
NextReservation ==
  {PagesOf(q) : q \in {Least(pending)} \cup Elsewhere(Least(pending))}

MappingsGivenBack ==
  phase \in {"failed", "closed"} =>
    LET left == {p \in Pages : /\ owner[p] \in {"host", "device"}
                               /\ ~\E a \in RawSet : a.memory_space = "unset"
                                                     /\ p \in PagesOf(a)}
    IN  left # {} => /\ phase = "failed" /\ has_device /\ pending # {}
                     /\ \A p \in left : owner[p] = "device"
                     /\ left \in NextReservation

(* Memory the process uses for itself is never mapped over or unmapped.    *)
ProcessPagesKept ==
  [][\A p \in Pages : owner[p] = "process" => owner'[p] = "process"]_vars

(* A complete dump of host allocations whose pages are free at the start   *)
(* is loaded, unless device_init finds no usable device: what device_init  *)
(* allocates cannot be in the way.                                         *)
Loadable ==
  /\ file.complete
  /\ \A v \in file.views : v.dumped /\ v.space = "HOST"
  /\ \A v \in file.out : v.space = "HOST"
  /\ \A v \in file.views : v.size > 0 =>
       PagesOf(get_allocation_address(v)) \cap held = {}

NoUsableDevice ==
  /\ phase \in {"failed", "terminated"}
  /\ has_device
  /\ pending = {}
  /\ unread = file.views

HostDumpIsLoaded ==
  (phase = "open" /\ Loadable) ~> (phase = "ready" \/ NoUsableDevice)
=============================================================================
