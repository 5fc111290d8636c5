------------------------- MODULE ReplayScopeProofs -------------------------
(***************************************************************************)
(* ScopeGuard, for any dump, page size, device and address space: what it  *)
(* maps and unmaps (OwnerInv), what the label maps answer (LabelInv), and, *)
(* from what compute_allocations returns (PlanInv), where the copies go    *)
(* (PlaceInv), on which pages the guard may meet itself (SpanInv) and      *)
(* which bytes are restored (MemoryInv).                                   *)
(***************************************************************************)
EXTENDS ReplayProps, FiniteSetTheorems, TLAPS

Merging == {"merge_host", "merge_device"}
Before == {"open", "merge_host", "map_host", "device_init", "collect",
           "merge_device", "map_device", "copy"}
After  == {"failed", "closed", "terminated"}

(* An element of the vectors, with its numbers in T.                       *)
Entry(T) == [start : T, size : T, memory_space : Space \cup {"unset"}]

(* While the guard lives, the pages it has mapped are those of its         *)
(* Allocations, which are device allocations only with a device.           *)
OwnerInv ==
  /\ \E T : raw \in [Space -> Seq(Entry(T))]
  /\ owner \in [Pages -> {"free", "process", "host", "device"}]
  /\ phase \notin After =>
       \A p \in Pages : owner[p] \in {"host", "device"} <=>
                          \E a \in RawSet : p \in PagesOf(a)
  /\ \A a \in ToSet(raw["HOST"]) : a.memory_space # "DEVICE"
  /\ ~has_device => raw["DEVICE"] = <<>>
  /\ MappingsGivenBack

(* compute_allocations keeps nothing from one call to the next, and a      *)
(* build without a device has nothing to map in its second call.           *)
IdleInv ==
  /\ phase \notin Merging => plan = NoPlan /\ todo = {}
  /\ ~has_device => /\ phase = "merge_device" => plan = NoPlan /\ todo = {}
                    /\ phase = "map_device" => pending = {}

Kept == \A p \in Pages : owner[p] = "process" => owner'[p] = "process"

-----------------------------------------------------------------------------
LEMMA LargerSeq ==
  ASSUME NEW A, NEW B, A \subseteq B, NEW q \in Seq(A)
  PROVE  q \in Seq(B)
<1>1. q \in [1 .. Len(q) -> B] /\ Len(q) \in Nat
  OBVIOUS
<1> QED
  BY <1>1

LEMMA RawSetOf ==
  ASSUME NEW T, raw \in [Space -> Seq(Entry(T))]
  PROVE  /\ \A a \in RawSet : a \in Entry(T)
         /\ \A a : a \in RawSet <=>
              \E s \in Space : \E i \in 1 .. Len(raw[s]) : a = raw[s][i]
  BY DEF RawSet, ToSet, Space

LEMMA MovedPages ==
  ASSUME NEW T, NEW a \in Entry(T)
  PROVE  /\ PagesOf(Moved(a)) = PagesOf(a)
         /\ Moved(a) \in Entry(T)
         /\ Moved(a).memory_space = "unset"
  BY DEF PagesOf, Moved, Entry

(* The phases of the constructor follow each other.                        *)
LEMMA Phases ==
  ASSUME NEW p \in Before \cup {"output"}
  PROVE  /\ NextPhase(p) \in Before \cup {"output", "ready"}
         /\ NextPhase(p) = "map_device" <=> p = "merge_device"
         /\ NextPhase(p) = "merge_device" <=> p = "collect"
         /\ NextPhase(p) = "merge_host" <=> p = "open"
         /\ NextPhase(p) = "output" <=> p = "copy"
         /\ NextPhase(p) = "ready" <=> p = "output"
  BY DEF Before, Merging, NextPhase

LEMMA InitOwnerInv == Init => OwnerInv
<1> SUFFICES ASSUME Init PROVE OwnerInv
  OBVIOUS
<1>1. raw \in [Space -> Seq(Entry({}))]
  BY DEF Init
<1>2. RawSet = {}
  BY DEF Init, RawSet, ToSet, Space
<1>3. ToSet(raw["HOST"]) = {}
  BY DEF Init, ToSet, Space
<1> QED
  BY <1>1, <1>2, <1>3
  DEF Init, OwnerInv, MappingsGivenBack, Space

(* A step that maps nothing and unmaps nothing.                            *)
LEMMA NothingMapped ==
  ASSUME OwnerInv, UNCHANGED <<owner, raw, device>>,
         phase \notin After, phase' \notin After
  PROVE  OwnerInv' /\ Kept
  BY DEF OwnerInv, MappingsGivenBack, Kept, RawSet, has_device, After

(* The destructor, and a device_allocate that threw.                       *)
LostBy(end, left) ==
  left # {} => /\ end = "failed" /\ has_device /\ pending # {}
               /\ \E q \in Reservations(Least(pending)) : left = PagesOf(q)

LEMMA LostPages ==
  ASSUME NEW end, NEW left, LostBy(end, left)
  PROVE  /\ \A p \in left : p \in Pages /\ owner[p] = "free"
         /\ left # {} => left \in NextReservation
<1> SUFFICES ASSUME left # {}
             PROVE  /\ \A p \in left : p \in Pages /\ owner[p] = "free"
                    /\ left \in NextReservation
  OBVIOUS
<1>1. PICK q \in Reservations(Least(pending)) : left = PagesOf(q)
  BY DEF LostBy
<1>2. q \in {Least(pending)} \cup Elsewhere(Least(pending))
  BY DEF Reservations
<1>3. PagesOf(q) \subseteq Pages
  BY DEF PagesOf
<1>4. \A p \in PagesOf(q) : owner[p] = "free"
  BY DEF Reservations
<1> QED
  BY <1>1, <1>2, <1>3, <1>4 DEF NextReservation

LEMMA DestroyOwner ==
  ASSUME OwnerInv, phase \notin After, NEW end \in {"failed", "closed"}, NEW left,
         LostBy(end, left), Destroy(end, left)
  PROVE  OwnerInv' /\ Kept
<1>1. PICK asHost \in SUBSET {a \in RawSet : a.memory_space = "unset"} :
        LET host    == {a \in RawSet : a.memory_space = "HOST"} \cup asHost
            others  == IF has_device THEN RawSet \ host ELSE {}
            misread == \E a \in others : \E p \in PagesOf(a) : owner[p] # "device"
            gone    == UNION {Unmapped(a) : a \in host \cup others}
        IN  /\ phase' = IF misread THEN "terminated" ELSE end
            /\ owner' = [p \in Pages |->
                           IF p \in left THEN "device"
                           ELSE IF p \in gone /\ ~misread THEN "free" ELSE owner[p]]
            /\ UNCHANGED <<file, device, memory, mergeVars, pending, unread,
                           raw, lookupVars, held>>
  BY DEF Destroy
<1> DEFINE host == {a \in RawSet : a.memory_space = "HOST"} \cup asHost
           others == IF has_device THEN RawSet \ host ELSE {}
           misread == \E a \in others : \E p \in PagesOf(a) : owner[p] # "device"
           gone == UNION {PagesOf(a) : a \in host \cup others}
<1>2. /\ phase' = IF misread THEN "terminated" ELSE end
      /\ owner' = [p \in Pages |->
                     IF p \in left THEN "device"
                     ELSE IF p \in gone /\ ~misread THEN "free" ELSE owner[p]]
      /\ UNCHANGED <<device, pending, raw>>
  BY <1>1 DEF Unmapped
<1>3. host \cup others \subseteq RawSet
  OBVIOUS
<1>4. \A p \in Pages : p \in gone => owner[p] \in {"host", "device"}
  BY <1>3 DEF OwnerInv
<1>0. /\ \A p \in left : p \in Pages /\ owner[p] = "free"
      /\ left # {} => left \in NextReservation
  BY LostPages
<1> HIDE DEF misread
<1>5. owner' \in [Pages -> {"free", "process", "host", "device"}] /\ Kept
  <2>1. owner \in [Pages -> {"free", "process", "host", "device"}]
    BY DEF OwnerInv
  <2> HIDE DEF gone
  <2> QED
    BY <1>0, <1>2, <1>4, <2>1 DEF Kept
<1>6. phase' \in After
  BY <1>2 DEF After
<1>7. RawSet' = RawSet
  BY <1>2 DEF RawSet
<1>8. MappingsGivenBack'
  <2> DEFINE kept(p) == /\ owner'[p] \in {"host", "device"}
                        /\ ~\E a \in RawSet : a.memory_space = "unset"
                                              /\ p \in PagesOf(a)
  <2>1. ASSUME ~misread, NEW p \in Pages, owner'[p] \in {"host", "device"},
               p \notin left
        PROVE  \E a \in RawSet : a.memory_space = "unset" /\ p \in PagesOf(a)
    <3>1. p \notin gone /\ owner[p] \in {"host", "device"}
      BY <1>2, <2>1
    <3>2. PICK a \in RawSet : p \in PagesOf(a)
      BY <3>1 DEF OwnerInv
    <3>3. a \notin host \cup others
      BY <3>1, <3>2
    <3>4. ~has_device /\ a.memory_space # "HOST"
      BY <3>2, <3>3
    <3>5. a \in ToSet(raw["HOST"])
      <4>1. ToSet(raw["DEVICE"]) = {}
        BY <3>4 DEF OwnerInv, ToSet
      <4> QED
        BY <3>2, <4>1 DEF RawSet
    <3>6. a.memory_space \in Space \cup {"unset"}
      BY <3>2, RawSetOf DEF OwnerInv, Entry
    <3> QED
      BY <3>2, <3>4, <3>5, <3>6 DEF OwnerInv, Space
  <2>2. \A p \in left : p \in Pages /\ owner'[p] = "device" /\ kept(p)
    <3> SUFFICES ASSUME NEW p \in left
                 PROVE  p \in Pages /\ owner'[p] = "device" /\ kept(p)
      OBVIOUS
    <3>1. p \in Pages /\ owner[p] = "free"
      BY <1>0
    <3>2. owner'[p] = "device"
      BY <1>2, <3>1
    <3>3. ~\E a \in RawSet : p \in PagesOf(a)
      BY <3>1 DEF OwnerInv
    <3> QED
      BY <3>1, <3>2, <3>3
  <2>3. ~misread => {p \in Pages : kept(p)} = left
    BY <2>1, <2>2
  <2>4. left # {} => /\ end = "failed" /\ has_device' /\ pending' # {}
                     /\ left \in NextReservation'
    BY <1>0, <1>2 DEF LostBy, has_device, NextReservation, Elsewhere, PagesOf, Least
  <2>5. misread => phase' \notin {"failed", "closed"}
    BY <1>2
  <2>6. ~misread => phase' = end
    BY <1>2
  <2> DEFINE L == {p \in Pages : kept(p)}
  <2>7. MappingsGivenBack' <=>
          (phase' \in {"failed", "closed"} =>
             (L # {} => /\ phase' = "failed" /\ has_device' /\ pending' # {}
                        /\ \A p \in L : owner'[p] = "device"
                        /\ L \in NextReservation'))
    BY <1>7 DEF MappingsGivenBack, PagesOf
  <2> HIDE DEF L
  <2> QED
    BY <2>2, <2>3, <2>4, <2>5, <2>6, <2>7 DEF L
<1> QED
  BY <1>2, <1>5, <1>6, <1>8 DEF OwnerInv, has_device

(* emplace_back on free pages.                                             *)
LEMMA EmplaceOwner ==
  ASSUME OwnerInv, phase \notin After, UNCHANGED <<phase, device>>,
         NEW space \in Space, NEW r, \A p \in PagesOf(r) : owner[p] = "free",
         emplace_back(space, r),
         space = "DEVICE" => has_device
  PROVE  OwnerInv' /\ Kept
<1>1. PICK grows \in BOOLEAN :
        LET old  == raw[space]
            kept == IF grows THEN [i \in DOMAIN old |-> Moved(old[i])] ELSE old
            lost == IF grows THEN UNION {MovedFromUnmaps(old[i]) : i \in DOMAIN old}
                    ELSE {}
        IN  /\ raw' = [raw EXCEPT ![space] = Append(kept,
                         [start |-> r.start, size |-> r.size, memory_space |-> space])]
            /\ owner' = [p \in Pages |->
                           IF p \in PagesOf(r)
                           THEN (IF space = "HOST" THEN "host" ELSE "device")
                           ELSE IF p \in lost THEN "free" ELSE owner[p]]
  BY DEF emplace_back
<1> DEFINE old == raw[space]
           kept == IF grows THEN [i \in DOMAIN old |-> Moved(old[i])] ELSE old
           new == [start |-> r.start, size |-> r.size, memory_space |-> space]
<1>2. /\ raw' = [raw EXCEPT ![space] = Append(kept, new)]
      /\ owner' = [p \in Pages |->
                     IF p \in PagesOf(r)
                     THEN (IF space = "HOST" THEN "host" ELSE "device")
                     ELSE owner[p]]
  BY <1>1 DEF MovedFromUnmaps
<1>3. PICK T : raw \in [Space -> Seq(Entry(T))]
  BY DEF OwnerInv
<1> DEFINE U == T \cup {r.start, r.size}
<1>4. new \in Entry(U) /\ PagesOf(new) = PagesOf(r)
  BY DEF Entry, PagesOf
<1>5. /\ old \in Seq(Entry(T)) /\ old \in Seq(Entry(U))
      /\ \A s \in Space : raw[s] \in Seq(Entry(U))
  <2>1. Entry(T) \subseteq Entry(U)
    BY DEF Entry
  <2>2. \A s \in Space : raw[s] \in Seq(Entry(T))
    BY <1>3
  <2> QED
    BY <2>1, <2>2, LargerSeq
<1>6. /\ kept \in Seq(Entry(U)) /\ Len(kept) = Len(old)
      /\ \A i \in 1 .. Len(old) :
           /\ PagesOf(kept[i]) = PagesOf(old[i])
           /\ kept[i].memory_space \in {old[i].memory_space, "unset"}
  <2>1. \A i \in 1 .. Len(old) : old[i] \in Entry(U)
    BY <1>5
  <2> HIDE DEF old, U
  <2>2. CASE grows
    BY <1>5, <2>1, <2>2, MovedPages
  <2>3. CASE ~grows
    BY <1>5, <2>3
  <2> QED
    BY <2>2, <2>3
<1> HIDE DEF kept, new, U
<1>7. /\ raw' \in [Space -> Seq(Entry(U))]
      /\ raw'[space] = Append(kept, new)
      /\ \A s \in Space \ {space} : raw'[s] = raw[s]
  BY <1>2, <1>3, <1>4, <1>5, <1>6
<1>8. \A p \in Pages : (\E a \in RawSet' : p \in PagesOf(a)) <=>
                         (p \in PagesOf(r) \/ \E a \in RawSet : p \in PagesOf(a))
  <2>1. \A a : a \in RawSet <=>
              \E s \in Space : \E i \in 1 .. Len(raw[s]) : a = raw[s][i]
    BY <1>3, RawSetOf
  <2>2. \A a : a \in RawSet' <=>
              \E s \in Space : \E i \in 1 .. Len(raw'[s]) : a = raw'[s][i]
    BY <1>7 DEF RawSet, ToSet, Space
  <2>3. /\ Len(Append(kept, new)) = Len(old) + 1
        /\ Append(kept, new)[Len(old) + 1] = new
        /\ \A i \in 1 .. Len(old) : Append(kept, new)[i] = kept[i]
        /\ Len(old) \in Nat
    BY <1>4, <1>5, <1>6
  <2> SUFFICES ASSUME NEW p \in Pages
               PROVE  (\E a \in RawSet' : p \in PagesOf(a)) <=>
                        (p \in PagesOf(r) \/ \E a \in RawSet : p \in PagesOf(a))
    OBVIOUS
  <2>4. ASSUME NEW a \in RawSet', p \in PagesOf(a)
        PROVE  p \in PagesOf(r) \/ \E b \in RawSet : p \in PagesOf(b)
    <3>1. PICK s \in Space : \E i \in 1 .. Len(raw'[s]) : a = raw'[s][i]
      BY <2>2, <2>4
    <3>2. PICK i \in 1 .. Len(raw'[s]) : a = raw'[s][i]
      BY <3>1
    <3>3. CASE s = space
      <4>1. CASE i = Len(old) + 1
        BY <1>4, <1>7, <2>3, <2>4, <3>2, <3>3, <4>1
      <4>2. CASE i \in 1 .. Len(old)
        BY <1>6, <1>7, <2>1, <2>3, <2>4, <3>2, <3>3, <4>2
      <4> QED
        BY <1>7, <2>3, <3>2, <3>3, <4>1, <4>2
    <3>4. CASE s # space
      BY <1>7, <2>1, <2>4, <3>2, <3>4
    <3> QED
      BY <3>3, <3>4
  <2>5. ASSUME p \in PagesOf(r) PROVE \E a \in RawSet' : p \in PagesOf(a)
    BY <1>4, <1>7, <2>2, <2>3, <2>5
  <2>6. ASSUME NEW b \in RawSet, p \in PagesOf(b)
        PROVE  \E a \in RawSet' : p \in PagesOf(a)
    <3>1. PICK s \in Space : \E i \in 1 .. Len(raw[s]) : b = raw[s][i]
      BY <2>1, <2>6
    <3>2. PICK i \in 1 .. Len(raw[s]) : b = raw[s][i]
      BY <3>1
    <3>3. CASE s = space
      <4>1. i \in 1 .. Len(old) /\ b = old[i]
        BY <3>2, <3>3 DEF old
      <4>2. PagesOf(kept[i]) = PagesOf(b)
        BY <1>6, <4>1
      <4>3. i \in 1 .. Len(raw'[s]) /\ raw'[s][i] = kept[i]
        BY <1>7, <2>3, <3>3, <4>1
      <4> QED
        BY <2>2, <2>6, <4>2, <4>3
    <3>4. CASE s # space
      BY <1>7, <2>2, <2>6, <3>2, <3>4
    <3> QED
      BY <3>3, <3>4
  <2> QED
    BY <2>4, <2>5, <2>6
<1>9. \A a \in ToSet(raw["HOST"])' : a.memory_space # "DEVICE"
  <2>1. CASE space = "HOST"
    <3>1. \A i \in 1 .. Len(old) : old[i].memory_space # "DEVICE"
      BY <1>5, <2>1 DEF OwnerInv, ToSet
    <3>2. ASSUME NEW i \in 1 .. Len(raw'["HOST"])
          PROVE  raw'["HOST"][i].memory_space # "DEVICE"
      <4>1. CASE i = Len(old) + 1
        BY <1>4, <1>6, <1>7, <2>1, <4>1 DEF new
      <4>2. CASE i \in 1 .. Len(old)
        BY <1>4, <1>6, <1>7, <2>1, <3>1, <4>2
      <4> QED
        BY <1>4, <1>5, <1>6, <1>7, <2>1, <3>2, <4>1, <4>2
    <3> QED
      BY <1>7, <2>1, <3>2 DEF ToSet
  <2>2. CASE space # "HOST"
    BY <1>7, <2>2 DEF OwnerInv, ToSet, Space
  <2> QED
    BY <2>1, <2>2
<1>10. owner' \in [Pages -> {"free", "process", "host", "device"}] /\ Kept
  BY <1>2 DEF OwnerInv, Kept
<1>11. \A p \in Pages : owner'[p] \in {"host", "device"} <=>
                          (p \in PagesOf(r) \/ owner[p] \in {"host", "device"})
  BY <1>2
<1>12. \A p \in Pages : owner'[p] \in {"host", "device"} <=>
                          \E a \in RawSet' : p \in PagesOf(a)
  BY <1>8, <1>11 DEF OwnerInv
<1>13. ~has_device => space = "HOST" /\ raw'["DEVICE"] = <<>>
  BY <1>7 DEF OwnerInv, Space
<1> QED
  BY <1>7, <1>9, <1>10, <1>12, <1>13
  DEF OwnerInv, MappingsGivenBack, has_device, PagesOf, After

LEMMA StepIdle == IdleInv /\ [Next]_vars => IdleInv'
<1> SUFFICES ASSUME IdleInv, [Next]_vars PROVE IdleInv'
  OBVIOUS
<1>1. CASE UNCHANGED vars
  BY <1>1 DEF vars, IdleInv, has_device
<1>2. ASSUME phase \notin Merging, NEW end \in {"failed", "closed"}, NEW left, Destroy(end, left)
      PROVE  IdleInv'
  <2>1. /\ UNCHANGED <<todo, plan>>
        /\ phase' \in {"terminated", "failed", "closed"}
    BY <1>2 DEF Destroy, mergeVars
  <2> QED
    BY <1>2, <2>1 DEF IdleInv, Merging
<1>3. ASSUME phase \in {"open", "collect"}, NEW space \in Space, Collect(space),
             space = "DEVICE" <=> phase = "collect"
      PROVE  IdleInv'
  <2>1. CASE ~CollectFails(space)
    <3>1. ~has_device /\ space = "DEVICE" =>
            {w \in Views("DEVICE") : w.size > 0} = {}
      BY <2>1 DEF CollectFails
    <3>2. ~has_device /\ space = "DEVICE" => Wanted(space) = {}
      BY <3>1 DEF Wanted
    <3>3. /\ plan = NoPlan
          /\ UNCHANGED <<plan, device>> /\ todo' = Wanted(space)
          /\ phase' = IF phase = "open" THEN "merge_host" ELSE "merge_device"
      BY <1>3, <2>1 DEF Collect, IdleInv, Merging, NextPhase
    <3> QED
      BY <1>3, <3>2, <3>3 DEF IdleInv, Merging, has_device
  <2> QED
    BY <1>2, <1>3, <2>1 DEF Collect, Throw, Merging
<1>4. CASE phase \in Merging /\ compute_allocations
  <2>1. CASE Begin \/ Iterate
    BY <1>4, <2>1 DEF Begin, Iterate, compute_allocations, IdleInv, Merging, has_device
  <2>2. CASE Return
    BY <1>4, <2>2
    DEF Return, compute_allocations, IdleInv, Merging, NextPhase, has_device
  <2> QED
    BY <1>4, <2>1, <2>2 DEF compute_allocations
<1>5. ASSUME phase \notin Merging, phase' \notin Merging, UNCHANGED <<device, mergeVars>>,
             phase' = "map_device" => phase = "map_device" /\ pending' \subseteq pending
      PROVE  IdleInv'
  BY <1>5 DEF IdleInv, mergeVars, Merging, has_device
<1>6. CASE phase = "map_host" /\ host_allocate
  BY <1>2, <1>5, <1>6 DEF host_allocate, AllMapped, Throw, Merging, NextPhase
<1>7. CASE phase = "device_init" /\ device_init
  BY <1>2, <1>5, <1>7 DEF device_init, Throw, Merging, NextPhase
<1>8. CASE phase = "map_device" /\ device_allocate
  BY <1>2, <1>5, <1>8 DEF device_allocate, DeviceAllocateThrows, AllMapped, Throw, Merging, NextPhase
<1>9. CASE phase = "copy" /\ \E v \in unread : IF Refused(v) THEN Throw
                                               ELSE allocate_hdf5_dataset(v)
  BY <1>2, <1>5, <1>9 DEF allocate_hdf5_dataset, copy_data, Throw, Merging
<1>10. CASE phase = "copy" /\ read_rest
  BY <1>2, <1>5, <1>10 DEF read_rest, Throw, Merging, NextPhase
<1>11. CASE phase = "output" /\ \E v \in unread : allocate_output(v)
  BY <1>2, <1>5, <1>11 DEF allocate_output, Throw, Merging
<1>12. CASE phase = "output" /\ publish
  BY <1>5, <1>12 DEF publish, Merging, NextPhase
<1>13. CASE phase = "ready" /\ parallel_for
  BY <1>5, <1>13 DEF parallel_for, Merging
<1>14. CASE phase \in {"ready", "replayed"} /\ Destroy("closed", {})
  BY <1>2, <1>14 DEF Merging
<1> QED
  BY <1>1, <1>3, <1>4, <1>6, <1>7, <1>8, <1>9, <1>10, <1>11, <1>12, <1>13, <1>14
  DEF Next, Constructor, Space, Merging

(* Each step of ScopeGuard and of the program after it.                    *)
LEMMA StepOwner ==
  ASSUME OwnerInv, IdleInv, [Next]_vars
  PROVE  OwnerInv' /\ Kept
<1>1. CASE UNCHANGED vars
  <2>1. UNCHANGED <<owner, raw, device, phase, pending>>
    BY <1>1 DEF vars
  <2>2. NextReservation' = NextReservation
    BY <2>1 DEF NextReservation, Elsewhere
  <2>3. \A r : PagesOf(r)' = PagesOf(r)
    BY DEF PagesOf
  <2> QED
    BY <2>1, <2>2, <2>3 DEF OwnerInv, MappingsGivenBack, Kept, RawSet, has_device
<1>2. ASSUME phase \notin After, Throw PROVE OwnerInv' /\ Kept
  BY <1>2, DestroyOwner DEF Throw, LostBy
<1>3. CASE phase = "open" /\ Collect("HOST")
  <2>1. NextPhase(phase) \notin After /\ phase \notin After
    BY <1>3, Phases DEF Before, After
  <2> QED
    BY <1>2, <1>3, <2>1, NothingMapped DEF Collect
<1>4. CASE phase = "map_host" /\ host_allocate
  <2>1. NextPhase(phase) \notin After /\ phase \notin After
    BY <1>4, Phases DEF Before, After
  <2>2. CASE AllMapped
    BY <2>1, <2>2, NothingMapped DEF AllMapped
  <2>3. CASE /\ pending # {}
             /\ MayMap(Least(pending))
             /\ emplace_back("HOST", Least(pending))
             /\ UNCHANGED <<phase, device>>
    BY <1>4, <2>1, <2>3, EmplaceOwner DEF MayMap, Space
  <2> QED
    BY <1>2, <1>4, <2>1, <2>2, <2>3 DEF host_allocate
<1>5. CASE phase = "device_init" /\ device_init
  <2>1. NextPhase(phase) \notin After /\ phase \notin After
    BY <1>5, Phases DEF Before, After
  <2>2. ASSUME NEW heap \in SUBSET {p \in Pages : owner[p] = "free"},
               owner' = [p \in Pages |-> IF p \in heap THEN "process" ELSE owner[p]],
               phase' = NextPhase(phase), UNCHANGED <<device, pending, raw>>
        PROVE  OwnerInv' /\ Kept
    <3>1. RawSet' = RawSet
      BY <2>2 DEF RawSet
    <3>2. /\ owner' \in [Pages -> {"free", "process", "host", "device"}]
          /\ Kept
          /\ \A p \in Pages : owner'[p] \in {"host", "device"} <=>
                                owner[p] \in {"host", "device"}
      BY <2>2 DEF OwnerInv, Kept
    <3> QED
      BY <2>1, <2>2, <3>1, <3>2
      DEF OwnerInv, MappingsGivenBack, has_device, PagesOf, After
  <2> QED
    BY <1>2, <1>5, <2>1, <2>2 DEF device_init, DriverHeap
<1>6. CASE phase = "collect" /\ Collect("DEVICE")
  <2>1. NextPhase(phase) \notin After /\ phase \notin After
    BY <1>6, Phases DEF Before, After
  <2> QED
    BY <1>2, <1>6, <2>1, NothingMapped DEF Collect
<1>14. CASE phase \in Merging /\ compute_allocations
  <2>1. NextPhase(phase) \notin After /\ phase \notin After
    BY <1>14, Phases DEF Before, Merging, After
  <2>2. UNCHANGED <<owner, raw, device>> /\ phase' \in {phase, NextPhase(phase)}
    BY <1>14 DEF compute_allocations, Begin, Iterate, Return
  <2> QED
    BY <2>1, <2>2, NothingMapped
<1>7. CASE phase = "map_device" /\ device_allocate
  <2>1. NextPhase(phase) \notin After /\ phase \notin After
    BY <1>7, Phases DEF Before, After
  <2>2. CASE AllMapped
    BY <2>1, <2>2, NothingMapped DEF AllMapped
  <2>3. CASE /\ pending # {}
             /\ \E q \in ReservedFor(Least(pending)) : emplace_back("DEVICE", q)
             /\ UNCHANGED <<phase, device>>
    <3>1. PICK q \in ReservedFor(Least(pending)) : emplace_back("DEVICE", q)
      BY <2>3
    <3>2. has_device /\ \A p \in PagesOf(q) : owner[p] = "free"
      BY <1>7, <2>3, <3>1 DEF ReservedFor, Reservations, IdleInv
    <3> QED
      BY <1>7, <2>1, <2>3, <3>1, <3>2, EmplaceOwner DEF Space
  <2>4. CASE pending # {} /\ DeviceAllocateThrows
    <3>1. ASSUME NEW q \in Reservations(Least(pending)), Destroy("failed", PagesOf(q))
          PROVE  OwnerInv' /\ Kept
      <4>1. LostBy("failed", PagesOf(q))
        BY <1>7, <2>4 DEF LostBy, IdleInv
      <4> QED
        BY <2>1, <3>1, <4>1, DestroyOwner
    <3> QED
      BY <1>2, <2>1, <2>4, <3>1 DEF DeviceAllocateThrows
  <2> QED
    BY <1>7, <2>2, <2>3, <2>4 DEF device_allocate
<1>8. CASE phase = "copy" /\ \E v \in unread : IF Refused(v) THEN Throw
                                               ELSE allocate_hdf5_dataset(v)
  <2>1. phase \notin After
    BY <1>8 DEF After
  <2>2. ASSUME NEW v \in unread, allocate_hdf5_dataset(v) PROVE OwnerInv' /\ Kept
    <3>1. /\ phase' \in {phase, "fault"}
          /\ UNCHANGED <<owner, raw, device>>
      BY <2>2 DEF allocate_hdf5_dataset, copy_data
    <3>2. phase' \notin After
      BY <2>1, <3>1 DEF After
    <3> QED
      BY <2>1, <3>1, <3>2, NothingMapped
  <2> QED
    BY <1>2, <1>8, <2>1, <2>2
<1>9. CASE phase = "copy" /\ read_rest
  <2>1. NextPhase(phase) \notin After /\ phase \notin After
    BY <1>9, Phases DEF Before, After
  <2> QED
    BY <1>2, <1>9, <2>1, NothingMapped DEF read_rest
<1>10. CASE phase = "output" /\ \E v \in unread : allocate_output(v)
  <2>1. phase \notin After
    BY <1>10 DEF After
  <2>2. ASSUME NEW v \in unread, allocate_output(v) PROVE OwnerInv' /\ Kept
    BY <1>2, <2>1, <2>2, NothingMapped DEF allocate_output
  <2> QED
    BY <1>10, <2>2
<1>11. CASE phase = "output" /\ publish
  <2>1. NextPhase(phase) \notin After /\ phase \notin After
    BY <1>11, Phases DEF Before, After
  <2> QED
    BY <1>11, <2>1, NothingMapped DEF publish
<1>12. CASE phase = "ready" /\ parallel_for
  BY <1>12, NothingMapped DEF parallel_for, After
<1>13. CASE phase \in {"ready", "replayed"} /\ Destroy("closed", {})
  BY <1>13, DestroyOwner DEF After, LostBy
<1> QED
  BY <1>1, <1>3, <1>4, <1>5, <1>6, <1>7, <1>8, <1>9, <1>10, <1>11, <1>12, <1>13, <1>14
  DEF Next, Constructor, Merging

LEMMA OwnerInvariant == Spec => [](OwnerInv /\ IdleInv)
<1>1. OwnerInv /\ IdleInv /\ [Next]_vars => OwnerInv'
  BY StepOwner
<1>2. Init => IdleInv
  BY DEF Init, IdleInv, Merging
<1> QED
  BY <1>1, <1>2, InitOwnerInv, StepIdle, PTL DEF Spec

(* Whatever throws and whatever the driver answers: after the guard the    *)
(* only mappings left are those of Allocations that a growing vector       *)
(* moved, and the one device reservation of a device_allocate that threw   *)
(* (Allocation's move constructor, host_deallocate, device_deallocate).    *)
THEOREM MappingsGivenBackAlways == Spec => []MappingsGivenBack
<1>1. OwnerInv => MappingsGivenBack
  BY DEF OwnerInv
<1> QED
  BY <1>1, OwnerInvariant, PTL

(* The guard never maps over, and never unmaps, memory the process uses    *)
(* (host_allocate, device_allocate, the destructor of Allocation).         *)
THEOREM ProcessPagesKeptAlways == Spec => ProcessPagesKept
<1>1. OwnerInv /\ IdleInv /\ [Next]_vars => [Kept]_vars
  BY StepOwner
<1>2. Kept <=> \A p \in Pages : owner[p] = "process" => owner'[p] = "process"
  BY DEF Kept
<1>3. OwnerInv /\ IdleInv /\ [Next]_vars =>
        [\A p \in Pages : owner[p] = "process" => owner'[p] = "process"]_vars
  BY <1>1, <1>2
<1> QED
  BY <1>3, OwnerInvariant, PTL DEF Spec, ProcessPagesKept

-----------------------------------------------------------------------------
(* The label maps hold what was read of the two groups so far.             *)
Building == Before \cup {"output", "ready", "replayed"}

ViewsRead == IF phase \in {"output", "ready", "replayed"} THEN file.views
             ELSE file.views \ unread
OutRead == IF phase = "output" THEN file.out \ unread
           ELSE IF phase \in {"ready", "replayed"} THEN file.out ELSE {}

InputLabels(s) ==
  /\ s = "HOST" \/ has_device =>
       DOMAIN allocations[s] = {v.label : v \in {w \in ViewsRead : w.space = s}}
  /\ \A l \in DOMAIN allocations[s] :
       \E v \in ViewsRead :
         /\ v.space = s /\ v.label = l
         /\ allocations[s][l] = IF v.size = 0 THEN Nothing ELSE v.address

OutputLabels(s) ==
  /\ out_labels[s] = {v.label : v \in {w \in OutRead : w.space = s /\ w.dumped}}
  /\ DOMAIN out_allocations[s] =
       {v.label : v \in {w \in OutRead : w.space = s /\ w.dumped /\ w.size > 0}}
  /\ \A l \in DOMAIN out_allocations[s] :
       \E v \in OutRead : /\ v.space = s /\ v.label = l /\ v.dumped /\ v.size > 0
                          /\ out_allocations[s][l] = v

MapsBySpace ==
  /\ DOMAIN allocations = Space
  /\ DOMAIN out_allocations = Space
  /\ DOMAIN out_labels = Space

LabelInv ==
  /\ file \in Dumps
  /\ phase \in Before => unread \subseteq file.views
  /\ phase = "output" => unread \subseteq file.out
  /\ MapsBySpace
  /\ phase \in Building => \A s \in Space : InputLabels(s) /\ OutputLabels(s)

LEMMA InitLabelInv == Init => LabelInv
<1> SUFFICES ASSUME Init PROVE LabelInv
  OBVIOUS
<1>1. ViewsRead = {} /\ OutRead = {}
  BY DEF Init, ViewsRead, OutRead
<1>2. \A s \in Space : /\ DOMAIN allocations[s] = {} /\ DOMAIN out_allocations[s] = {}
                       /\ out_labels[s] = {}
  BY DEF Init
<1>3. \A s \in Space : InputLabels(s) /\ OutputLabels(s)
  BY <1>1, <1>2 DEF InputLabels, OutputLabels
<1> QED
  BY <1>3 DEF Init, LabelInv, MapsBySpace, Before

(* A step that reads no group.                                             *)
LEMMA NothingRead ==
  ASSUME LabelInv, UNCHANGED <<file, device, lookupVars>>,
         phase \in Building, phase' \in Building => ViewsRead' = ViewsRead /\ OutRead' = OutRead,
         phase' \in Before => unread' \subseteq file.views,
         phase' = "output" => unread' \subseteq file.out
  PROVE  LabelInv'
<1>1. \A s \in Space :
        phase' \in Building =>
          /\ InputLabels(s) => InputLabels(s)'
          /\ OutputLabels(s) => OutputLabels(s)'
  BY DEF InputLabels, OutputLabels, lookupVars, has_device
<1> QED
  BY <1>1 DEF LabelInv, MapsBySpace, lookupVars

LEMMA Ends ==
  ASSUME LabelInv, phase \in Building, NEW end \in {"failed", "closed"}, NEW left, Destroy(end, left)
  PROVE  LabelInv'
<1>1. /\ UNCHANGED <<file, device, lookupVars>>
      /\ phase' \in {"terminated", end}
  BY DEF Destroy
<1>2. phase' \notin Building /\ phase' \notin Before /\ phase' # "output"
  BY <1>1 DEF Building, Before
<1> QED
  BY <1>1, <1>2, NothingRead

LEMMA InputRead ==
  ASSUME LabelInv, phase = "copy", NEW v \in unread, allocate_hdf5_dataset(v)
  PROVE  LabelInv'
<1>1. /\ UNCHANGED <<file, device, out_allocations, out_labels>>
      /\ phase' \in {"copy", "fault"} /\ unread' = unread \ {v}
      /\ IF v.space = "HOST" \/ has_device
         THEN allocations' = [allocations EXCEPT ![v.space] =
                Put(@, v.label, IF v.size = 0 THEN Nothing ELSE v.address)]
         ELSE allocations' = allocations
  BY DEF allocate_hdf5_dataset, copy_data
<1>2. /\ v \in file.views /\ v.space \in Space
      /\ unread \subseteq file.views /\ MapsBySpace
  BY DumpsAssumption DEF LabelInv, Before
<1>3. MapsBySpace' /\ unread' \subseteq file'.views /\ file' \in Dumps
  BY <1>1, <1>2 DEF MapsBySpace, LabelInv
<1>4. CASE phase' = "fault"
  BY <1>3, <1>4 DEF LabelInv, Building, Before
<1>5. CASE phase' = "copy"
  <2>1. ViewsRead' = ViewsRead \cup {v} /\ OutRead' = OutRead
    BY <1>1, <1>2, <1>5 DEF ViewsRead, OutRead
  <2>2. ASSUME NEW s \in Space PROVE OutputLabels(s)'
    BY <1>1, <2>1 DEF LabelInv, OutputLabels, Building, Before
  <2>3. ASSUME NEW s \in Space PROVE InputLabels(s)'
    <3>1. InputLabels(s)
      BY DEF LabelInv, Building, Before
    <3>2. CASE s = v.space /\ (v.space = "HOST" \/ has_device)
      <4> DEFINE address == IF v.size = 0 THEN Nothing ELSE v.address
      <4>1. allocations'[s] = Put(allocations[s], v.label, address)
        BY <1>1, <1>2, <3>2 DEF MapsBySpace
      <4> HIDE DEF address
      <4>2. /\ DOMAIN allocations'[s] = DOMAIN allocations[s] \cup {v.label}
            /\ allocations'[s][v.label] = address
            /\ \A l \in DOMAIN allocations[s] :
                 l # v.label => allocations'[s][l] = allocations[s][l]
        BY <4>1 DEF Put
      <4>3. DOMAIN allocations'[s]
              = {w.label : w \in {x \in ViewsRead' : x.space = s}}
        BY <2>1, <3>1, <3>2, <4>2 DEF InputLabels
      <4>4. ASSUME NEW l \in DOMAIN allocations'[s]
            PROVE  \E w \in ViewsRead' :
                     /\ w.space = s /\ w.label = l
                     /\ allocations'[s][l] = IF w.size = 0 THEN Nothing ELSE w.address
        <5>1. CASE l = v.label
          BY <2>1, <3>2, <4>2, <5>1 DEF address
        <5>2. CASE l # v.label
          BY <2>1, <3>1, <4>2, <5>2 DEF InputLabels
        <5> QED
          BY <5>1, <5>2
      <4> QED
        BY <4>3, <4>4 DEF InputLabels
    <3>3. CASE ~(s = v.space /\ (v.space = "HOST" \/ has_device))
      <4>1. allocations'[s] = allocations[s]
        BY <1>1, <1>2, <3>3 DEF MapsBySpace
      <4>2. s = "HOST" \/ has_device =>
              {x \in ViewsRead' : x.space = s} = {x \in ViewsRead : x.space = s}
        BY <2>1, <3>3
      <4> QED
        BY <1>1, <2>1, <3>1, <4>1, <4>2 DEF InputLabels, has_device
    <3> QED
      BY <3>2, <3>3
  <2> QED
    BY <1>3, <1>5, <2>2, <2>3 DEF LabelInv
<1> QED
  BY <1>1, <1>4, <1>5

LEMMA OutputRead ==
  ASSUME LabelInv, phase = "output", NEW v \in unread, allocate_output(v)
  PROVE  LabelInv'
<1>1. CASE v.dumped /\ v.space = "DEVICE" /\ ~has_device
  BY <1>1, Ends DEF allocate_output, Throw, Building
<1>2. CASE ~(v.dumped /\ v.space = "DEVICE" /\ ~has_device)
  <2>1. /\ UNCHANGED <<file, device, phase, allocations>>
        /\ unread' = unread \ {v}
        /\ out_labels' = IF v.dumped
                         THEN [out_labels EXCEPT ![v.space] = @ \cup {v.label}]
                         ELSE out_labels
        /\ out_allocations' = IF v.dumped /\ v.size > 0
             THEN [out_allocations EXCEPT ![v.space] = Put(@, v.label, v)]
             ELSE out_allocations
    BY <1>2 DEF allocate_output, Noted
  <2>2. /\ v \in file.out /\ v.space \in Space
        /\ unread \subseteq file.out /\ MapsBySpace
    BY DumpsAssumption DEF LabelInv
  <2>3. MapsBySpace'
    BY <2>1, <2>2 DEF MapsBySpace
  <2>4. ViewsRead' = ViewsRead /\ OutRead' = OutRead \cup {v}
    BY <2>1, <2>2 DEF ViewsRead, OutRead
  <2>5. ASSUME NEW s \in Space PROVE InputLabels(s)'
    BY <2>1, <2>4 DEF LabelInv, InputLabels, Building, has_device
  <2>6. ASSUME NEW s \in Space PROVE OutputLabels(s)'
    <3>1. OutputLabels(s)
      BY DEF LabelInv, Building
    <3>2. out_labels'[s] = {w.label : w \in {x \in OutRead' : x.space = s /\ x.dumped}}
      <4>1. CASE s = v.space /\ v.dumped
        <5>1. out_labels'[s] = out_labels[s] \cup {v.label}
          BY <2>1, <2>2, <4>1 DEF MapsBySpace
        <5> QED
          BY <2>4, <3>1, <4>1, <5>1 DEF OutputLabels
      <4>2. CASE ~(s = v.space /\ v.dumped)
        <5>1. out_labels'[s] = out_labels[s]
          BY <2>1, <2>2, <4>2 DEF MapsBySpace
        <5>2. {x \in OutRead' : x.space = s /\ x.dumped}
                = {x \in OutRead : x.space = s /\ x.dumped}
          BY <2>4, <4>2
        <5> QED
          BY <3>1, <5>1, <5>2 DEF OutputLabels
      <4> QED
        BY <4>1, <4>2
    <3>3. CASE s = v.space /\ v.dumped /\ v.size > 0
      <4>1. out_allocations'[s] = Put(out_allocations[s], v.label, v)
        BY <2>1, <2>2, <3>3 DEF MapsBySpace
      <4>2. /\ DOMAIN out_allocations'[s] = DOMAIN out_allocations[s] \cup {v.label}
            /\ out_allocations'[s][v.label] = v
            /\ \A l \in DOMAIN out_allocations[s] :
                 l # v.label => out_allocations'[s][l] = out_allocations[s][l]
        BY <4>1 DEF Put
      <4>3. DOMAIN out_allocations'[s]
              = {w.label : w \in {x \in OutRead' :
                                    x.space = s /\ x.dumped /\ x.size > 0}}
        BY <2>4, <3>1, <3>3, <4>2 DEF OutputLabels
      <4>4. ASSUME NEW l \in DOMAIN out_allocations'[s]
            PROVE  \E w \in OutRead' :
                     /\ w.space = s /\ w.label = l /\ w.dumped /\ w.size > 0
                     /\ out_allocations'[s][l] = w
        <5>1. CASE l = v.label
          BY <2>4, <3>3, <4>2, <5>1
        <5>2. CASE l # v.label
          BY <2>4, <3>1, <4>2, <5>2 DEF OutputLabels
        <5> QED
          BY <5>1, <5>2
      <4> QED
        BY <3>2, <4>3, <4>4 DEF OutputLabels
    <3>4. CASE ~(s = v.space /\ v.dumped /\ v.size > 0)
      <4>1. out_allocations'[s] = out_allocations[s]
        BY <2>1, <2>2, <3>4 DEF MapsBySpace
      <4>2. {x \in OutRead' : x.space = s /\ x.dumped /\ x.size > 0}
              = {x \in OutRead : x.space = s /\ x.dumped /\ x.size > 0}
        BY <2>4, <3>4
      <4> QED
        BY <2>4, <3>1, <3>2, <4>1, <4>2 DEF OutputLabels
    <3> QED
      BY <3>3, <3>4
  <2> QED
    BY <2>1, <2>2, <2>3, <2>5, <2>6 DEF LabelInv, Building, Before
<1> QED
  BY <1>1, <1>2

LEMMA StepLabels == LabelInv /\ [Next]_vars => LabelInv'
<1> SUFFICES ASSUME LabelInv, [Next]_vars PROVE LabelInv'
  OBVIOUS
<1>1. CASE UNCHANGED vars
  <2>1. UNCHANGED <<file, device, lookupVars, phase, unread>>
    BY <1>1 DEF vars, lookupVars
  <2>2. ViewsRead' = ViewsRead /\ OutRead' = OutRead
    BY <2>1 DEF ViewsRead, OutRead
  <2>3. \A s \in Space : /\ InputLabels(s) => InputLabels(s)'
                         /\ OutputLabels(s) => OutputLabels(s)'
    BY <2>1, <2>2 DEF InputLabels, OutputLabels, lookupVars, has_device
  <2> QED
    BY <2>1, <2>3 DEF LabelInv, MapsBySpace, lookupVars
<1>2. ASSUME phase \in Building, Throw \/ DeviceAllocateThrows PROVE LabelInv'
  BY <1>2, Ends DEF Throw, DeviceAllocateThrows
<1>3. ASSUME phase \in Before \ {"copy"}, UNCHANGED <<file, device, lookupVars, unread>>,
             phase' \in {phase, NextPhase(phase)}
      PROVE  LabelInv'
  <2>1. phase' \in Before
    BY <1>3, Phases DEF Before
  <2>2. ViewsRead' = ViewsRead /\ OutRead' = OutRead /\ unread' \subseteq file.views
    BY <1>3, <2>1 DEF ViewsRead, OutRead, Before, LabelInv
  <2> QED
    BY <1>3, <2>1, <2>2, NothingRead DEF Building, Before
<1>4. CASE /\ phase \in Before \ {"copy"}
           /\ \/ Collect("HOST") \/ Collect("DEVICE") \/ compute_allocations
              \/ host_allocate \/ device_init \/ device_allocate
  BY <1>2, <1>3, <1>4
  DEF Building, Collect, compute_allocations, Begin, Iterate, Return,
      host_allocate, device_init, device_allocate, AllMapped
<1>5. CASE phase = "copy" /\ \E v \in unread : IF Refused(v) THEN Throw
                                               ELSE allocate_hdf5_dataset(v)
  BY <1>2, <1>5, InputRead DEF Building, Before
<1>6. CASE phase = "copy" /\ unread = {} /\ read_rest
  <2>1. CASE file.complete
    <3>1. /\ UNCHANGED <<file, device, lookupVars>>
          /\ phase' = "output" /\ unread' = file.out
      BY <1>6, <2>1 DEF read_rest, NextPhase
    <3>2. ViewsRead' = ViewsRead /\ OutRead' = OutRead
      BY <1>6, <3>1 DEF ViewsRead, OutRead
    <3> QED
      BY <1>6, <3>1, <3>2, NothingRead DEF Building, Before
  <2> QED
    BY <1>2, <1>6, <2>1 DEF read_rest, Building, Before
<1>7. CASE phase = "output" /\ \E v \in unread : allocate_output(v)
  BY <1>7, OutputRead
<1>8. CASE phase = "output" /\ unread = {} /\ publish
  <2>1. /\ UNCHANGED <<file, device, lookupVars, unread>>
        /\ phase' = "ready"
    BY <1>8 DEF publish, NextPhase
  <2>2. ViewsRead' = ViewsRead /\ OutRead' = OutRead
    BY <1>8, <2>1 DEF ViewsRead, OutRead
  <2> QED
    BY <1>8, <2>1, <2>2, NothingRead DEF Building, Before
<1>9. CASE phase = "ready" /\ parallel_for
  <2>1. UNCHANGED <<file, device, lookupVars, unread>> /\ phase' = "replayed"
    BY <1>9 DEF parallel_for
  <2>2. ViewsRead' = ViewsRead /\ OutRead' = OutRead
    BY <1>9, <2>1 DEF ViewsRead, OutRead
  <2> QED
    BY <1>9, <2>1, <2>2, NothingRead DEF Building, Before
<1>10. CASE phase \in {"ready", "replayed"} /\ Destroy("closed", {})
  BY <1>10, Ends DEF Building
<1>11. phase \in Before \ {"copy"} <=>
         phase \in {"open", "merge_host", "map_host", "device_init", "collect",
                     "merge_device", "map_device"}
  BY DEF Before, Merging
<1> QED
  BY <1>1, <1>4, <1>5, <1>6, <1>7, <1>8, <1>9, <1>10, <1>11 DEF Next, Constructor

(* get_allocation, get_out_allocation and has_out_allocation answer for    *)
(* one and the same allocation, whatever order HDF5 visits the groups in   *)
(* (allocate_hdf5_dataset, compare_views).                                 *)
THEOREM LookupsPairUpAlways == Spec => []LookupsPairUp
<1>1. LabelInv => LookupsPairUp
  <2> SUFFICES ASSUME LabelInv, Loaded PROVE LookupsPairUp
    BY DEF LookupsPairUp
  <2>1. /\ ViewsRead = file.views /\ OutRead = file.out
        /\ \A s \in Space : InputLabels(s) /\ OutputLabels(s)
        /\ \A v \in file.views \cup file.out : v.space \in Space /\ v.size \in Nat
    BY DumpsAssumption DEF Loaded, LabelInv, Building, ViewsRead, OutRead
  <2>2. ASSUME NEW v \in file.views, v.space = "HOST" \/ has_device
        PROVE  \E w \in Namesakes(v, file.views) :
                 get_allocation(v.space, v.label) =
                   IF w.size > 0 THEN w.address ELSE Nothing
    <3>1. v.label \in DOMAIN allocations[v.space]
      BY <2>1, <2>2 DEF InputLabels
    <3>2. PICK w \in file.views :
            /\ w.space = v.space /\ w.label = v.label
            /\ allocations[v.space][v.label] = IF w.size = 0 THEN Nothing ELSE w.address
      BY <2>1, <3>1 DEF InputLabels
    <3>3. w.size \in Nat /\ w \in Namesakes(v, file.views)
      BY <2>1, <3>2 DEF Namesakes
    <3> QED
      BY <3>1, <3>2, <3>3 DEF get_allocation
  <2>3. ASSUME NEW v \in file.out
        PROVE  LET references == {w \in Namesakes(v, file.out) : w.dumped}
                   nonempty   == {w \in references : w.size > 0}
               IN  /\ has_out_allocation(v.space, v.label) <=> references # {}
                   /\ get_out_allocation(v.space, v.label) \in
                        IF nonempty = {} THEN {Nothing} ELSE nonempty
    <3> DEFINE references == {w \in Namesakes(v, file.out) : w.dumped}
               nonempty == {w \in references : w.size > 0}
    <3>1. has_out_allocation(v.space, v.label) <=> references # {}
      BY <2>1 DEF OutputLabels, has_out_allocation, Namesakes
    <3>2. v.label \in DOMAIN out_allocations[v.space] <=> nonempty # {}
      BY <2>1 DEF OutputLabels, Namesakes
    <3>3. v.label \in DOMAIN out_allocations[v.space] =>
            out_allocations[v.space][v.label] \in nonempty
      BY <2>1 DEF OutputLabels, Namesakes
    <3> HIDE DEF references
    <3>4. get_out_allocation(v.space, v.label) \in
            IF nonempty = {} THEN {Nothing} ELSE nonempty
      <4> HIDE DEF nonempty
      <4> QED
        BY <3>2, <3>3 DEF get_out_allocation
    <3> QED
      BY <3>1, <3>4 DEF references
  <2> QED
    BY <2>2, <2>3 DEF LookupsPairUp
<1> QED
  BY <1>1, InitLabelInv, StepLabels, PTL DEF Spec
-----------------------------------------------------------------------------
(* The regions.  While compute_allocations runs, its locals are a state of *)
(* RegionMerge, whose loop invariant then holds here.                      *)
Pairs(space) == {<<v.address, v.size>> : v \in {w \in Views(space) : w.size > 0}}

HM == INSTANCE RegionMergeProofs
        WITH Granularity <- PageSize, Address <- Nat, Size <- Nat \ {0},
             MaxWanted <- 0, wanted <- Pairs("HOST"), state <- plan, done <- FALSE
DM == INSTANCE RegionMergeProofs
        WITH Granularity <- DeviceGranularity, Address <- Nat, Size <- Nat \ {0},
             MaxWanted <- 0, wanted <- Pairs("DEVICE"), state <- plan, done <- FALSE

PlanInv ==
  /\ phase = "merge_host" =>
       IF plan = NoPlan THEN todo = Wanted("HOST") ELSE HM!MergeInv
  /\ phase = "merge_device" =>
       IF plan = NoPlan THEN todo = Wanted("DEVICE") ELSE DM!MergeInv

(* What compute_allocations returns for the allocations of a space.        *)
Planned(space, P) ==
  /\ P \subseteq HostRegions!Region
  /\ \A v \in Views(space) : v.size > 0 =>
       \E r \in P : /\ r.start <= v.address
                    /\ v.address + v.size <= HostRegions!End(r)
  /\ \A r, s \in P : r # s => \/ HostRegions!End(r) <= s.start
                              \/ HostRegions!End(s) <= r.start
  /\ \A r \in P : r.start % PageSize = 0 /\ r.size % PageSize = 0
  /\ \A r \in P : \A p \in PagesOf(r) : Spanned(space, p)

LEMMA ViewFacts ==
  ASSUME file \in Dumps, NEW v \in file.views
  PROVE  /\ v.space \in Space /\ v.size \in Nat /\ v.address \in Nat
         /\ v.address + v.size <= Cardinality(Pages) * PageSize
         /\ \A w \in file.views : v # w => BytesOf(v) \cap BytesOf(w) = {}
  BY DumpsAssumption

LEMMA PairTypes ==
  ASSUME file \in Dumps, NEW space \in Space
  PROVE  Pairs(space) \in SUBSET (Nat \X (Nat \ {0}))
<1> SUFFICES ASSUME NEW v \in Views(space), v.size > 0
             PROVE  v.address \in Nat /\ v.size \in Nat \ {0}
  BY DEF Pairs
<1> QED
  BY ViewFacts DEF Views

LEMMA NoPlanIsNone ==
  ASSUME plan.current \in HostRegions!Region
  PROVE  plan # NoPlan
  BY NothingAssumption DEF NoPlan

LEMMA HostMerge ==
  /\ HM!Regions = Wanted("HOST")
  /\ \A S : Least(S) = HM!Least(S)
  /\ \A p, r : HostRegions!Visit(p, r) = HM!Visit(p, r)
  /\ HM!Region = HostRegions!Region
  /\ \A r : HM!End(r) = HostRegions!End(r)
<1>1. ASSUME NEW v \in Views("HOST")
      PROVE  get_allocation_address(v)
               = HM!get_allocation_address(v.address, v.size)
  BY DEF Views, get_allocation_address, HM!get_allocation_address,
         HostRegions!get_allocation_address, HM!RoundUp, HM!RoundDown,
         HostRegions!RoundUp, HostRegions!RoundDown
<1>2. \A r : r \in Wanted("HOST") <=>
              \E v \in Views("HOST") :
                v.size > 0 /\ r = HM!get_allocation_address(v.address, v.size)
  BY <1>1, Zenon DEF Wanted
<1>3. HM!Regions = Wanted("HOST")
  <2>1. ASSUME NEW r \in HM!Regions PROVE r \in Wanted("HOST")
    <3>1. PICK w \in Pairs("HOST") : r = HM!get_allocation_address(w[1], w[2])
      BY Zenon DEF HM!Regions
    <3>2. PICK v \in Views("HOST") : v.size > 0 /\ w = <<v.address, v.size>>
      BY DEF Pairs
    <3>3. w[1] = v.address /\ w[2] = v.size
      BY <3>2
    <3> QED  BY <1>2, <3>1, <3>2, <3>3
  <2>2. ASSUME NEW r \in Wanted("HOST") PROVE r \in HM!Regions
    <3>1. PICK v \in Views("HOST") :
            v.size > 0 /\ r = HM!get_allocation_address(v.address, v.size)
      BY <1>2
    <3> DEFINE w == <<v.address, v.size>>
    <3>2. w \in Pairs("HOST") /\ w[1] = v.address /\ w[2] = v.size
      BY <3>1 DEF Pairs
    <3> HIDE DEF w
    <3> QED  BY <3>1, <3>2, Zenon DEF HM!Regions
  <2> QED  BY <2>1, <2>2
<1>4. \A S : Least(S) = HM!Least(S)
  BY DEF Least, HostRegions!Least, HM!Least, HostRegions!Precedes, HM!Precedes
<1>5. \A p, r : HostRegions!Visit(p, r) = HM!Visit(p, r)
  BY DEF HostRegions!Visit, HM!Visit, HostRegions!Longest, HM!Longest,
         HostRegions!End, HM!End
<1> QED
  BY <1>3, <1>4, <1>5 DEF HM!Region, HostRegions!Region, HM!End, HostRegions!End

LEMMA DeviceMerge ==
  /\ DM!Regions = Wanted("DEVICE")
  /\ \A S : Least(S) = DM!Least(S)
  /\ \A p, r : HostRegions!Visit(p, r) = DM!Visit(p, r)
  /\ DM!Region = HostRegions!Region
  /\ \A r : DM!End(r) = HostRegions!End(r)
<1>1. ASSUME NEW v \in Views("DEVICE")
      PROVE  get_allocation_address(v)
               = DM!get_allocation_address(v.address, v.size)
  BY DEF Views, get_allocation_address, DM!get_allocation_address,
         DeviceRegions!get_allocation_address, DM!RoundUp, DM!RoundDown,
         DeviceRegions!RoundUp, DeviceRegions!RoundDown
<1>2. \A r : r \in Wanted("DEVICE") <=>
              \E v \in Views("DEVICE") :
                v.size > 0 /\ r = DM!get_allocation_address(v.address, v.size)
  BY <1>1, Zenon DEF Wanted
<1>3. DM!Regions = Wanted("DEVICE")
  <2>1. ASSUME NEW r \in DM!Regions PROVE r \in Wanted("DEVICE")
    <3>1. PICK w \in Pairs("DEVICE") : r = DM!get_allocation_address(w[1], w[2])
      BY Zenon DEF DM!Regions
    <3>2. PICK v \in Views("DEVICE") : v.size > 0 /\ w = <<v.address, v.size>>
      BY DEF Pairs
    <3>3. w[1] = v.address /\ w[2] = v.size
      BY <3>2
    <3> QED  BY <1>2, <3>1, <3>2, <3>3
  <2>2. ASSUME NEW r \in Wanted("DEVICE") PROVE r \in DM!Regions
    <3>1. PICK v \in Views("DEVICE") :
            v.size > 0 /\ r = DM!get_allocation_address(v.address, v.size)
      BY <1>2
    <3> DEFINE w == <<v.address, v.size>>
    <3>2. w \in Pairs("DEVICE") /\ w[1] = v.address /\ w[2] = v.size
      BY <3>1 DEF Pairs
    <3> HIDE DEF w
    <3> QED  BY <3>1, <3>2, Zenon DEF DM!Regions
  <2> QED  BY <2>1, <2>2
<1>4. \A S : Least(S) = DM!Least(S)
  BY DEF Least, HostRegions!Least, DM!Least, HostRegions!Precedes, DM!Precedes
<1>5. \A p, r : HostRegions!Visit(p, r) = DM!Visit(p, r)
  BY DEF HostRegions!Visit, DM!Visit, HostRegions!Longest, DM!Longest,
         HostRegions!End, DM!End
<1> QED
  BY <1>3, <1>4, <1>5 DEF DM!Region, HostRegions!Region, DM!End, HostRegions!End

LEMMA HostMergeBegins == HM!Begin' => HM!MergeInv'
<1>1. HM!Begin => HM!MergeInv
  BY MemoryAssumption, HM!BeginMergeInv
  DEF HM!GranularityAssumption, HM!RegionAssumption
<1> QED  BY <1>1, PTL

LEMMA HostBegins ==
  ASSUME file \in Dumps, todo = Wanted("HOST"), Begin, UNCHANGED file
  PROVE  HM!MergeInv' /\ plan' # NoPlan
<1>1. HM!Begin'
  <2>1. todo' = todo \ {Least(todo)} /\ plan' = [current |-> Least(todo), allocs |-> {}]
    BY DEF Begin
  <2>2. HM!Regions = Wanted("HOST") /\ HM!Regions' = HM!Regions
    BY HostMerge DEF HM!Regions, Pairs, Views
  <2>3. Pairs("HOST")' = Pairs("HOST") /\ Pairs("HOST") # {}
    <3>1. Wanted("HOST") # {}
      BY DEF Begin
    <3> QED
      BY <3>1 DEF Pairs, Views, Wanted
  <2>4. Pairs("HOST") \in SUBSET (Nat \X (Nat \ {0}))
    BY PairTypes DEF Space
  <2>5. Least(todo) = HM!Least(HM!Regions)
    BY <2>2, HostMerge
  <2> QED
    BY <2>1, <2>2, <2>3, <2>4, <2>5 DEF HM!Begin
<1>2. HM!MergeInv'
  BY <1>1, HostMergeBegins
<1> QED
  BY <1>2, HostMerge, NothingAssumption DEF HM!MergeInv, HM!MergeTypeOK, NoPlan

LEMMA HostIterates ==
  ASSUME HM!MergeInv, Iterate, UNCHANGED file
  PROVE  HM!MergeInv' /\ plan' # NoPlan
<1>1. HM!Iterate
  BY HostMerge DEF Iterate, HM!Iterate, Pairs, Views
<1>2. HM!MergeInv'
  BY <1>1, MemoryAssumption, HM!GrowMergeInv, HM!NextMergeInv
  DEF HM!GranularityAssumption, HM!RegionAssumption
<1> QED
  BY <1>2, HostMerge, NothingAssumption DEF HM!MergeInv, HM!MergeTypeOK, NoPlan

LEMMA DeviceMergeBegins == DM!Begin' => DM!MergeInv'
<1>1. DM!Begin => DM!MergeInv
  BY MemoryAssumption, DM!BeginMergeInv
  DEF DM!GranularityAssumption, DM!RegionAssumption
<1> QED  BY <1>1, PTL

LEMMA DeviceBegins ==
  ASSUME file \in Dumps, todo = Wanted("DEVICE"), Begin, UNCHANGED file
  PROVE  DM!MergeInv' /\ plan' # NoPlan
<1>1. DM!Begin'
  <2>1. todo' = todo \ {Least(todo)} /\ plan' = [current |-> Least(todo), allocs |-> {}]
    BY DEF Begin
  <2>2. DM!Regions = Wanted("DEVICE") /\ DM!Regions' = DM!Regions
    BY DeviceMerge DEF DM!Regions, Pairs, Views
  <2>3. Pairs("DEVICE")' = Pairs("DEVICE") /\ Pairs("DEVICE") # {}
    <3>1. Wanted("DEVICE") # {}
      BY DEF Begin
    <3> QED
      BY <3>1 DEF Pairs, Views, Wanted
  <2>4. Pairs("DEVICE") \in SUBSET (Nat \X (Nat \ {0}))
    BY PairTypes DEF Space
  <2>5. Least(todo) = DM!Least(DM!Regions)
    BY <2>2, DeviceMerge
  <2> QED
    BY <2>1, <2>2, <2>3, <2>4, <2>5 DEF DM!Begin
<1>2. DM!MergeInv'
  BY <1>1, DeviceMergeBegins
<1> QED
  BY <1>2, DeviceMerge, NothingAssumption DEF DM!MergeInv, DM!MergeTypeOK, NoPlan

LEMMA DeviceIterates ==
  ASSUME DM!MergeInv, Iterate, UNCHANGED file
  PROVE  DM!MergeInv' /\ plan' # NoPlan
<1>1. DM!Iterate
  BY DeviceMerge DEF Iterate, DM!Iterate, Pairs, Views
<1>2. DM!MergeInv'
  BY <1>1, MemoryAssumption, DM!GrowMergeInv, DM!NextMergeInv
  DEF DM!GranularityAssumption, DM!RegionAssumption
<1> QED
  BY <1>2, DeviceMerge, NothingAssumption DEF DM!MergeInv, DM!MergeTypeOK, NoPlan

LEMMA PageAligned ==
  ASSUME NEW x \in Nat, x % DeviceGranularity = 0 \/ x % PageSize = 0
  PROVE  x % PageSize = 0
<1> SUFFICES ASSUME x % DeviceGranularity = 0 PROVE x % PageSize = 0
  OBVIOUS
<1> DEFINE k == DeviceGranularity \div PageSize
           m == x \div DeviceGranularity
<1>1. k \in Int /\ m \in Int
  BY MemoryAssumption
<1>2. DeviceGranularity = PageSize * k
  BY MemoryAssumption
<1>3. x = DeviceGranularity * m
  BY MemoryAssumption
<1> HIDE DEF k, m
<1>4. x = PageSize * (k * m)
  BY <1>1, <1>2, <1>3, MemoryAssumption
<1>5. ASSUME NEW n \in Int PROVE (PageSize * n) % PageSize = 0
  BY MemoryAssumption
<1> QED
  BY <1>1, <1>4, <1>5

LEMMA BytePage ==
  ASSUME NEW b \in Nat, b < Cardinality(Pages) * PageSize
  PROVE  b \div PageSize \in Pages
<1>1. Cardinality(Pages) \in Nat
  BY MemoryAssumption, FS_CardinalityType
<1>2. b \div PageSize \in Nat
  BY MemoryAssumption
<1>3. b \div PageSize < Cardinality(Pages)
  BY <1>1, <1>2, MemoryAssumption
<1> QED
  BY <1>1, <1>2, <1>3, MemoryAssumption

LEMMA InAddressSpace ==
  ASSUME NEW b \in Nat, NEW e \in Nat, b < e, e <= Cardinality(Pages) * PageSize
  PROVE  b < Cardinality(Pages) * PageSize
<1>1. Cardinality(Pages) * PageSize \in Nat
  BY MemoryAssumption, FS_CardinalityType
<1> QED
  BY <1>1

LEMMA PagesApart ==
  ASSUME NEW b \in Nat, NEW x \in Nat, NEW c \in Nat,
         x % PageSize = 0, b < x, x <= c
  PROVE  b \div PageSize # c \div PageSize
<1> DEFINE k == x \div PageSize
<1>1. x = PageSize * k /\ k \in Int
  BY MemoryAssumption
<1> HIDE DEF k
<1>2. b \div PageSize < k
  BY <1>1, MemoryAssumption
<1>3. k <= c \div PageSize
  BY <1>1, MemoryAssumption
<1> QED
  BY <1>1, <1>2, <1>3, MemoryAssumption

LEMMA RegionTypes ==
  ASSUME file \in Dumps, NEW space \in Space
  PROVE  Wanted(space) \subseteq HostRegions!Region
<1> SUFFICES ASSUME NEW v \in Views(space), v.size > 0
             PROVE  get_allocation_address(v) \in HostRegions!Region
  BY DEF Wanted
<1>1. v.address \in Nat /\ v.size \in Nat \ {0}
  BY ViewFacts DEF Views
<1>2. /\ HM!get_allocation_address(v.address, v.size) \in HM!Region
      /\ DM!get_allocation_address(v.address, v.size) \in DM!Region
  BY <1>1, MemoryAssumption, HM!RegionOf, DM!RegionOf
  DEF HM!GranularityAssumption, HM!RegionAssumption,
      DM!GranularityAssumption, DM!RegionAssumption
<1>3. get_allocation_address(v)
        \in {HM!get_allocation_address(v.address, v.size),
             DM!get_allocation_address(v.address, v.size)}
  BY DEF get_allocation_address, HM!get_allocation_address,
         DM!get_allocation_address, HostRegions!get_allocation_address,
         DeviceRegions!get_allocation_address, HM!RoundUp, HM!RoundDown,
         DM!RoundUp, DM!RoundDown, HostRegions!RoundUp, HostRegions!RoundDown,
         DeviceRegions!RoundUp, DeviceRegions!RoundDown
<1> QED
  BY <1>2, <1>3, HostMerge, DeviceMerge

LEMMA HostReturns ==
  ASSUME file \in Dumps, HM!MergeInv, todo = {}
  PROVE  Planned("HOST", plan.allocs \cup {plan.current})
<1> DEFINE P == plan.allocs \cup {plan.current}
<1>1. /\ plan.current \in HM!Region /\ plan.allocs \subseteq HM!Region
      /\ HM!Built = P
      /\ \A m \in plan.allocs : HM!End(m) <= plan.current.start
      /\ \A m, n \in plan.allocs :
           m # n => HM!End(m) <= n.start \/ HM!End(n) <= m.start
      /\ \A m \in P : HM!Aligned(m.start) /\ HM!Aligned(m.size)
      /\ \A r \in HM!Regions : HM!Inside(r)
  BY DEF HM!MergeInv, HM!MergeTypeOK, HM!Sorted, HM!RegionsDisjoint,
         HM!Mapped, HM!Built
<1>2. ASSUME NEW v \in Views("HOST"), v.size > 0
      PROVE  \E r \in P : /\ r.start <= v.address
                          /\ v.address + v.size <= HostRegions!End(r)
  <2> DEFINE q == HM!get_allocation_address(v.address, v.size)
  <2>1. v.address \in Nat /\ v.size \in Nat \ {0}
    BY <1>2, ViewFacts DEF Views
  <2>2. /\ q \in HM!Region /\ q.start <= v.address
        /\ v.address + v.size <= HM!End(q)
    BY <2>1, MemoryAssumption, HM!RegionOf
    DEF HM!GranularityAssumption, HM!RegionAssumption
  <2>3. q \in HM!Regions
    <3> DEFINE w == <<v.address, v.size>>
    <3>1. w \in Pairs("HOST") /\ w[1] = v.address /\ w[2] = v.size
      BY <1>2 DEF Pairs
    <3> HIDE DEF w
    <3> QED  BY <3>1, Zenon DEF HM!Regions
  <2>4. PICK m \in P : m.start <= q.start /\ HM!End(q) <= HM!End(m)
    BY <1>1, <2>3 DEF HM!Inside
  <2>5. m \in HM!Region
    BY <1>1
  <2> HIDE DEF q, P
  <2>6. /\ m.start \in Nat /\ HM!End(m) \in Nat
        /\ q.start \in Nat /\ HM!End(q) \in Nat
    BY <2>2, <2>5 DEF HM!Region, HM!End
  <2>7. m.start <= v.address /\ v.address + v.size <= HM!End(m)
    BY <2>1, <2>2, <2>4, <2>6
  <2> QED  BY <2>7, HostMerge
<1>3. \A r \in P : r.start % PageSize = 0 /\ r.size % PageSize = 0
  <2> SUFFICES ASSUME NEW r \in P
               PROVE  r.start % PageSize = 0 /\ r.size % PageSize = 0
    OBVIOUS
  <2>1. r.start \in Nat /\ r.size \in Nat
    BY <1>1 DEF HM!Region
  <2>2. r.start % PageSize = 0 /\ r.size % PageSize = 0
    BY <1>1 DEF HM!Aligned
  <2> QED  BY <2>1, <2>2, PageAligned
<1>4. P \subseteq HostRegions!Region
  BY <1>1, HostMerge
<1>5. \A r, s \in P : r # s => \/ HostRegions!End(r) <= s.start
                              \/ HostRegions!End(s) <= r.start
  BY <1>1, HostMerge
<1>6. \A r \in P : \A p \in PagesOf(r) : Spanned("HOST", p)
  <2> SUFFICES ASSUME NEW m \in P, NEW p \in PagesOf(m) PROVE Spanned("HOST", p)
    OBVIOUS
  <2>1. m \in HostRegions!Region /\ \A x \in m.start .. (HM!End(m) - 1) : HM!Touched(x)
    BY <1>1, <1>4 DEF HM!MergeInv
  <2>2. PICK b \in m.start .. (m.start + m.size - 1) : p = b \div PageSize
    BY DEF PagesOf
  <2>3. PICK r \in HM!Regions : r.start <= b /\ b < HM!End(r)
    <3>1. b \in m.start .. (HM!End(m) - 1)
      BY <2>1, <2>2 DEF HM!End, HostRegions!Region
    <3> QED
      BY <2>1, <3>1 DEF HM!Touched
  <2>4. PICK v \in Views("HOST") : v.size > 0 /\ r = get_allocation_address(v)
    BY HostMerge DEF Wanted
  <2>5. r \in HostRegions!Region
    BY <2>4, RegionTypes DEF Wanted, Space
  <2>6. b \in r.start .. (r.start + r.size - 1)
    BY <2>1, <2>2, <2>3, <2>5 DEF HM!End, HostRegions!Region
  <2>7. p \in PagesOf(r)
    BY <2>2, <2>6 DEF PagesOf
  <2> QED
    BY <2>4, <2>7 DEF Spanned
<1> QED  BY <1>2, <1>3, <1>4, <1>5, <1>6 DEF Planned

LEMMA DeviceReturns ==
  ASSUME file \in Dumps, DM!MergeInv, todo = {}
  PROVE  Planned("DEVICE", plan.allocs \cup {plan.current})
<1> DEFINE P == plan.allocs \cup {plan.current}
<1>1. /\ plan.current \in DM!Region /\ plan.allocs \subseteq DM!Region
      /\ DM!Built = P
      /\ \A m \in plan.allocs : DM!End(m) <= plan.current.start
      /\ \A m, n \in plan.allocs :
           m # n => DM!End(m) <= n.start \/ DM!End(n) <= m.start
      /\ \A m \in P : DM!Aligned(m.start) /\ DM!Aligned(m.size)
      /\ \A r \in DM!Regions : DM!Inside(r)
  BY DEF DM!MergeInv, DM!MergeTypeOK, DM!Sorted, DM!RegionsDisjoint,
         DM!Mapped, DM!Built
<1>2. ASSUME NEW v \in Views("DEVICE"), v.size > 0
      PROVE  \E r \in P : /\ r.start <= v.address
                          /\ v.address + v.size <= HostRegions!End(r)
  <2> DEFINE q == DM!get_allocation_address(v.address, v.size)
  <2>1. v.address \in Nat /\ v.size \in Nat \ {0}
    BY <1>2, ViewFacts DEF Views
  <2>2. /\ q \in DM!Region /\ q.start <= v.address
        /\ v.address + v.size <= DM!End(q)
    BY <2>1, MemoryAssumption, DM!RegionOf
    DEF DM!GranularityAssumption, DM!RegionAssumption
  <2>3. q \in DM!Regions
    <3> DEFINE w == <<v.address, v.size>>
    <3>1. w \in Pairs("DEVICE") /\ w[1] = v.address /\ w[2] = v.size
      BY <1>2 DEF Pairs
    <3> HIDE DEF w
    <3> QED  BY <3>1, Zenon DEF DM!Regions
  <2>4. PICK m \in P : m.start <= q.start /\ DM!End(q) <= DM!End(m)
    BY <1>1, <2>3 DEF DM!Inside
  <2>5. m \in DM!Region
    BY <1>1
  <2> HIDE DEF q, P
  <2>6. /\ m.start \in Nat /\ DM!End(m) \in Nat
        /\ q.start \in Nat /\ DM!End(q) \in Nat
    BY <2>2, <2>5 DEF DM!Region, DM!End
  <2>7. m.start <= v.address /\ v.address + v.size <= DM!End(m)
    BY <2>1, <2>2, <2>4, <2>6
  <2> QED  BY <2>7, DeviceMerge
<1>3. \A r \in P : r.start % PageSize = 0 /\ r.size % PageSize = 0
  <2> SUFFICES ASSUME NEW r \in P
               PROVE  r.start % PageSize = 0 /\ r.size % PageSize = 0
    OBVIOUS
  <2>1. r.start \in Nat /\ r.size \in Nat
    BY <1>1 DEF DM!Region
  <2>2. r.start % DeviceGranularity = 0 /\ r.size % DeviceGranularity = 0
    BY <1>1 DEF DM!Aligned
  <2> QED  BY <2>1, <2>2, PageAligned
<1>4. P \subseteq HostRegions!Region
  BY <1>1, DeviceMerge
<1>5. \A r, s \in P : r # s => \/ HostRegions!End(r) <= s.start
                              \/ HostRegions!End(s) <= r.start
  BY <1>1, DeviceMerge
<1>6. \A r \in P : \A p \in PagesOf(r) : Spanned("DEVICE", p)
  <2> SUFFICES ASSUME NEW m \in P, NEW p \in PagesOf(m) PROVE Spanned("DEVICE", p)
    OBVIOUS
  <2>1. m \in HostRegions!Region /\ \A x \in m.start .. (DM!End(m) - 1) : DM!Touched(x)
    BY <1>1, <1>4 DEF DM!MergeInv
  <2>2. PICK b \in m.start .. (m.start + m.size - 1) : p = b \div PageSize
    BY DEF PagesOf
  <2>3. PICK r \in DM!Regions : r.start <= b /\ b < DM!End(r)
    <3>1. b \in m.start .. (DM!End(m) - 1)
      BY <2>1, <2>2 DEF DM!End, HostRegions!Region
    <3> QED
      BY <2>1, <3>1 DEF DM!Touched
  <2>4. PICK v \in Views("DEVICE") : v.size > 0 /\ r = get_allocation_address(v)
    BY DeviceMerge DEF Wanted
  <2>5. r \in HostRegions!Region
    BY <2>4, RegionTypes DEF Wanted, Space
  <2>6. b \in r.start .. (r.start + r.size - 1)
    BY <2>1, <2>2, <2>3, <2>5 DEF DM!End, HostRegions!Region
  <2>7. p \in PagesOf(r)
    BY <2>2, <2>6 DEF PagesOf
  <2> QED
    BY <2>4, <2>7 DEF Spanned
<1> QED  BY <1>2, <1>3, <1>4, <1>5, <1>6 DEF Planned

(* Nothing to map: every allocation of the space is empty.                 *)
LEMMA NothingPlanned ==
  ASSUME file \in Dumps, NEW space \in Space, Wanted(space) = {}
  PROVE  Planned(space, {})
  BY DEF Planned, Wanted

(* The bytes of an allocation are on the pages of a planned region, and no *)
(* page is in two of them.                                                 *)
LEMMA PlannedPages ==
  ASSUME file \in Dumps, NEW space \in Space, NEW P, Planned(space, P)
  PROVE  /\ \A v \in Views(space) : \A b \in BytesOf(v) :
              \E r \in P : b \div PageSize \in PagesOf(r)
         /\ \A r, s \in P : r # s => PagesOf(r) \cap PagesOf(s) = {}
<1>1. ASSUME NEW v \in Views(space), NEW b \in BytesOf(v)
      PROVE  \E r \in P : b \div PageSize \in PagesOf(r)
  <2>1. /\ v \in file.views /\ v.address \in Nat /\ v.size \in Nat
        /\ v.address + v.size <= Cardinality(Pages) * PageSize
    BY ViewFacts DEF Views
  <2>2. b \in Nat /\ v.address <= b /\ b < v.address + v.size /\ v.size > 0
    BY <2>1 DEF BytesOf
  <2>3. PICK r \in P : r.start <= v.address /\ v.address + v.size <= HostRegions!End(r)
    BY <2>2 DEF Planned
  <2>4. r.start \in Nat /\ r.size \in Nat
    BY DEF Planned, HostRegions!Region
  <2>5. b \in r.start .. (r.start + r.size - 1)
    BY <2>1, <2>2, <2>3, <2>4 DEF HostRegions!End
  <2>6. b \div PageSize \in Pages
    BY <2>1, <2>2, InAddressSpace, BytePage
  <2> QED  BY <2>5, <2>6 DEF PagesOf
<1>2. ASSUME NEW r \in P, NEW s \in P, NEW p \in PagesOf(r), p \in PagesOf(s),
             HostRegions!End(r) <= s.start
      PROVE  FALSE
  <2>1. /\ r.start \in Nat /\ r.size \in Nat /\ s.start \in Nat /\ s.size \in Nat
        /\ s.start % PageSize = 0
    BY DEF Planned, HostRegions!Region
  <2>2. PICK b \in r.start .. (r.start + r.size - 1) : p = b \div PageSize
    BY DEF PagesOf
  <2>3. PICK c \in s.start .. (s.start + s.size - 1) : p = c \div PageSize
    BY <1>2 DEF PagesOf
  <2>4. b \in Nat /\ c \in Nat /\ b < s.start /\ s.start <= c
    BY <1>2, <2>1, <2>2, <2>3 DEF HostRegions!End
  <2> QED  BY <2>1, <2>2, <2>3, <2>4, PagesApart
<1>3. ASSUME NEW r \in P, NEW s \in P, r # s
      PROVE  PagesOf(r) \cap PagesOf(s) = {}
  BY <1>2, <1>3 DEF Planned
<1> QED  BY <1>1, <1>3

-----------------------------------------------------------------------------
(* Where the bytes of the allocations of a space are to be mapped, are     *)
(* being mapped and are mapped.                                            *)
Target(space) == IF space = "HOST" THEN "host" ELSE "device"

Placed(space) ==
  \A v \in Views(space) : \A b \in BytesOf(v) :
    owner[b \div PageSize] = Target(space)

Placing(space) ==
  /\ pending \subseteq HostRegions!Region
  /\ \A v \in Views(space) : \A b \in BytesOf(v) :
       \/ owner[b \div PageSize] = Target(space)
       \/ \E r \in pending : b \div PageSize \in PagesOf(r)
  /\ \A r, s \in pending : r # s => PagesOf(r) \cap PagesOf(s) = {}
  /\ \A r \in pending : \A p \in PagesOf(r) : owner[p] # Target(space)

(* A HIP reservation may land elsewhere: of a HIP build only the host part *)
(* is known, and a copy the driver would refuse is not made.               *)
PlaceInv ==
  /\ phase \in {"open", "merge_host"} => \A p \in Pages : owner[p] # "host"
  /\ phase \in Before \ {"map_device", "copy"} =>
       \A p \in Pages : owner[p] # "device"
  /\ phase = "map_host" => Placing("HOST")
  /\ phase \in {"device_init", "collect", "merge_device", "map_device", "copy"} =>
       Placed("HOST")
  /\ device # "hip" /\ phase = "map_device" => Placing("DEVICE")
  /\ device # "hip" /\ phase = "copy" => Placed("DEVICE")
  /\ CopiesLandInMappedMemory

(* No more is mapped than the captured allocations need: every page mapped *)
(* for the host, or about to be mapped, is one that some of them spans.    *)
SpanInv ==
  /\ phase \in Before => \A p \in Pages : owner[p] = "host" => Spanned("HOST", p)
  /\ phase = "map_host" =>
       /\ pending \subseteq HostRegions!Region
       /\ \A r \in pending : \A p \in PagesOf(r) : Spanned("HOST", p)
  /\ phase = "map_device" =>
       \A r \in pending : \A p \in PagesOf(r) : Spanned("DEVICE", p)

(* The bytes restored so far.                                              *)
MemoryInv ==
  /\ DOMAIN memory = 0 .. (Cardinality(Pages) * PageSize - 1)
  /\ phase \in Before \ {"copy"} => unread = file.views
  /\ phase \in Before \cup {"output", "ready"} =>
       \A v \in ViewsRead : \A b \in BytesOf(v) : memory[b] = v

LEMMA MergeStutters ==
  ASSUME UNCHANGED <<file, todo, plan>>
  PROVE  (HM!MergeInv => HM!MergeInv') /\ (DM!MergeInv => DM!MergeInv')
<1>1. UNCHANGED HM!mergeVars /\ UNCHANGED DM!mergeVars
  BY DEF HM!mergeVars, DM!mergeVars, Pairs, Views
<1>2. HM!MergeInv => HM!MergeInv'
  BY <1>1, MemoryAssumption, HM!NextPreservesMergeInv
  DEF HM!GranularityAssumption, HM!RegionAssumption
<1>3. DM!MergeInv => DM!MergeInv'
  BY <1>1, MemoryAssumption, DM!NextPreservesMergeInv
  DEF DM!GranularityAssumption, DM!RegionAssumption
<1> QED  BY <1>2, <1>3

LEMMA StepPlan ==
  ASSUME file \in Dumps, IdleInv, PlanInv, [Next]_vars
  PROVE  PlanInv'
<1>1. CASE UNCHANGED vars
  BY <1>1, MergeStutters DEF vars, PlanInv, Wanted, Views, NoPlan
<1>2. ASSUME phase \in {"open", "collect"}, NEW space \in Space, Collect(space),
             space = "DEVICE" <=> phase = "collect"
      PROVE  PlanInv'
  <2>1. CASE CollectFails(space)
    BY <1>2, <2>1 DEF Collect, Throw, Destroy, PlanInv
  <2>2. CASE ~CollectFails(space)
    <3>1. /\ plan = NoPlan /\ plan' = plan /\ todo' = Wanted(space) /\ file' = file
          /\ phase' = IF phase = "open" THEN "merge_host" ELSE "merge_device"
      BY <1>2, <2>2 DEF Collect, IdleInv, Merging, NextPhase
    <3> QED
      BY <1>2, <3>1 DEF PlanInv, Wanted, Views, Space, NoPlan
  <2> QED
    BY <2>1, <2>2
<1>3. CASE phase \in Merging /\ compute_allocations
  <2>1. file' = file
    BY <1>3 DEF compute_allocations
  <2>2. CASE Begin
    <3>1. phase' = phase /\ plan = NoPlan
      BY <2>2 DEF Begin
    <3> QED
      BY <1>3, <2>1, <2>2, <3>1, HostBegins, DeviceBegins
      DEF PlanInv, Merging, NoPlan
  <2>3. CASE Iterate
    <3>1. phase' = phase /\ plan # NoPlan
      BY <2>3 DEF Iterate
    <3> QED
      BY <1>3, <2>1, <2>3, <3>1, HostIterates, DeviceIterates
      DEF PlanInv, Merging, NoPlan
  <2>4. CASE Return
    BY <1>3, <2>4 DEF Return, PlanInv, Merging, NextPhase
  <2> QED
    BY <1>3, <2>2, <2>3, <2>4 DEF compute_allocations
<1>4. ASSUME phase' \notin Merging PROVE PlanInv'
  BY <1>4 DEF PlanInv, Merging
<1>5. ASSUME Throw \/ DeviceAllocateThrows PROVE PlanInv'
  BY <1>5 DEF Throw, DeviceAllocateThrows, Destroy, PlanInv
<1>6. CASE phase = "map_host" /\ host_allocate
  BY <1>4, <1>5, <1>6 DEF host_allocate, AllMapped, Merging, NextPhase
<1>7. CASE phase = "device_init" /\ device_init
  BY <1>4, <1>5, <1>7 DEF device_init, Merging, NextPhase
<1>8. CASE phase = "map_device" /\ device_allocate
  BY <1>4, <1>5, <1>8 DEF device_allocate, AllMapped, Merging, NextPhase
<1>9. CASE phase = "copy" /\ \E v \in unread : IF Refused(v) THEN Throw
                                               ELSE allocate_hdf5_dataset(v)
  BY <1>4, <1>5, <1>9 DEF allocate_hdf5_dataset, copy_data, Merging
<1>10. CASE phase = "copy" /\ read_rest
  BY <1>4, <1>5, <1>10 DEF read_rest, Merging, NextPhase
<1>11. CASE phase = "output" /\ \E v \in unread : allocate_output(v)
  BY <1>4, <1>5, <1>11 DEF allocate_output, Merging
<1>12. CASE phase = "output" /\ publish
  BY <1>4, <1>12 DEF publish, Merging, NextPhase
<1>13. CASE phase = "ready" /\ parallel_for
  BY <1>4, <1>13 DEF parallel_for, Merging
<1>14. CASE phase \in {"ready", "replayed"} /\ Destroy("closed", {})
  BY <1>4, <1>14 DEF Destroy, Merging
<1> QED
  BY <1>1, <1>2, <1>3, <1>6, <1>7, <1>8, <1>9, <1>10, <1>11, <1>12, <1>13, <1>14
  DEF Next, Constructor, Space, Merging

LEMMA ReturnPlanned ==
  ASSUME file \in Dumps, PlanInv, Return
  PROVE  /\ phase = "merge_host" => Planned("HOST", pending')
         /\ phase = "merge_device" => Planned("DEVICE", pending')
<1>1. /\ todo = {}
      /\ pending' = IF plan = NoPlan THEN {} ELSE plan.allocs \cup {plan.current}
  BY DEF Return
<1>2. CASE plan = NoPlan
  BY <1>1, <1>2, NothingPlanned DEF PlanInv, Space
<1>3. CASE plan # NoPlan
  BY <1>1, <1>3, HostReturns, DeviceReturns DEF PlanInv
<1> QED
  BY <1>2, <1>3

LEMMA LeastMember ==
  ASSUME NEW S \in SUBSET HostRegions!Region, S # {}
  PROVE  Least(S) \in S
<1>1. HM!Least(S) \in S
  BY HostMerge, MemoryAssumption, HM!LeastRegion
  DEF HM!GranularityAssumption, HM!RegionAssumption
<1> QED
  BY <1>1, HostMerge

(* compute_allocations returned for a space of which nothing is mapped.    *)
LEMMA StartsPlacing ==
  ASSUME file \in Dumps, NEW space \in Space, Planned(space, pending'),
         UNCHANGED <<file, owner>>, \A p \in Pages : owner[p] # Target(space)
  PROVE  Placing(space)'
<1>1. /\ \A v \in Views(space) : \A b \in BytesOf(v) :
            \E r \in pending' : b \div PageSize \in PagesOf(r)
      /\ \A r, s \in pending' : r # s => PagesOf(r) \cap PagesOf(s) = {}
  BY PlannedPages
<1>2. \A r : PagesOf(r) \subseteq Pages
  BY DEF PagesOf
<1>3. pending' \subseteq HostRegions!Region
  BY DEF Planned
<1>4. \A v \in Views(space)' : v \in Views(space)
  BY DEF Views
<1> QED
  BY <1>1, <1>2, <1>3, <1>4 DEF Placing, Target, BytesOf, PagesOf

(* One region is mapped.                                                   *)
LEMMA KeepsPlacing ==
  ASSUME NEW space \in Space, Placing(space), pending # {},
         UNCHANGED file, pending' = pending \ {Least(pending)},
         \A v \in Views(space) : \A b \in BytesOf(v) : b \div PageSize \in Pages,
         owner' = [p \in Pages |-> IF p \in PagesOf(Least(pending))
                                   THEN Target(space) ELSE owner[p]]
  PROVE  Placing(space)'
<1> DEFINE l == Least(pending)
<1>1. l \in pending
  BY LeastMember DEF Placing
<1>2. ASSUME NEW v \in Views(space), NEW b \in BytesOf(v)
      PROVE  \/ owner'[b \div PageSize] = Target(space)
             \/ \E r \in pending' : b \div PageSize \in PagesOf(r)
  <2> DEFINE p == b \div PageSize
  <2>1. p \in Pages
    OBVIOUS
  <2>2. owner[p] = Target(space) \/ \E r \in pending : p \in PagesOf(r)
    BY DEF Placing
  <2> HIDE DEF p, l
  <2>3. owner'[p] = Target(space) \/ \E r \in pending' : p \in PagesOf(r)
    BY <2>1, <2>2 DEF l
  <2> QED  BY <2>3 DEF p
<1>3. ASSUME NEW r \in pending', NEW p \in PagesOf(r)
      PROVE  owner'[p] # Target(space)
  <2>1. r \in pending /\ r # l /\ p \in Pages
    BY DEF PagesOf
  <2>2. p \notin PagesOf(l)
    BY <1>1, <2>1 DEF Placing
  <2> QED  BY <2>1, <2>2 DEF Placing
<1>4. Views(space)' = Views(space)
  BY DEF Views
<1>5. \A r, s \in pending' : r # s => PagesOf(r) \cap PagesOf(s) = {}
  BY DEF Placing
<1>6. pending' \subseteq HostRegions!Region
  BY DEF Placing
<1> QED
  BY <1>2, <1>3, <1>4, <1>5, <1>6 DEF Placing, Target, BytesOf, PagesOf

LEMMA EmplaceMaps ==
  ASSUME NEW space \in Space, NEW r, emplace_back(space, r)
  PROVE  owner' = [p \in Pages |-> IF p \in PagesOf(r) THEN Target(space)
                                   ELSE owner[p]]
  BY DEF emplace_back, MovedFromUnmaps, Target

(* What is placed stays placed when only free pages change hands.          *)
LEMMA StaysPlaced ==
  ASSUME NEW space \in Space, Placed(space), UNCHANGED file,
         \A v \in Views(space) : \A b \in BytesOf(v) : b \div PageSize \in Pages,
         \A p \in Pages : owner[p] # "free" => owner'[p] = owner[p]
  PROVE  Placed(space)'
<1>1. Views(space)' = Views(space)
  BY DEF Views
<1> QED
  BY <1>1 DEF Placed, Target, BytesOf

LEMMA ViewPages ==
  ASSUME file \in Dumps, NEW v \in file.views, NEW b \in BytesOf(v)
  PROVE  b \div PageSize \in Pages
<1>1. /\ v.address \in Nat /\ v.size \in Nat
      /\ v.address + v.size <= Cardinality(Pages) * PageSize
  BY ViewFacts
<1>2. b \in Nat /\ b < v.address + v.size
  BY <1>1 DEF BytesOf
<1> QED
  BY <1>1, <1>2, InAddressSpace, BytePage

(* A copy that is made goes to pages mapped for it.                        *)
LEMMA CopyInside ==
  ASSUME file \in Dumps, PlaceInv, phase = "copy", NEW v \in file.views,
         v.size # 0, ~Refused(v)
  PROVE  Inside(v)
<1>1. v.space \in Space /\ v.size > 0 /\ v \in Views(v.space)
  BY ViewFacts DEF Views
<1>2. CASE v.space = "HOST"
  BY <1>1, <1>2 DEF PlaceInv, Placed, Target, Inside, Copied
<1>3. CASE v.space = "DEVICE" /\ device # "hip"
  BY <1>1, <1>3 DEF PlaceInv, Placed, Target, Inside, Copied
<1>4. CASE v.space = "DEVICE" /\ device = "hip"
  BY <1>1, <1>4 DEF Refused
<1> QED
  BY <1>1, <1>2, <1>3, <1>4 DEF Space

LEMMA StepPlace ==
  ASSUME LabelInv, IdleInv, PlanInv, PlaceInv, [Next]_vars
  PROVE  PlaceInv'
<1>0. /\ file \in Dumps /\ phase # "fault"
      /\ \A s \in Space : \A v \in Views(s) : \A b \in BytesOf(v) :
           b \div PageSize \in Pages
  BY ViewPages DEF LabelInv, PlaceInv, CopiesLandInMappedMemory, Views
<1>1. CASE UNCHANGED vars
  BY <1>1
  DEF vars, PlaceInv, Placed, Placing, Target, Views, PagesOf, BytesOf,
      CopiesLandInMappedMemory
<1>2. ASSUME phase' \notin Before \cup {"fault"}
      PROVE  PlaceInv'
  BY <1>2 DEF PlaceInv, Before, CopiesLandInMappedMemory
<1>3. ASSUME NEW end \in {"failed", "closed"}, NEW left, Destroy(end, left)
      PROVE  PlaceInv'
  <2>1. phase' \in {"terminated", "failed", "closed"}
    BY <1>3 DEF Destroy
  <2> QED
    BY <1>2, <2>1 DEF Before
<1>4. ASSUME Throw PROVE PlaceInv'
  BY <1>3, <1>4 DEF Throw
<1>5. ASSUME UNCHANGED <<file, owner>>
      PROVE  \A s \in Space : Placed(s) => Placed(s)'
  BY <1>5 DEF Placed, Views, Target, BytesOf
<1>6. CASE phase \in {"open", "collect"} /\ (Collect("HOST") \/ Collect("DEVICE"))
  <2>1. CASE ~Throw
    <3>1. /\ UNCHANGED <<file, device, owner>>
          /\ phase' = IF phase = "open" THEN "merge_host" ELSE "merge_device"
      BY <1>6, <2>1 DEF Collect, NextPhase
    <3> QED
      BY <1>5, <1>6, <3>1 DEF PlaceInv, CopiesLandInMappedMemory, Before, Space
  <2> QED
    BY <1>4, <2>1
<1>7. CASE phase \in Merging /\ compute_allocations
  <2>1. UNCHANGED <<file, device, owner>>
    BY <1>7 DEF compute_allocations
  <2>2. CASE Begin \/ Iterate
    <3>1. phase' = phase
      BY <2>2 DEF Begin, Iterate
    <3> QED
      BY <1>5, <1>7, <2>1, <3>1
      DEF PlaceInv, CopiesLandInMappedMemory, Before, Merging, Space
  <2>3. CASE Return
    <3>1. phase' = IF phase = "merge_host" THEN "map_host" ELSE "map_device"
      BY <1>7, <2>3 DEF Return, NextPhase, Merging
    <3>2. CASE phase = "merge_host"
      <4>1. Planned("HOST", pending')
        BY <1>0, <2>3, <3>2, ReturnPlanned
      <4>2. \A p \in Pages : owner[p] # Target("HOST")
        BY <3>2 DEF PlaceInv, Target
      <4>3. Placing("HOST")'
        BY <1>0, <2>1, <4>1, <4>2, StartsPlacing DEF Space
      <4> QED
        BY <2>1, <3>1, <3>2, <4>3 DEF PlaceInv, CopiesLandInMappedMemory, Before
    <3>3. CASE phase = "merge_device"
      <4>1. Planned("DEVICE", pending')
        BY <1>0, <2>3, <3>3, ReturnPlanned
      <4>2. \A p \in Pages : owner[p] # Target("DEVICE")
        BY <3>3 DEF PlaceInv, Target, Before
      <4>3. Placing("DEVICE")'
        BY <1>0, <2>1, <4>1, <4>2, StartsPlacing DEF Space
      <4> QED
        BY <1>5, <2>1, <3>1, <3>3, <4>3
        DEF PlaceInv, CopiesLandInMappedMemory, Before, Space
    <3> QED
      BY <1>7, <3>2, <3>3 DEF Merging
  <2> QED
    BY <1>7, <2>2, <2>3 DEF compute_allocations
<1>8. CASE phase = "map_host" /\ host_allocate
  <2>1. CASE AllMapped
    <3>1. /\ UNCHANGED <<file, device, owner>> /\ phase' = "device_init"
          /\ pending = {}
      BY <1>8, <2>1 DEF AllMapped, NextPhase
    <3>2. Placed("HOST")
      BY <1>8, <3>1 DEF PlaceInv, Placing, Placed
    <3> QED
      BY <1>5, <1>8, <3>1, <3>2
      DEF PlaceInv, CopiesLandInMappedMemory, Before, Space
  <2>2. CASE /\ pending # {}
             /\ emplace_back("HOST", Least(pending))
             /\ pending' = pending \ {Least(pending)}
             /\ UNCHANGED <<file, device, phase>>
    <3>1. owner' = [p \in Pages |-> IF p \in PagesOf(Least(pending))
                                    THEN Target("HOST") ELSE owner[p]]
      BY <2>2, EmplaceMaps DEF Space
    <3>2. Placing("HOST")'
      BY <1>0, <1>8, <2>2, <3>1, KeepsPlacing DEF PlaceInv, Space
    <3>3. \A p \in Pages : owner'[p] # "device"
      BY <1>8, <3>1 DEF PlaceInv, Target, Before
    <3> QED
      BY <1>8, <2>2, <3>2, <3>3 DEF PlaceInv, CopiesLandInMappedMemory, Before
  <2> QED
    BY <1>4, <1>8, <2>1, <2>2 DEF host_allocate
<1>9. CASE phase = "device_init" /\ device_init
  <2>1. ASSUME NEW heap \in SUBSET {p \in Pages : owner[p] = "free"},
               owner' = [p \in Pages |-> IF p \in heap THEN "process" ELSE owner[p]],
               phase' = NextPhase(phase), UNCHANGED <<file, device>>
        PROVE  PlaceInv'
    <3>1. phase' = "collect" /\ Placed("HOST")
      BY <1>9, <2>1 DEF NextPhase, PlaceInv
    <3>2. \A p \in Pages : owner[p] # "free" => owner'[p] = owner[p]
      BY <2>1
    <3>3. Placed("HOST")'
      BY <1>0, <2>1, <3>1, <3>2, StaysPlaced DEF Space
    <3>4. \A p \in Pages : owner'[p] # "device"
      BY <1>9, <2>1 DEF PlaceInv, Before
    <3> QED
      BY <1>9, <2>1, <3>1, <3>3, <3>4 DEF PlaceInv, CopiesLandInMappedMemory, Before
  <2> QED
    BY <1>4, <1>9, <2>1 DEF device_init, DriverHeap
<1>10. CASE phase = "map_device" /\ device_allocate
  <2>1. CASE AllMapped
    <3>1. /\ UNCHANGED <<file, device, owner>> /\ phase' = "copy"
          /\ pending = {}
      BY <1>10, <2>1 DEF AllMapped, NextPhase
    <3>2. device # "hip" => Placed("DEVICE")
      BY <1>10, <3>1 DEF PlaceInv, Placing, Placed
    <3> QED
      BY <1>5, <1>10, <3>1, <3>2
      DEF PlaceInv, CopiesLandInMappedMemory, Before, Space
  <2>2. CASE /\ pending # {}
             /\ \E q \in ReservedFor(Least(pending)) : emplace_back("DEVICE", q)
             /\ pending' = pending \ {Least(pending)}
             /\ UNCHANGED <<file, device, phase>>
    <3>1. PICK q \in ReservedFor(Least(pending)) : emplace_back("DEVICE", q)
      BY <2>2
    <3>2. /\ \A p \in PagesOf(q) : owner[p] = "free"
          /\ device # "hip" => q = Least(pending)
      BY <3>1 DEF ReservedFor, Reservations
    <3>3. owner' = [p \in Pages |-> IF p \in PagesOf(q)
                                    THEN Target("DEVICE") ELSE owner[p]]
      BY <3>1, EmplaceMaps DEF Space
    <3>4. \A p \in Pages : owner[p] # "free" => owner'[p] = owner[p]
      BY <3>2, <3>3
    <3>5. Placed("HOST")'
      BY <1>0, <1>10, <2>2, <3>4, StaysPlaced DEF PlaceInv, Space
    <3>6. device # "hip" => Placing("DEVICE")'
      BY <1>0, <1>10, <2>2, <3>2, <3>3, KeepsPlacing DEF PlaceInv, Space
    <3> QED
      BY <1>10, <2>2, <3>5, <3>6 DEF PlaceInv, CopiesLandInMappedMemory, Before
  <2> QED
    BY <1>3, <1>4, <1>10, <2>1, <2>2 DEF device_allocate, DeviceAllocateThrows
<1>11. CASE phase = "copy" /\ \E v \in unread : IF Refused(v) THEN Throw
                                                ELSE allocate_hdf5_dataset(v)
  <2>1. ASSUME NEW v \in unread, ~Refused(v), allocate_hdf5_dataset(v)
        PROVE  PlaceInv'
    <3>1. v \in file.views
      BY <1>11 DEF LabelInv, Before
    <3>2. v.size # 0 => Inside(v)
      BY <1>0, <1>11, <2>1, <3>1, CopyInside
    <3>3. phase' = phase /\ UNCHANGED <<file, device, owner>>
      BY <1>11, <2>1, <3>2 DEF allocate_hdf5_dataset, copy_data
    <3> QED
      BY <1>5, <1>11, <3>3 DEF PlaceInv, CopiesLandInMappedMemory, Before, Space
  <2> QED
    BY <1>4, <1>11, <2>1
<1>12. CASE phase = "copy" /\ read_rest
  BY <1>2, <1>4, <1>12 DEF read_rest, Before, NextPhase
<1>13. CASE phase = "output" /\ \E v \in unread : allocate_output(v)
  BY <1>2, <1>4, <1>13 DEF allocate_output, Before
<1>14. CASE phase = "output" /\ publish
  BY <1>2, <1>14 DEF publish, Before, NextPhase
<1>15. CASE phase = "ready" /\ parallel_for
  BY <1>2, <1>15 DEF parallel_for, Before
<1>16. CASE phase \in {"ready", "replayed"} /\ Destroy("closed", {})
  BY <1>3, <1>16
<1> QED
  BY <1>1, <1>6, <1>7, <1>8, <1>9, <1>10, <1>11, <1>12, <1>13, <1>14, <1>15, <1>16
  DEF Next, Constructor, Merging

LEMMA StepSpan ==
  ASSUME LabelInv, PlanInv, SpanInv, [Next]_vars
  PROVE  SpanInv'
<1>0. file \in Dumps
  BY DEF LabelInv
<1>1. ASSUME UNCHANGED file
      PROVE  \A s \in Space, p \in Pages : Spanned(s, p)' <=> Spanned(s, p)
  BY <1>1 DEF Spanned, Views
<1>2. ASSUME phase' \notin Before PROVE SpanInv'
  BY <1>2 DEF SpanInv, Before
<1>3. ASSUME NEW end \in {"failed", "closed"}, NEW left, Destroy(end, left)
      PROVE  SpanInv'
  <2>1. phase' \in {"terminated", "failed", "closed"}
    BY <1>3 DEF Destroy
  <2> QED
    BY <1>2, <2>1 DEF Before
<1>4. ASSUME Throw \/ DeviceAllocateThrows PROVE SpanInv'
  BY <1>3, <1>4 DEF Throw, DeviceAllocateThrows
(* Pages may change hands, and only those of a host region to the host.    *)
<1>5. ASSUME UNCHANGED file, phase \in Before, phase' \in Before \ {"map_host", "map_device"},
             \A p \in Pages : owner'[p] = "host" => owner[p] = "host"
      PROVE  SpanInv'
  BY <1>1, <1>5 DEF SpanInv, Space
<1>6. CASE phase \in {"open", "collect"} /\ (Collect("HOST") \/ Collect("DEVICE"))
  <2>1. CASE ~Throw
    <3>1. /\ UNCHANGED <<file, owner>>
          /\ phase' = IF phase = "open" THEN "merge_host" ELSE "merge_device"
      BY <1>6, <2>1 DEF Collect, NextPhase
    <3> QED
      BY <1>5, <1>6, <3>1 DEF Before
  <2> QED
    BY <1>4, <2>1
<1>7. CASE phase \in Merging /\ compute_allocations
  <2>1. UNCHANGED <<file, owner>>
    BY <1>7 DEF compute_allocations
  <2>2. CASE Begin \/ Iterate
    <3>1. phase' = phase
      BY <2>2 DEF Begin, Iterate
    <3> QED
      BY <1>5, <1>7, <2>1, <3>1 DEF Before, Merging
  <2>3. CASE Return
    <3>1. phase' = IF phase = "merge_host" THEN "map_host" ELSE "map_device"
      BY <1>7, <2>3 DEF Return, NextPhase, Merging
    <3>2. /\ phase = "merge_host" => Planned("HOST", pending')
          /\ phase = "merge_device" => Planned("DEVICE", pending')
      BY <1>0, <2>3, ReturnPlanned
    <3>3. \A r : PagesOf(r) \subseteq Pages /\ PagesOf(r)' = PagesOf(r)
      BY DEF PagesOf
    <3> QED
      BY <1>1, <1>7, <2>1, <3>1, <3>2, <3>3
      DEF SpanInv, Planned, Merging, Before, Space
  <2> QED
    BY <1>7, <2>2, <2>3 DEF compute_allocations
<1>8. CASE phase = "map_host" /\ host_allocate
  <2>1. CASE AllMapped
    <3>1. UNCHANGED <<file, owner>> /\ phase' = "device_init"
      BY <1>8, <2>1 DEF AllMapped, NextPhase
    <3> QED
      BY <1>5, <1>8, <3>1 DEF Before
  <2>2. CASE /\ pending # {}
             /\ emplace_back("HOST", Least(pending))
             /\ pending' = pending \ {Least(pending)}
             /\ UNCHANGED <<file, phase>>
    <3>1. owner' = [p \in Pages |-> IF p \in PagesOf(Least(pending))
                                    THEN "host" ELSE owner[p]]
      BY <2>2, EmplaceMaps DEF Space, Target
    <3>2. Least(pending) \in pending
      BY <1>8, <2>2, LeastMember DEF SpanInv
    <3>3. \A r : PagesOf(r) \subseteq Pages /\ PagesOf(r)' = PagesOf(r)
      BY DEF PagesOf
    <3> QED
      BY <1>1, <1>8, <2>2, <3>1, <3>2, <3>3 DEF SpanInv, Before, Space
  <2> QED
    BY <1>4, <1>8, <2>1, <2>2 DEF host_allocate
<1>9. CASE phase = "device_init" /\ device_init
  BY <1>4, <1>5, <1>9 DEF device_init, NextPhase, Before
<1>10. CASE phase = "map_device" /\ device_allocate
  <2>1. CASE AllMapped
    <3>1. UNCHANGED <<file, owner>> /\ phase' = "copy"
      BY <1>10, <2>1 DEF AllMapped, NextPhase
    <3> QED
      BY <1>5, <1>10, <3>1 DEF Before
  <2>2. CASE /\ \E q \in ReservedFor(Least(pending)) : emplace_back("DEVICE", q)
             /\ pending' = pending \ {Least(pending)}
             /\ UNCHANGED <<file, phase>>
    <3>1. PICK q \in ReservedFor(Least(pending)) : emplace_back("DEVICE", q)
      BY <2>2
    <3>2. owner' = [p \in Pages |-> IF p \in PagesOf(q) THEN "device" ELSE owner[p]]
      BY <3>1, EmplaceMaps DEF Space, Target
    <3>3. \A r : PagesOf(r) \subseteq Pages /\ PagesOf(r)' = PagesOf(r)
      BY DEF PagesOf
    <3> QED
      BY <1>1, <1>10, <2>2, <3>2, <3>3 DEF SpanInv, Before, Space
  <2> QED
    BY <1>4, <1>10, <2>1, <2>2 DEF device_allocate
<1>11. CASE phase = "copy" /\ \E v \in unread : IF Refused(v) THEN Throw
                                                ELSE allocate_hdf5_dataset(v)
  <2>1. ASSUME NEW v \in unread, allocate_hdf5_dataset(v) PROVE SpanInv'
    <3>1. phase' \in {phase, "fault"} /\ UNCHANGED <<file, owner>>
      BY <2>1 DEF allocate_hdf5_dataset, copy_data
    <3> QED
      BY <1>2, <1>5, <1>11, <3>1 DEF Before
  <2> QED
    BY <1>4, <1>11, <2>1
<1>12. CASE phase = "copy" /\ read_rest
  BY <1>2, <1>4, <1>12 DEF read_rest, Before, NextPhase
<1>13. CASE phase = "output" /\ \E v \in unread : allocate_output(v)
  BY <1>2, <1>4, <1>13 DEF allocate_output, Before
<1>14. CASE phase = "output" /\ publish
  BY <1>2, <1>14 DEF publish, Before, NextPhase
<1>15. CASE phase = "ready" /\ parallel_for
  BY <1>2, <1>15 DEF parallel_for, Before
<1>16. CASE phase \in {"ready", "replayed"} /\ Destroy("closed", {})
  BY <1>3, <1>16
<1>17. CASE UNCHANGED vars
  <2>1. UNCHANGED <<file, phase, owner, pending>>
    BY <1>17 DEF vars
  <2>2. \A r : PagesOf(r) \subseteq Pages /\ PagesOf(r)' = PagesOf(r)
    BY DEF PagesOf
  <2> QED
    BY <1>1, <2>1, <2>2 DEF SpanInv, Space
<1> QED
  BY <1>6, <1>7, <1>8, <1>9, <1>10, <1>11, <1>12, <1>13, <1>14, <1>15, <1>16, <1>17
  DEF Next, Constructor, Merging

-----------------------------------------------------------------------------
LEMMA BytesInMemory ==
  ASSUME file \in Dumps, MemoryInv, NEW v \in file.views
  PROVE  BytesOf(v) \subseteq DOMAIN memory
<1> SUFFICES ASSUME NEW b \in BytesOf(v) PROVE b \in DOMAIN memory
  OBVIOUS
<1>1. /\ v.address \in Nat /\ v.size \in Nat
      /\ v.address + v.size <= Cardinality(Pages) * PageSize
  BY ViewFacts
<1>2. b \in Nat /\ b < v.address + v.size
  BY <1>1 DEF BytesOf
<1>3. Cardinality(Pages) * PageSize \in Nat
  BY MemoryAssumption, FS_CardinalityType
<1>4. b <= Cardinality(Pages) * PageSize - 1
  BY <1>1, <1>2, <1>3
<1> QED
  BY <1>2, <1>3, <1>4 DEF MemoryInv

(* A copy writes the bytes of its allocation and of no other.              *)
LEMMA CopyRestores ==
  ASSUME LabelInv, MemoryInv, PlaceInv, phase = "copy", NEW v \in unread,
         ~Refused(v), allocate_hdf5_dataset(v)
  PROVE  MemoryInv'
<1>1. /\ file \in Dumps /\ v \in file.views /\ unread \subseteq file.views
      /\ v.size \in Nat /\ v.address \in Nat
  BY ViewFacts DEF LabelInv, Before
<1>2. v.size # 0 => Inside(v)
  BY <1>1, CopyInside
<1>3. /\ UNCHANGED <<file, phase>> /\ unread' = unread \ {v}
      /\ IF v.size = 0 THEN memory' = memory
         ELSE memory' = [b \in DOMAIN memory |->
                           IF b \in BytesOf(v) THEN v ELSE memory[b]]
  BY <1>2 DEF allocate_hdf5_dataset, copy_data, Copied
<1>4. DOMAIN memory' = DOMAIN memory
  BY <1>3
<1>5. ViewsRead' = ViewsRead \cup {v}
  BY <1>1, <1>3 DEF ViewsRead
<1>6. ASSUME NEW w \in ViewsRead', NEW b \in BytesOf(w)
      PROVE  memory'[b] = w
  <2>1. w \in file.views /\ b \in DOMAIN memory
    BY <1>1, <1>5, BytesInMemory DEF ViewsRead
  <2>2. CASE w = v
    <3>1. v.size # 0
      BY <1>1, <1>6, <2>2 DEF BytesOf
    <3> QED  BY <1>3, <1>6, <2>1, <2>2, <3>1
  <2>3. CASE w # v
    <3>1. b \notin BytesOf(v)
      BY <1>1, <1>6, <2>1, <2>3, ViewFacts
    <3>2. memory[b] = w
      BY <1>5, <1>6, <2>3 DEF MemoryInv, Before
    <3> QED  BY <1>3, <2>1, <3>1, <3>2
  <2> QED  BY <2>2, <2>3
<1> QED
  BY <1>3, <1>4, <1>6 DEF MemoryInv, Before, BytesOf

LEMMA StepMemory ==
  ASSUME LabelInv, PlaceInv, MemoryInv, [Next]_vars
  PROVE  MemoryInv'
<1>1. ASSUME UNCHANGED <<file, memory>>,
             phase' \in Before \ {"copy"} => unread' = file.views,
             phase' \in Before \cup {"output", "ready"} => ViewsRead' \subseteq ViewsRead,
             phase' \in Before \cup {"output", "ready"} =>
               phase \in Before \cup {"output", "ready"}
      PROVE  MemoryInv'
  BY <1>1 DEF MemoryInv, BytesOf
<1>2. CASE UNCHANGED vars
  BY <1>1, <1>2 DEF vars, MemoryInv, ViewsRead
<1>3. ASSUME NEW end \in {"failed", "closed"}, NEW left, Destroy(end, left)
      PROVE  MemoryInv'
  BY <1>1, <1>3 DEF Destroy, Before
<1>4. ASSUME Throw \/ DeviceAllocateThrows PROVE MemoryInv'
  BY <1>3, <1>4 DEF Throw, DeviceAllocateThrows
<1>5. ASSUME phase \in Before \ {"copy"}, UNCHANGED <<file, memory, unread>>,
             phase' \in {phase, NextPhase(phase)}
      PROVE  MemoryInv'
  <2>1. phase' \in Before
    BY <1>5, Phases DEF Before
  <2>2. unread = file.views /\ ViewsRead' = {}
    BY <1>5, <2>1 DEF MemoryInv, ViewsRead, Before
  <2> QED
    BY <1>1, <1>5, <2>2
<1>6. CASE /\ phase \in Before \ {"copy"}
           /\ \/ Collect("HOST") \/ Collect("DEVICE") \/ compute_allocations
              \/ host_allocate \/ device_init \/ device_allocate
  BY <1>4, <1>5, <1>6
  DEF Collect, compute_allocations, Begin, Iterate, Return,
      host_allocate, device_init, device_allocate, AllMapped
<1>7. CASE phase = "copy" /\ \E v \in unread : IF Refused(v) THEN Throw
                                               ELSE allocate_hdf5_dataset(v)
  BY <1>4, <1>7, CopyRestores
<1>8. CASE phase = "copy" /\ unread = {} /\ read_rest
  <2>1. CASE file.complete
    <3>1. UNCHANGED <<file, memory>> /\ phase' = "output"
      BY <1>8, <2>1 DEF read_rest, NextPhase
    <3> QED
      BY <1>1, <1>8, <3>1 DEF ViewsRead, Before
  <2> QED
    BY <1>4, <1>8, <2>1 DEF read_rest
<1>9. CASE phase = "output" /\ \E v \in unread : allocate_output(v)
  <2>1. ASSUME NEW v \in unread, allocate_output(v) PROVE MemoryInv'
    BY <1>1, <1>4, <1>9, <2>1 DEF allocate_output, ViewsRead, Before
  <2> QED
    BY <1>9, <2>1
<1>10. CASE phase = "output" /\ publish
  BY <1>1, <1>10 DEF publish, NextPhase, ViewsRead, Before
<1>11. CASE phase = "ready" /\ parallel_for
  <2>1. /\ DOMAIN memory' = DOMAIN memory /\ phase' = "replayed"
    BY <1>11 DEF parallel_for
  <2> QED
    BY <2>1 DEF MemoryInv, Before
<1>12. CASE phase \in {"ready", "replayed"} /\ Destroy("closed", {})
  BY <1>3, <1>12
<1>13. phase \in Before \ {"copy"} <=>
         phase \in {"open", "merge_host", "map_host", "device_init", "collect",
                     "merge_device", "map_device"}
  BY DEF Before
<1> QED
  BY <1>2, <1>6, <1>7, <1>8, <1>9, <1>10, <1>11, <1>12, <1>13
  DEF Next, Constructor, Merging

ScopeInv == OwnerInv /\ IdleInv /\ LabelInv /\ PlanInv /\ PlaceInv
            /\ SpanInv /\ MemoryInv

LEMMA InitScopeInv == Init => ScopeInv
<1> SUFFICES ASSUME Init PROVE ScopeInv
  OBVIOUS
<1>1. IdleInv /\ PlanInv
  BY DEF Init, IdleInv, PlanInv, Merging
<1>2. \A p \in Pages : owner[p] \notin {"host", "device"}
  BY DEF Init
<1>3. PlaceInv
  BY <1>2 DEF Init, PlaceInv, CopiesLandInMappedMemory
<1>4. ViewsRead = {} /\ phase = "open" /\ unread = file.views
  BY DEF Init, ViewsRead
<1>5. DOMAIN memory = 0 .. (Cardinality(Pages) * PageSize - 1)
  BY DEF Init
<1>6. MemoryInv
  BY <1>4, <1>5 DEF MemoryInv
<1>7. SpanInv
  BY <1>2 DEF Init, SpanInv
<1> QED
  BY <1>1, <1>3, <1>6, <1>7, InitOwnerInv, InitLabelInv DEF ScopeInv

LEMMA ScopeInvariant == Spec => []ScopeInv
<1>1. ScopeInv /\ [Next]_vars => ScopeInv'
  BY StepOwner, StepIdle, StepLabels, StepPlan, StepPlace, StepSpan, StepMemory
  DEF ScopeInv, LabelInv
<1> QED
  BY <1>1, InitScopeInv, PTL DEF Spec

(* Whatever regions compute_allocations chooses, however the vectors grow  *)
(* and wherever a HIP reservation lands, no copy goes to memory that is    *)
(* not mapped for it (allocate, copy_data).                                *)
THEOREM CopiesLandAlways == Spec => []CopiesLandInMappedMemory
<1>1. ScopeInv => CopiesLandInMappedMemory
  BY DEF ScopeInv, PlaceInv
<1> QED
  BY <1>1, ScopeInvariant, PTL

(* When the constructor returns, the bytes of every captured allocation    *)
(* are back at its own address (get_hdf5_dataset_alloc_info,               *)
(* compute_allocations, allocate and copy_data together).                  *)
THEOREM RestoredAlways == Spec => []RestoredWhenReady
<1>1. ScopeInv => RestoredWhenReady
  BY DEF ScopeInv, MemoryInv, ViewsRead, RestoredWhenReady
<1> QED
  BY <1>1, ScopeInvariant, PTL

(* For any dump, page size and granularity: a host region is never refused *)
(* for what the guard itself has mapped; a device region only for a host   *)
(* mapping on a page that captured allocations of both spaces span, or, in *)
(* a HIP build, for a reservation that landed elsewhere (host_allocate,    *)
(* device_allocate, compute_allocations).                                  *)
THEOREM NeverInItsOwnWayAlways == Spec => []NeverInItsOwnWay
<1>1. ScopeInv => NeverInItsOwnWay
  <2> SUFFICES ASSUME ScopeInv PROVE NeverInItsOwnWay
    OBVIOUS
  <2>1. /\ owner \in [Pages -> {"free", "process", "host", "device"}]
        /\ \A r : PagesOf(r) \subseteq Pages
    BY DEF ScopeInv, OwnerInv, PagesOf
  <2>2. phase = "map_host" =>
          \A r \in pending : \A p \in PagesOf(r) :
            p \in Pages /\ owner[p] # "host" /\ owner[p] # "device"
    BY DEF ScopeInv, PlaceInv, Placing, Target, Before, PagesOf
  <2>3. phase = "map_device" /\ device # "hip" =>
          \A r \in pending : \A p \in PagesOf(r) : owner[p] # "device"
    BY DEF ScopeInv, PlaceInv, Placing, Target
  <2>4. ASSUME phase = "map_device", NEW r \in pending, NEW p \in PagesOf(r)
        PROVE  /\ owner[p] = "device" => device = "hip"
               /\ owner[p] = "host" => Spanned("HOST", p) /\ Spanned("DEVICE", p)
    BY <2>1, <2>3, <2>4 DEF ScopeInv, SpanInv, Before
  <2> QED
    BY <2>1, <2>2, <2>4 DEF NeverInItsOwnWay
<1> QED
  BY <1>1, ScopeInvariant, PTL

-----------------------------------------------------------------------------
LEMMA VisitType ==
  ASSUME NEW p \in [current : HostRegions!Region, allocs : SUBSET HostRegions!Region],
         NEW r \in HostRegions!Region
  PROVE  HostRegions!Visit(p, r)
           \in [current : HostRegions!Region, allocs : SUBSET HostRegions!Region]
<1> DEFINE n == HostRegions!Longest(HostRegions!End(r) - p.current.start,
                                    p.current.size)
<1>1. /\ p.current.start \in Nat /\ p.current.size \in Nat \ {0}
      /\ HostRegions!End(r) \in Nat
  BY DEF HostRegions!Region, HostRegions!End
<1>2. n \in Nat \ {0}
  BY <1>1 DEF HostRegions!Longest
<1> HIDE DEF n
<1>3. CASE HostRegions!End(p.current) > r.start
  <2>1. HostRegions!Visit(p, r) = [p EXCEPT !.current.size = n]
    BY <1>3 DEF HostRegions!Visit, n
  <2> QED  BY <1>2, <2>1 DEF HostRegions!Region
<1>4. CASE ~(HostRegions!End(p.current) > r.start)
  BY <1>4 DEF HostRegions!Visit
<1> QED  BY <1>3, <1>4

(* The conjuncts of ScopeTypeOK about the regions, the vectors and what is *)
(* read.                                                                   *)
RegionTypeOK ==
  /\ todo \cup pending \subseteq HostRegions!Region
  /\ plan = NoPlan \/ plan \in [current : HostRegions!Region,
                                allocs : SUBSET HostRegions!Region]

RawTypeOK == raw \in [Space -> Seq(AllocationValue)]

ReadTypeOK ==
  /\ DOMAIN out_labels = Space
  /\ \A s \in Space : out_labels[s] \subseteq
                        {v.label : v \in file.views \cup file.out}
  /\ unread \subseteq file.views \cup file.out

LEMMA StepRegionTypes ==
  ASSUME file \in Dumps, RegionTypeOK, [Next]_vars
  PROVE  RegionTypeOK'
<1>1. ASSUME UNCHANGED mergeVars, pending' \subseteq pending PROVE RegionTypeOK'
  BY <1>1 DEF RegionTypeOK, mergeVars, NoPlan
<1>2. CASE UNCHANGED vars
  BY <1>1, <1>2 DEF vars, mergeVars
<1>3. ASSUME NEW end \in {"failed", "closed"}, NEW left, Destroy(end, left) PROVE RegionTypeOK'
  BY <1>1, <1>3 DEF Destroy
<1>4. ASSUME Throw \/ DeviceAllocateThrows PROVE RegionTypeOK'
  BY <1>3, <1>4 DEF Throw, DeviceAllocateThrows
<1>5. ASSUME NEW space \in Space, Collect(space) PROVE RegionTypeOK'
  <2>1. CASE ~Throw
    BY <1>5, <2>1, RegionTypes DEF Collect, RegionTypeOK, NoPlan
  <2> QED
    BY <1>4, <2>1
<1>6. CASE compute_allocations
  <2>1. todo # {} => Least(todo) \in HostRegions!Region
    BY LeastMember DEF RegionTypeOK
  <2>2. CASE Begin
    BY <2>1, <2>2 DEF Begin, RegionTypeOK
  <2>3. CASE Iterate
    BY <2>1, <2>3, VisitType DEF Iterate, RegionTypeOK
  <2>4. CASE Return
    BY <2>4 DEF Return, RegionTypeOK, NoPlan
  <2> QED
    BY <1>6, <2>2, <2>3, <2>4 DEF compute_allocations
<1>7. CASE host_allocate \/ device_init \/ device_allocate
  BY <1>1, <1>4, <1>7 DEF host_allocate, device_init, device_allocate, AllMapped
<1>8. CASE \E v \in unread : IF Refused(v) THEN Throw ELSE allocate_hdf5_dataset(v)
  BY <1>1, <1>4, <1>8 DEF allocate_hdf5_dataset
<1>9. CASE read_rest
  BY <1>1, <1>4, <1>9 DEF read_rest
<1>10. CASE \E v \in unread : allocate_output(v)
  BY <1>1, <1>4, <1>10 DEF allocate_output
<1>11. CASE publish \/ parallel_for
  BY <1>1, <1>11 DEF publish, parallel_for
<1> QED
  BY <1>2, <1>3, <1>5, <1>6, <1>7, <1>8, <1>9, <1>10, <1>11
  DEF Next, Constructor, Space

LEMMA EmplaceTypes ==
  ASSUME RawTypeOK, NEW space \in Space, NEW r, r.start \in Nat, r.size \in Nat,
         emplace_back(space, r)
  PROVE  RawTypeOK'
<1>1. PICK grows \in BOOLEAN :
        raw' = [raw EXCEPT ![space] =
          Append(IF grows THEN [i \in DOMAIN raw[space] |-> Moved(raw[space][i])]
                 ELSE raw[space],
                 [start |-> r.start, size |-> r.size, memory_space |-> space])]
  BY DEF emplace_back
<1> DEFINE old == raw[space]
           kept == IF grows THEN [i \in DOMAIN old |-> Moved(old[i])] ELSE old
           new == [start |-> r.start, size |-> r.size, memory_space |-> space]
<1>2. old \in Seq(AllocationValue) /\ new \in AllocationValue
  BY DEF RawTypeOK, AllocationValue
<1>3. \A a \in AllocationValue : Moved(a) \in AllocationValue
  BY DEF Moved, AllocationValue
<1>4. kept \in Seq(AllocationValue)
  <2> HIDE DEF old
  <2> QED  BY <1>2, <1>3
<1>5. raw' = [raw EXCEPT ![space] = Append(kept, new)]
  BY <1>1
<1> HIDE DEF kept, new
<1> QED
  BY <1>2, <1>4, <1>5 DEF RawTypeOK

LEMMA StepRawTypes ==
  ASSUME RegionTypeOK, RawTypeOK, [Next]_vars
  PROVE  RawTypeOK'
<1>1. ASSUME raw' = raw PROVE RawTypeOK'
  BY <1>1 DEF RawTypeOK
<1>2. ASSUME NEW end \in {"failed", "closed"}, NEW left, Destroy(end, left) PROVE RawTypeOK'
  BY <1>1, <1>2 DEF Destroy
<1>3. ASSUME Throw \/ DeviceAllocateThrows PROVE RawTypeOK'
  BY <1>2, <1>3 DEF Throw, DeviceAllocateThrows
<1>4. pending # {} => /\ Least(pending).start \in Nat
                      /\ Least(pending).size \in Nat
  BY LeastMember DEF RegionTypeOK, HostRegions!Region
<1>5. CASE host_allocate
  BY <1>1, <1>3, <1>4, <1>5, EmplaceTypes DEF host_allocate, AllMapped, Space
<1>6. CASE device_allocate
  <2>1. ASSUME pending # {}, NEW q \in ReservedFor(Least(pending)),
               emplace_back("DEVICE", q)
        PROVE  RawTypeOK'
    <3>1. q = Least(pending) \/ q \in Elsewhere(Least(pending))
      BY DEF ReservedFor, Reservations
    <3>2. Least(pending) \in HostRegions!Region
      BY <2>1, LeastMember DEF RegionTypeOK
    <3>3. ASSUME NEW a \in {p * PageSize : p \in Pages}
                             \cup {Cardinality(Pages) * PageSize}
          PROVE  a \in Nat
      BY MemoryAssumption, FS_CardinalityType
    <3>4. q.start \in Nat /\ q.size \in Nat
      BY <3>1, <3>2, <3>3 DEF Elsewhere, HostRegions!Region
    <3> QED
      BY <2>1, <3>4, EmplaceTypes DEF Space
  <2> QED
    BY <1>1, <1>3, <1>6, <2>1 DEF device_allocate, AllMapped
<1>7. CASE Collect("HOST") \/ Collect("DEVICE")
  BY <1>1, <1>3, <1>7 DEF Collect
<1>8. CASE \/ \E v \in unread : IF Refused(v) THEN Throw ELSE allocate_hdf5_dataset(v)
           \/ \E v \in unread : allocate_output(v)
           \/ read_rest \/ device_init
  BY <1>1, <1>3, <1>8
  DEF allocate_hdf5_dataset, allocate_output, read_rest, device_init
<1>9. CASE compute_allocations \/ publish \/ parallel_for \/ UNCHANGED vars
  BY <1>1, <1>9 DEF compute_allocations, publish, parallel_for, vars
<1> QED
  BY <1>2, <1>5, <1>6, <1>7, <1>8, <1>9 DEF Next, Constructor

LEMMA StepReadTypes ==
  ASSUME LabelInv, ReadTypeOK, [Next]_vars
  PROVE  ReadTypeOK'
<1>1. ASSUME UNCHANGED <<file, out_labels>>,
             unread' \subseteq unread \/ unread' = file.out
      PROVE  ReadTypeOK'
  BY <1>1 DEF ReadTypeOK
<1>2. ASSUME NEW end \in {"failed", "closed"}, NEW left, Destroy(end, left) PROVE ReadTypeOK'
  BY <1>1, <1>2 DEF Destroy, lookupVars
<1>3. ASSUME Throw \/ DeviceAllocateThrows PROVE ReadTypeOK'
  BY <1>2, <1>3 DEF Throw, DeviceAllocateThrows
<1>4. CASE \E v \in unread : allocate_output(v)
  <2>1. ASSUME NEW v \in unread, allocate_output(v), ~Throw PROVE ReadTypeOK'
    <3>1. /\ file' = file /\ unread' = unread \ {v}
          /\ out_labels' = IF v.dumped
                           THEN [out_labels EXCEPT ![v.space] = @ \cup {v.label}]
                           ELSE out_labels
      BY <2>1 DEF allocate_output, Noted
    <3>2. v \in file.views \cup file.out
      BY DEF ReadTypeOK
    <3> QED
      BY <3>1, <3>2 DEF ReadTypeOK
  <2> QED
    BY <1>3, <1>4, <2>1
<1>5. CASE \E v \in unread : IF Refused(v) THEN Throw ELSE allocate_hdf5_dataset(v)
  BY <1>1, <1>3, <1>5 DEF allocate_hdf5_dataset
<1>6. CASE read_rest
  BY <1>1, <1>3, <1>6 DEF read_rest, lookupVars
<1>7. CASE \/ Collect("HOST") \/ Collect("DEVICE") \/ host_allocate
           \/ device_init \/ device_allocate
  BY <1>1, <1>3, <1>7
  DEF Collect, host_allocate, device_init, device_allocate, AllMapped, lookupVars
<1>8. CASE compute_allocations \/ publish \/ parallel_for \/ UNCHANGED vars
  BY <1>1, <1>8 DEF compute_allocations, publish, parallel_for, vars, lookupVars
<1> QED
  BY <1>2, <1>4, <1>5, <1>6, <1>7, <1>8 DEF Next, Constructor

(* The regions asked for, the Allocations made of them and the labels read *)
(* have their types, whatever the driver answers and wherever the          *)
(* constructor stops.                                                      *)
THEOREM ScopeTypes == Spec => []ScopeTypeOK
<1> DEFINE Types == RegionTypeOK /\ RawTypeOK /\ ReadTypeOK
<1>1. Init => Types
  BY DEF Init, RegionTypeOK, RawTypeOK, ReadTypeOK, Space
<1>2. ScopeInv /\ Types /\ [Next]_vars => Types'
  BY StepRegionTypes, StepRawTypes, StepReadTypes DEF ScopeInv, LabelInv
<1>3. ScopeInv /\ Types => ScopeTypeOK
  BY DEF ScopeInv, OwnerInv, RegionTypeOK, RawTypeOK, ReadTypeOK, ScopeTypeOK
<1> HIDE DEF Types
<1> QED
  BY <1>1, <1>2, <1>3, ScopeInvariant, PTL DEF Spec
=============================================================================
