----------------------- MODULE AllocationTrackerProofs -----------------------
(***************************************************************************)
(* The size decision of the capture tool is exact and its allocation table *)
(* agrees with the heap, for any spaces, addresses, sizes and Kokkos       *)
(* release.                                                                *)
(***************************************************************************)
EXTENDS AllocationTracker, WellFoundedInduction, TLAPS

-----------------------------------------------------------------------------
(* The decision is exact whenever the block can be measured and the        *)
(* allocator's slack is smaller than the header: an empty View reported    *)
(* with the header's size is recognised as empty, and a View that really   *)
(* holds HeaderSize bytes keeps them (kokkos_hooks.cpp, lines 216-290).    *)
THEOREM MeasuredSizeExact ==
  ASSUME NEW ptr \in Nat, NEW n \in Nat, NEW slack \in Nat,
         NEW legacy \in BOOLEAN, slack < HeaderSize
  PROVE  AllocationDataSize([base |-> ptr, size |-> HeaderSize + n + slack],
                            ptr, ReportedSize(legacy, n)) = n
  BY HeaderSizeAssumption
     DEF AllocationDataSize, ReportedSize, ValidatedDataSize,
         AllocationDataPointer, Unknown

(* Without a measure the decision is either exact or declined: the tool    *)
(* never records a size that it has not been told.                         *)
THEOREM UnmeasuredSizeExactOrUnknown ==
  ASSUME NEW ptr \in Nat, NEW n \in Nat, NEW legacy \in BOOLEAN
  PROVE  AllocationDataSize(NoExtent, ptr, ReportedSize(legacy, n))
           \in {n, Unknown}
  BY HeaderSizeAssumption DEF AllocationDataSize, ReportedSize, NoExtent

(* Whatever the query returns, the bytes the tool will read lie inside the *)
(* block it measured, provided the block starts at or before the pointer.  *)
THEOREM ValidatedSizeInsideBlock ==
  ASSUME NEW base \in Nat, NEW size \in Nat, NEW data \in Nat,
         NEW reported \in Nat,
         ValidatedDataSize(base, size, data, reported) # Unknown
  PROVE  /\ base <= data
         /\ data + ValidatedDataSize(base, size, data, reported)
              <= base + size
  BY DEF ValidatedDataSize, Unknown

-----------------------------------------------------------------------------
(* Blocks in use do not overlap: what the environment guarantees, and what *)
(* makes the recorded ranges disjoint.                                     *)
HeapDisjoint ==
  \A j, k \in DOMAIN heap :
    j # k /\ j[1] = k[1] => BlockEnd(j) <= k[2] \/ BlockEnd(k) <= j[2]

TrackerInv == TrackerTypeOK /\ TrackerMatchesHeap /\ HeapDisjoint

LEMMA BlockFacts ==
  ASSUME TrackerTypeOK, NEW k \in DOMAIN heap
  PROVE  /\ k \in Key /\ k[1] \in Space /\ k[2] \in Nat
         /\ heap[k].bytes \in Nat
         /\ heap[k].slack \in Nat /\ heap[k].slack < HeaderSize
         /\ DataBegin(k) \in Nat /\ DataBegin(k) = k[2] + HeaderSize
         /\ DataEnd(k) \in Nat
         /\ DataEnd(k) = k[2] + HeaderSize + heap[k].bytes
         /\ BlockEnd(k) = DataEnd(k) + heap[k].slack
<1>1. k \in Key /\ heap[k] \in Block
  BY DEF TrackerTypeOK
<1>2. k[1] \in Space /\ k[2] \in Ptr
  BY <1>1 DEF Key
<1>3. heap[k].bytes \in DataBytes /\ heap[k].slack \in Slack
  BY <1>1 DEF Block
<1>4. k[2] \in Nat /\ heap[k].bytes \in Nat
  BY <1>2, <1>3, TrackerAssumption
<1>5. heap[k].slack \in 0 .. (HeaderSize - 1)
  BY <1>3, TrackerAssumption
<1>6. heap[k].slack \in Nat /\ heap[k].slack < HeaderSize
  BY <1>5, HeaderSizeAssumption
<1> QED
  BY <1>1, <1>2, <1>4, <1>6, HeaderSizeAssumption
     DEF DataBegin, DataEnd, BlockEnd, AllocationDataPointer

(* The size kokkosp_allocate_data records is the block's own, or unknown.  *)
LEMMA SizeOfBlock ==
  ASSUME TrackerTypeOK, NEW k \in DOMAIN heap,
         NEW size,
         size = AllocationDataSize(Extent(k), k[2],
                                   ReportedSize(Legacy, heap[k].bytes))
  PROVE  size \in {heap[k].bytes, Unknown}
<1>1. /\ k[1] \in Space /\ k[2] \in Nat
      /\ heap[k].bytes \in Nat /\ heap[k].slack \in Nat
      /\ heap[k].slack < HeaderSize
  BY BlockFacts
<1>2. CASE k[1] \in Measurable
  <2>1. Extent(k) =
          [base |-> k[2],
           size |-> HeaderSize + heap[k].bytes + heap[k].slack]
    BY <1>1, <1>2, HeaderSizeAssumption, BlockFacts DEF Extent
  <2>2. Legacy \in BOOLEAN
    BY TrackerAssumption
  <2>3. AllocationDataSize([base |-> k[2], size |-> HeaderSize
                               + heap[k].bytes + heap[k].slack],
                           k[2], ReportedSize(Legacy, heap[k].bytes))
          = heap[k].bytes
    <3> DEFINE p == k[2]  n == heap[k].bytes  sl == heap[k].slack
    <3>1. p \in Nat /\ n \in Nat /\ sl \in Nat /\ sl < HeaderSize
      BY <1>1
    <3> HIDE DEF p, n, sl
    <3>2. AllocationDataSize([base |-> p, size |-> HeaderSize + n + sl], p,
                             ReportedSize(Legacy, n)) = n
      BY <2>2, <3>1, MeasuredSizeExact, Zenon
    <3> QED  BY <3>2 DEF p, n, sl
  <2> QED  BY <2>1, <2>3
<1>3. CASE k[1] \notin Measurable
  <2>1. Extent(k) = NoExtent
    BY <1>3 DEF Extent
  <2>2. Legacy \in BOOLEAN
    BY TrackerAssumption
  <2>3. AllocationDataSize(NoExtent, k[2], ReportedSize(Legacy, heap[k].bytes))
          \in {heap[k].bytes, Unknown}
    BY <1>1, <2>2, UnmeasuredSizeExactOrUnknown
  <2> QED  BY <2>1, <2>3
<1> QED  BY <1>2, <1>3

LEMMA TrackerInitInv == TrackerInit => TrackerInv
  BY DEF TrackerInit, TrackerInv, TrackerTypeOK, TrackerMatchesHeap,
         HeapDisjoint, Key

LEMMA ObtainBlockInv ==
  ASSUME TrackerInv, NEW k \in Key, NEW b \in Block, ObtainBlock(k, b)
  PROVE  TrackerInv'
<1> USE DEF ObtainBlock, TrackerInv, Put
<1>1. TrackerTypeOK'
  BY DEF TrackerTypeOK
<1>2. TrackerMatchesHeap'
  BY DEF TrackerMatchesHeap, TrackerTypeOK, DataBegin
<1>3. HeapDisjoint'
  BY DEF HeapDisjoint, BlockEnd
<1> QED  BY <1>1, <1>2, <1>3

LEMMA AllocateDataInv ==
  ASSUME TrackerInv, NEW k \in Key, kokkosp_allocate_data(k)
  PROVE  TrackerInv'
<1> DEFINE reported == ReportedSize(Legacy, heap[k].bytes)
           size     == AllocationDataSize(Extent(k), k[2], reported)
           rec == [label           |-> heap[k].label,
                   p_data          |-> AllocationDataPointer(k[2]),
                   size            |-> IF size = Unknown THEN 0 ELSE size,
                   reported_size   |-> reported,
                   data_size_known |-> size # Unknown]
<1>1. /\ k \in DOMAIN heap /\ heap[k] \in Block
      /\ heap[k].phase = "raw"
      /\ heap' = [heap EXCEPT ![k].phase = "reported"]
      /\ active' = IF ShouldTrack(k) THEN Put(active, k, rec) ELSE active
      /\ used' = used
  BY DEF kokkosp_allocate_data, record_allocation, RecordedSize, TrackerInv, TrackerTypeOK
<1>2. size \in {heap[k].bytes, Unknown}
  BY <1>1, SizeOfBlock DEF TrackerInv
<1>3. heap[k].bytes \in Nat /\ k[2] \in Nat /\ heap[k].label \in Label
  BY <1>1, TrackerAssumption DEF Block, Key
<1>4. rec \in Record
  BY <1>2, <1>3, HeaderSizeAssumption, TrackerAssumption
     DEF Record, ReportedSize, AllocationDataPointer, Unknown
<1>5. /\ DOMAIN heap' = DOMAIN heap
      /\ \A j \in DOMAIN heap :
           /\ heap'[j] \in Block
           /\ heap'[j].bytes = heap[j].bytes
           /\ heap'[j].slack = heap[j].slack
           /\ heap'[j].label = heap[j].label
           /\ heap'[j].phase = IF j = k THEN "reported" ELSE heap[j].phase
  BY <1>1 DEF TrackerInv, TrackerTypeOK, Block, Phase
<1> HIDE DEF size, rec
<1>6. TrackerTypeOK'
  BY <1>1, <1>4, <1>5 DEF TrackerInv, TrackerTypeOK, Put
<1>7. TrackerMatchesHeap'
  <2>1. /\ rec.p_data = AllocationDataPointer(k[2])
        /\ IF rec.data_size_known THEN rec.size = heap[k].bytes
           ELSE rec.size = 0
    BY <1>2 DEF rec
  <2>2. k \notin DOMAIN active
    BY <1>1 DEF TrackerInv, TrackerMatchesHeap
  <2> QED
    BY <1>1, <1>5, <2>1, <2>2
       DEF TrackerInv, TrackerMatchesHeap, Put, ShouldTrack, DataBegin
<1>8. HeapDisjoint'
  BY <1>5 DEF TrackerInv, HeapDisjoint, BlockEnd
<1> QED  BY <1>6, <1>7, <1>8 DEF TrackerInv

LEMMA DeallocateDataInv ==
  ASSUME TrackerInv, NEW k \in Key, kokkosp_deallocate_data(k)
  PROVE  TrackerInv'
<1>1. /\ k \in DOMAIN heap
      /\ heap' = [heap EXCEPT ![k].phase = "dying"]
      /\ active' = Drop(active, k)
      /\ used' = used
  BY DEF kokkosp_deallocate_data, record_deallocation
<1>2. /\ DOMAIN heap' = DOMAIN heap
      /\ \A j \in DOMAIN heap :
           /\ heap'[j] \in Block
           /\ heap'[j].bytes = heap[j].bytes
           /\ heap'[j].slack = heap[j].slack
           /\ heap'[j].label = heap[j].label
           /\ heap'[j].phase = IF j = k THEN "dying" ELSE heap[j].phase
  BY <1>1 DEF TrackerInv, TrackerTypeOK, Block, Phase
<1>3. TrackerTypeOK'
  BY <1>1, <1>2 DEF TrackerInv, TrackerTypeOK, Drop
<1>4. TrackerMatchesHeap'
  BY <1>1, <1>2 DEF TrackerInv, TrackerMatchesHeap, Drop, DataBegin
<1>5. HeapDisjoint'
  BY <1>2 DEF TrackerInv, HeapDisjoint, BlockEnd
<1> QED  BY <1>3, <1>4, <1>5 DEF TrackerInv

LEMMA ReturnBlockInv ==
  ASSUME TrackerInv, NEW k \in Key, ReturnBlock(k)
  PROVE  TrackerInv'
<1> USE DEF ReturnBlock, TrackerInv, Drop
<1>1. TrackerTypeOK'
  BY DEF TrackerTypeOK
<1>2. TrackerMatchesHeap'
  BY DEF TrackerMatchesHeap, DataBegin
<1>3. HeapDisjoint'
  BY DEF HeapDisjoint, BlockEnd
<1> QED  BY <1>1, <1>2, <1>3

(* Neither operation on the registered pointers touches the tables.        *)
LEMMA UsedInv ==
  ASSUME TrackerInv, UNCHANGED <<heap, active>>, used' \in [Space -> SUBSET Nat]
  PROVE  TrackerInv'
  BY DEF TrackerInv, TrackerTypeOK, TrackerMatchesHeap, HeapDisjoint,
         BlockEnd, DataBegin

LEMMA ViewPointersNat == TrackerInv => ViewPointers \subseteq Nat
<1> SUFFICES ASSUME TrackerInv, NEW u \in ViewPointers PROVE u \in Nat
  OBVIOUS
<1>1. CASE u = 0
  BY <1>1
<1>2. CASE u # 0
  <2>1. PICK k \in DOMAIN heap : u \in DataBegin(k) .. DataEnd(k)
    BY <1>2 DEF ViewPointers
  <2>2. DataBegin(k) \in Nat /\ DataEnd(k) \in Nat
    BY BlockFacts DEF TrackerInv
  <2> QED  BY <2>1, <2>2
<1> QED  BY <1>1, <1>2

LEMMA TrackerNextInv == TrackerInv /\ [TrackerNext]_tvars => TrackerInv'
<1> SUFFICES ASSUME TrackerInv, [TrackerNext]_tvars PROVE TrackerInv'
  OBVIOUS
<1>1. ASSUME NEW k \in Key, NEW b \in Block, ObtainBlock(k, b)
      PROVE  TrackerInv'
  BY <1>1, ObtainBlockInv
<1>2. ASSUME NEW k \in Key, kokkosp_allocate_data(k) PROVE TrackerInv'
  BY <1>2, AllocateDataInv
<1>3. ASSUME NEW k \in Key, kokkosp_deallocate_data(k) PROVE TrackerInv'
  BY <1>3, DeallocateDataInv
<1>4. ASSUME NEW k \in Key, ReturnBlock(k) PROVE TrackerInv'
  BY <1>4, ReturnBlockInv
<1>5. ASSUME NEW s \in Space, NEW u \in ViewPointers, register_view(s, u)
      PROVE  TrackerInv'
  BY <1>5, ViewPointersNat, UsedInv
     DEF register_view, record_used_allocation, TrackerInv, TrackerTypeOK
<1>6. CASE clear_registered_views
  BY <1>6, UsedInv DEF clear_registered_views, clear_used_allocations
<1>7. CASE UNCHANGED tvars
  BY <1>7, UsedInv DEF tvars, TrackerInv, TrackerTypeOK
<1> QED
  BY <1>1, <1>2, <1>3, <1>4, <1>5, <1>6, <1>7 DEF TrackerNext

LEMMA TrackerInvariant == TrackerSpec => []TrackerInv
  BY TrackerInitInv, TrackerNextInv, PTL DEF TrackerSpec

-----------------------------------------------------------------------------
(* Keys, records and the views noted for a launch have their types.        *)
THEOREM TrackerTypes == TrackerSpec => []TrackerTypeOK
<1>1. TrackerInv => TrackerTypeOK
  BY DEF TrackerInv
<1> QED  BY TrackerInvariant, <1>1, PTL

(* The table and the heap agree in every reachable state: nothing stale,   *)
(* nothing missing, every known size exact (allocation_tracker.cpp 8-39).  *)
THEOREM TrackerCorrect == TrackerSpec => []TrackerMatchesHeap
<1>1. TrackerInv => TrackerMatchesHeap
  BY DEF TrackerInv
<1> QED  BY TrackerInvariant, <1>1, PTL

(* Recorded data ranges of one space are disjoint.                         *)
LEMMA RecordsDisjoint ==
  ASSUME TrackerInv, NEW j \in DOMAIN active, NEW k \in DOMAIN active,
         j # k, j[1] = k[1]
  PROVE  \/ active[j].p_data + active[j].size <= active[k].p_data
         \/ active[k].p_data + active[k].size <= active[j].p_data
<1>1. \A i \in {j, k} :
        /\ i \in DOMAIN heap /\ i[2] \in Nat
        /\ heap[i].bytes \in Nat /\ heap[i].slack \in Nat
        /\ active[i].size \in Nat /\ active[i].size <= heap[i].bytes
        /\ active[i].p_data = i[2] + HeaderSize
        /\ BlockEnd(i) = i[2] + HeaderSize + heap[i].bytes + heap[i].slack
  <2> SUFFICES ASSUME NEW i \in DOMAIN active
               PROVE  /\ i \in DOMAIN heap /\ i[2] \in Nat
                      /\ heap[i].bytes \in Nat /\ heap[i].slack \in Nat
                      /\ active[i].size \in Nat
                      /\ active[i].size <= heap[i].bytes
                      /\ active[i].p_data = i[2] + HeaderSize
                      /\ BlockEnd(i) = i[2] + HeaderSize + heap[i].bytes
                                         + heap[i].slack
    OBVIOUS
  <2>1. i \in DOMAIN heap /\ TrackerTypeOK
    BY DEF TrackerInv, TrackerMatchesHeap
  <2>2. active[i].size \in {0, heap[i].bytes} /\ active[i].p_data = DataBegin(i)
    BY DEF TrackerInv, TrackerMatchesHeap
  <2> QED  BY <2>1, <2>2, BlockFacts
<1>2. BlockEnd(j) <= k[2] \/ BlockEnd(k) <= j[2]
  BY <1>1 DEF TrackerInv, HeapDisjoint
<1> QED  BY <1>1, <1>2, HeaderSizeAssumption

(* What a dump holds never overlaps (allocation_tracker.cpp 54-82): the    *)
(* replayer can put every recorded byte back at its address.               *)
THEOREM SnapshotsDisjoint == TrackerSpec => []SnapshotDisjoint
<1>1. TrackerInv => SnapshotDisjoint
  BY RecordsDisjoint DEF SnapshotDisjoint, Snapshot
<1> QED  BY TrackerInvariant, <1>1, PTL

(* With the plugins a dump holds nothing the functor does not use.         *)
THEOREM SnapshotsMinimal == TrackerSpec => []SnapshotHoldsOnlyUsedViews
<1>1. ASSUME TrackerInv, HasCompilerPlugins, NEW k \in Snapshot
      PROVE  \E u \in used[k[1]] : u \in DataBegin(k) .. DataEnd(k)
  <2>1. PICK u \in used[k[1]] : /\ u >= active[k].p_data
                                /\ u <= active[k].p_data + active[k].size
    BY <1>1 DEF Snapshot, LowerBound
  <2>2. k \in DOMAIN active
    BY <1>1 DEF Snapshot
  <2>3. /\ k \in DOMAIN heap /\ k[2] \in Nat /\ heap[k].bytes \in Nat
        /\ active[k].p_data = DataBegin(k) /\ active[k].size \in Nat
        /\ active[k].size <= heap[k].bytes /\ u \in Nat
    <3>1. k \in DOMAIN heap /\ TrackerTypeOK
      BY <1>1, <2>2 DEF TrackerInv, TrackerMatchesHeap
    <3>2. /\ active[k].size \in {0, heap[k].bytes}
          /\ active[k].p_data = DataBegin(k)
      BY <1>1, <2>2 DEF TrackerInv, TrackerMatchesHeap
    <3>3. u \in Nat
      BY <3>1, BlockFacts DEF TrackerTypeOK
    <3> QED  BY <3>1, <3>2, <3>3, BlockFacts
  <2>4. u \in DataBegin(k) .. DataEnd(k)
    <3>1. /\ DataBegin(k) \in Nat /\ DataBegin(k) = k[2] + HeaderSize
          /\ DataEnd(k) = k[2] + HeaderSize + heap[k].bytes
      BY <1>1, <2>3, BlockFacts DEF TrackerInv
    <3> QED  BY <2>1, <2>3, <3>1, HeaderSizeAssumption
  <2> QED  BY <2>4
<1>2. TrackerInv => SnapshotHoldsOnlyUsedViews
  BY <1>1 DEF SnapshotHoldsOnlyUsedViews
<1> QED  BY TrackerInvariant, <1>2, PTL

(* std::lower_bound finds a pointer whenever one is not below the key: a   *)
(* non-empty set of natural numbers has a least element.                   *)
LEMMA LowerBoundFound ==
  ASSUME NEW pointers \in SUBSET Nat, NEW p \in Nat,
         NEW u \in pointers, u >= p
  PROVE  \E m \in LowerBound(pointers, p) : m <= u
<1> DEFINE R == OpToRel(<, Nat)
           T == {v \in pointers : v >= p}
<1>1. IsWellFoundedOn(R, Nat)
  BY NatLessThanWellFounded
<1>2. T \subseteq Nat /\ T # {}
  OBVIOUS
<1>3. \A m, v \in T : <<v, m>> \notin R => m <= v
  BY <1>2 DEF OpToRel
<1>4. PICK m \in T : \A v \in T : <<v, m>> \notin R
  <2> HIDE DEF R, T
  <2> QED  BY <1>1, <1>2, WFMin
<1>5. \A v \in T : m <= v
  BY <1>3, <1>4
<1> QED  BY <1>5 DEF LowerBound

(* With the plugins a dump leaves out no View the functor holds.           *)
THEOREM SnapshotsComplete == TrackerSpec => []SnapshotHoldsUsedViews
<1>1. ASSUME TrackerInv, NEW k \in DOMAIN active, NEW u \in used[k[1]],
             HasCompilerPlugins, u \in DataBegin(k) .. DataEnd(k),
             active[k].data_size_known \/ u = DataBegin(k)
      PROVE  k \in Snapshot
  <2>1. k \in DOMAIN heap /\ TrackerTypeOK
    BY <1>1 DEF TrackerInv, TrackerMatchesHeap
  <2>2. /\ active[k].p_data = DataBegin(k)
        /\ IF active[k].data_size_known THEN active[k].size = heap[k].bytes
           ELSE active[k].size = 0
    BY <1>1 DEF TrackerInv, TrackerMatchesHeap
  <2>3. used[k[1]] \in SUBSET Nat
    BY <2>1, BlockFacts DEF TrackerTypeOK
  <2>4. /\ DataBegin(k) \in Nat /\ heap[k].bytes \in Nat
        /\ DataEnd(k) = DataBegin(k) + heap[k].bytes
    BY <2>1, BlockFacts, HeaderSizeAssumption
  <2>5. u >= active[k].p_data /\ u <= active[k].p_data + active[k].size
    BY <1>1, <2>2, <2>3, <2>4
  <2>6. PICK m \in LowerBound(used[k[1]], active[k].p_data) : m <= u
    BY <2>2, <2>3, <2>4, <2>5, LowerBoundFound
  <2>7. m \in Nat /\ active[k].size \in Nat
    BY <2>2, <2>3, <2>4 DEF LowerBound
  <2>8. m <= active[k].p_data + active[k].size
    BY <2>2, <2>3, <2>4, <2>5, <2>6, <2>7
  <2> QED  BY <1>1, <2>6, <2>8 DEF Snapshot
<1>2. TrackerInv => SnapshotHoldsUsedViews
  BY <1>1 DEF SnapshotHoldsUsedViews
<1> QED  BY TrackerInvariant, <1>2, PTL
=============================================================================
