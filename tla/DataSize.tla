------------------------------ MODULE DataSize ------------------------------
(***************************************************************************)
(* How the capture tool decides how many bytes of an allocation are data   *)
(* (allocation_data_size and validated_data_size in kokkos_hooks.cpp).     *)
(*                                                                         *)
(* Kokkos allocates a header followed by the data and tells the tool the   *)
(* data size.  Old releases report the size of the header for an empty     *)
(* View, so a reported size equal to HeaderSize is ambiguous: the tool     *)
(* then asks the allocator for the extent of the physical block.           *)
(***************************************************************************)
EXTENDS Integers

CONSTANT HeaderSize    \* KREPE_KOKKOS_ALLOCATION_HEADER_SIZE

ASSUME HeaderSizeAssumption == HeaderSize \in Nat \ {0}

Unknown  == -1                        \* std::nullopt
NoExtent == [base |-> 0, size |-> 0]  \* the block cannot be measured

AllocationDataPointer(ptr) == ptr + HeaderSize

ValidatedDataSize(base, size, data, reported) ==
  LET offset == data - base IN
  IF data < base \/ offset > size THEN Unknown
  ELSE IF offset # size /\ size - offset >= reported THEN reported
  ELSE 0

(* A slip in AllocationDataSize, which the properties must catch.          *)
ReportedSizeTrusted(extent, ptr, reported) == reported

(* "extent" is what the query of the space returns: malloc_usable_size on  *)
(* the host, the pointer attributes on a device, NoExtent when the space   *)
(* has no query or the query fails.                                        *)
AllocationDataSize(extent, ptr, reported) ==
  IF reported # HeaderSize THEN reported
  ELSE IF extent.size = 0 THEN Unknown
  ELSE ValidatedDataSize(extent.base, extent.size,
                         AllocationDataPointer(ptr), reported)

(* What Kokkos reports for a View of n bytes.                              *)
ReportedSize(legacy, n) == IF legacy /\ n = 0 THEN HeaderSize ELSE n
=============================================================================
