------------------------------ MODULE Regions ------------------------------
(***************************************************************************)
(* Which regions of the address space the replayer maps so that every      *)
(* captured allocation can be put back at its own address:                 *)
(* get_allocation_address (allocation.hpp) widens an allocation to whole   *)
(* pages, and an iteration of compute_allocations (kernel_replayer.cpp)    *)
(* merges two that share pages, because a page can be mapped only once.    *)
(*                                                                         *)
(* An operator nothing uses (SizeOfBytesOnly, ...) is a slip in the        *)
(* definition that follows it, and a property must catch it.               *)
(***************************************************************************)
EXTENDS Integers

CONSTANT Granularity  \* getpagesize(), or the granularity of the device

ASSUME GranularityAssumption == Granularity \in Nat \ {0}

Region == [start : Nat, size : Nat \ {0}]
End(r) == r.start + r.size

-----------------------------------------------------------------------------
RoundDown(x) == (x \div Granularity) * Granularity
RoundUp(x)   == (((x - 1) \div Granularity) + 1) * Granularity

AddressNotAligned(address, size) ==
  [start |-> address, size |-> RoundUp(size)]

SizeOfBytesOnly(address, size) ==
  [start |-> RoundDown(address), size |-> RoundUp(size)]

SizePlusOnePage(address, size) ==
  [start |-> RoundDown(address),
   size  |-> RoundUp(size + (address - RoundDown(address)) + 1)]

get_allocation_address(address, size) ==
  [start |-> RoundDown(address),
   size  |-> RoundUp(size + (address - RoundDown(address)))]

(* The order of std::pair.                                                 *)
Precedes(r, s) ==
  r.start < s.start \/ (r.start = s.start /\ r.size <= s.size)
Least(S) == CHOOSE r \in S : \A s \in S : Precedes(r, s)

Longest(m, n) == IF m > n THEN m ELSE n

(* One iteration: the region under construction and the finished ones,     *)
(* after region r.                                                         *)
NeverMerged(acc, r) ==
  [current |-> r, allocs |-> acc.allocs \cup {acc.current}]

NestedRegionShrinks(acc, r) ==
  IF End(acc.current) > r.start
  THEN [acc EXCEPT !.current.size = End(r) - acc.current.start]
  ELSE [current |-> r, allocs |-> acc.allocs \cup {acc.current}]

GrownToNextStart(acc, r) ==
  IF End(acc.current) > r.start
  THEN [acc EXCEPT !.current.size = r.start - acc.current.start]
  ELSE [current |-> r, allocs |-> acc.allocs \cup {acc.current}]

Visit(acc, r) ==
  IF End(acc.current) > r.start
  THEN [acc EXCEPT !.current.size =
          Longest(End(r) - acc.current.start, acc.current.size)]
  ELSE [current |-> r, allocs |-> acc.allocs \cup {acc.current}]
=============================================================================
