------------------------ MODULE MCAllocationTracker ------------------------
(* A small instance of AllocationTracker for TLC: blocks that can touch,   *)
(* be empty, be as long as the header and reuse an address.                *)
EXTENDS AllocationTracker

MCPtr       == {1, 4}
MCDataBytes == {0, 2, 4}
MCSlack     == {1}
=============================================================================
