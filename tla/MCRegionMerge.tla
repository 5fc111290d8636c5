--------------------------- MODULE MCRegionMerge ---------------------------
(* Every set of up to four allocations in seven bytes, two to a page.      *)
EXTENDS RegionMerge

MCAddress == 0 .. 6
MCSize    == {1, 2, 5}
=============================================================================
