----------------------------- MODULE MCDumpFile -----------------------------
(* Values for the constants of DumpFile.                                   *)
EXTENDS DumpFile

CONSTANTS p1, p2, v1, v2, k1, k2

MCMetadataOf == [p \in {p1, p2} |-> IF p = p1 THEN {k1} ELSE {k1, k2}]
=============================================================================
