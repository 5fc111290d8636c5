------------------------------ MODULE MCReplay ------------------------------
(***************************************************************************)
(* Eight pages of two bytes, a device granularity of two pages.  The       *)
(* captured allocations share a page, cross a page, leave a page between   *)
(* them, are empty, share a label or were skipped; the host allocation "d" *)
(* lies in the device granule of "b".                                      *)
(***************************************************************************)
EXTENDS ReplayProps

View(label, space, address, size, dumped) ==
  [label |-> label, space |-> space, address |-> address, size |-> size,
   dumped |-> dumped]

Pool == {View("a", "HOST", 1, 2, TRUE),   View("b", "HOST", 3, 2, TRUE),
         View("a", "HOST", 7, 1, TRUE),   View("c", "HOST", 6, 0, TRUE),
         View("c", "HOST", 6, 0, FALSE),
         View("a", "DEVICE", 9, 2, TRUE), View("b", "DEVICE", 11, 3, TRUE),
         View("c", "DEVICE", 6, 0, TRUE),
         View("d", "HOST", 14, 1, TRUE)}

(* Allocations alive at once have different data.                          *)
Compatible(V) ==
  \A v, w \in V : v # w =>
    BytesOf(v) \cap BytesOf(w) = {} /\ (v.address # w.address \/ v.space # w.space)

Skipped(v) == [v EXCEPT !.dumped = FALSE]

MCDumps ==
  UNION {{[views |-> V, out |-> out, complete |-> complete] :
            out \in {{}, V, {Skipped(v) : v \in V}},
            complete \in {V # {View("a", "HOST", 7, 1, TRUE)}}} :
         V \in {W \in SUBSET Pool : Cardinality(W) <= 3 /\ Compatible(W)}}

MCPages == 0 .. 7
=============================================================================
