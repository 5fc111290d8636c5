----------------------------- MODULE DumpStore -----------------------------
(***************************************************************************)
(* What a dump file promises the program that loads it: one process's      *)
(* input, or nothing, and outputs only of that same process.  DumpFile     *)
(* implements it as long as the processes run one after the other.         *)
(***************************************************************************)
CONSTANTS Process, None

VARIABLES
  dump,    \* the process whose input can be loaded, or None
  outputs  \* the process whose outputs come with it, or None

Init == dump = None /\ outputs = None

Lose == dump' = None /\ outputs' = None

Publish(p) ==
  /\ dump = None
  /\ dump' = p
  /\ outputs' = None

Complete(p) ==
  /\ dump = p /\ outputs = None
  /\ outputs' = p
  /\ UNCHANGED dump

Next == Lose \/ \E p \in Process : Publish(p) \/ Complete(p)

Spec == Init /\ [][Next]_<<dump, outputs>>
=============================================================================
