----------------------------- MODULE CaptureOnce -----------------------------
(***************************************************************************)
(* What the capture tool promises, without saying how: of the launches of  *)
(* the selected label, the Invocation-th one is chosen; its input is       *)
(* captured after it is chosen and before it runs, its output after it     *)
(* ran and only if the input was captured; nothing is captured twice and   *)
(* nothing that was captured is lost.                                      *)
(***************************************************************************)
EXTENDS Naturals

CONSTANT Invocation   \* 0 when no valid invocation was given

VARIABLES
  launched,  \* launches of the selected label counted so far
  kernel,    \* the chosen launch: "none", "chosen", "ran"
  captured   \* "nothing", "input", "output"

once == <<launched, kernel, captured>>

OnceInit == launched = 0 /\ kernel = "none" /\ captured = "nothing"

CountLaunch ==
  /\ launched' = launched + 1
  /\ kernel' = IF Invocation # 0 /\ launched + 1 = Invocation THEN "chosen"
               ELSE kernel
  /\ UNCHANGED captured

CaptureInput ==
  /\ kernel = "chosen"
  /\ captured = "nothing"
  /\ captured' = "input"
  /\ UNCHANGED <<launched, kernel>>

RunKernel ==
  /\ kernel = "chosen"
  /\ kernel' = "ran"
  /\ UNCHANGED <<launched, captured>>

CaptureOutput ==
  /\ kernel = "ran"
  /\ captured = "input"
  /\ captured' = "output"
  /\ UNCHANGED <<launched, kernel>>

OnceNext == CountLaunch \/ CaptureInput \/ RunKernel \/ CaptureOutput

OnceSpec == OnceInit /\ [][OnceNext]_once
=============================================================================
