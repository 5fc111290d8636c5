--------------------------- MODULE MCKernelCapture ---------------------------
(* Small instances of KernelCapture for TLC.                               *)
EXTENDS KernelCaptureProps, TLC

CONSTANTS t1, t2, v1, v2

OneThread  == {t1}
TwoThreads == {t1, t2}
OneView    == {v1}
TwoViews   == {v1, v2}

(* One thread launches the dumped label, another only other kernels.       *)
OwnLabels    == t1 :> {"k"} @@ t2 :> {"o"}
(* Two threads launch the dumped label.                                    *)
SharedLabels == t1 :> {"k"} @@ t2 :> {"k"}
(* A single thread launches two kernels.                                   *)
SoloLabels   == t1 :> {"k", "o"}

AllKrepe  == "k" :> "krepe" @@ "o" :> "krepe"
Wrapped   == "k" :> "functor" @@ "o" :> "plain"
AllPlain  == "k" :> "plain" @@ "o" :> "plain"
Mixed     == "k" :> "krepe" @@ "o" :> "plain"

OwnViews  == t1 :> {v1} @@ t2 :> {v2}
OneOwner  == t1 :> {v1} @@ t2 :> {}
SoloViews == t1 :> {v1, v2}
=============================================================================
