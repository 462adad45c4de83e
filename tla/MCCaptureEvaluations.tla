------------------------ MODULE MCCaptureEvaluations -----------------------
(* Small instances of CaptureEvaluations for TLC.                          *)
EXTENDS CaptureEvaluations, TLC

CONSTANTS e1, e2, w1, w2

TwoReceipts == {e1, e2}
TwoWaiters == {w1, w2}
=============================================================================
