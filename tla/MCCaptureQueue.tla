--------------------------- MODULE MCCaptureQueue ---------------------------
(* A small instance of CaptureQueue for TLC.                               *)
EXTENDS CaptureQueue

CONSTANTS t1, t2

TwoThreads == {t1, t2}
=============================================================================
