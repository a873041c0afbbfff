--------------------------- MODULE MCCaptureWindow ---------------------------
(***************************************************************************)
(* CaptureWindow for TLC: three operations, so that each may follow any    *)
(* other; a queue that two messages fill, so that posting fails.           *)
(***************************************************************************)
EXTENDS CaptureWindow, TLC
=============================================================================
