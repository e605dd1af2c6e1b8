------------------------- MODULE MCTransportCapture -------------------------
(* A small instance of TransportCapture for TLC.  The plugin's sender is   *)
(* the second caller of the function.                                      *)
EXTENDS TransportCapture

CONSTANT g1

OneThread == {g1}
=============================================================================
