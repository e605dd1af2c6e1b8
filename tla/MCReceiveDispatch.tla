-------------------------- MODULE MCReceiveDispatch --------------------------
(* Small instances of ReceiveDispatch for TLC.                             *)
EXTENDS ReceiveDispatch

CONSTANTS p1, p2

TwoProducers == {p1, p2}
=============================================================================
