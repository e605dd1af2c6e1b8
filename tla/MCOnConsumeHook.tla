--------------------------- MODULE MCOnConsumeHook --------------------------
(* Small instances of OnConsumeHook for TLC.                               *)
EXTENDS OnConsumeHook

CONSTANTS r1, r2, ctl

TwoReceivers == {r1, r2}
=============================================================================
