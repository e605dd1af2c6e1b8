------------------------------ MODULE MCBroker ------------------------------
(* A small instance of Broker for TLC.                                     *)
EXTENDS Broker

CONSTANTS t1, t2, c1, c2

TwoCallers   == {t1, t2}
TwoChannels  == {c1, c2}
Registration == {"register", "unregister"}
=============================================================================
