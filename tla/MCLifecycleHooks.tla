-------------------------- MODULE MCLifecycleHooks --------------------------
(* A small instance of LifecycleHooks for TLC.                             *)
EXTENDS LifecycleHooks

CONSTANTS t1, t2, connected, loaded

TwoThreads == {t1, t2}
TwoHooks   == <<connected, loaded>>
JustLoaded == {loaded}
=============================================================================
