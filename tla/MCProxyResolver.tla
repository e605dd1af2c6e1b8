--------------------------- MODULE MCProxyResolver --------------------------
(* Small instances of ProxyResolver for TLC.                               *)
EXTENDS ProxyResolver

CONSTANTS t1, t2, w, c1, c2, p1, p2, f1, f2, l1, l2

OneThread == {t1}
TwoThreads == {t1, t2}
OneConnection == {c1}
TwoConnections == {c1, c2}
OnePlayer == {p1}
TwoPlayers == {p1, p2}
OneForm == {f1}
TwoForms == {f1, f2}
OneListener == {l1}
=============================================================================
