--------------------------- MODULE MCPeerSessions ---------------------------
(* A small instance of PeerSessions for TLC.                               *)
EXTENDS PeerSessions, TLC

CONSTANTS a, b

TwoClients == {a, b}

(* One client comes back once, the other may only leave.                   *)
OneComesBack == (a :> 2) @@ (b :> 1)

(* The one that comes back may be without the ProxyResolver interface.     *)
BothOrOne == {{a, b}, {b}}
=============================================================================
