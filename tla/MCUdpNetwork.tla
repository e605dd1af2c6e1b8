---------------------------- MODULE MCUdpNetwork ----------------------------
(* A small instance of UdpNetwork for TLC.                                 *)
EXTENDS UdpNetwork, TLC

CONSTANTS a, b, c, r

FourNodes == {a, b, c, r}

Configured(relays, discovery, pairs, events) ==
    [relays |-> relays, discovery |-> discovery, events |-> events,
     remotePeers |-> [n \in FourNodes |-> {m \in FourNodes : <<n, m>> \in pairs}]]

Star == {<<a, r>>, <<b, r>>}
Ring == {<<a, r>>, <<r, b>>, <<b, c>>, <<c, r>>}

(* One node is heard by all; or two know a third, which relays or does     *)
(* not; or each is configured with the next, and three relay.              *)
FourSetups == {Configured({}, {a}, {}, 1),
               Configured({}, {}, Star, 2),
               Configured({r}, {}, Star, 2),
               Configured({r, b, c}, {}, Ring, 1)}
=============================================================================
