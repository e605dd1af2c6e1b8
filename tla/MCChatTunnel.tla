---------------------------- MODULE MCChatTunnel ----------------------------
(* A small instance of ChatTunnel for TLC.                                 *)
EXTENDS ChatTunnel

CONSTANTS a, b

TwoClients == {a, b}

Ask(to, loopback, size) == [channel |-> "plain", to |-> to, loopback |-> loopback, size |-> size]

(* With room for two characters in an envelope: an empty text and short    *)
(* ones for every target, texts of two parts, one too long to be cut, one  *)
(* longer than Send takes.                                                 *)
AllKinds ==
    {Ask(AllPlayers, TRUE, 1), Ask(AllPlayers, FALSE, 3), Ask(b, TRUE, 0), Ask(b, TRUE, 3),
     Ask(b, FALSE, 2), Ask(Server, TRUE, 1), Ask(AllPlayers, FALSE, 5), Ask(b, TRUE, 6),
     [Ask(b, FALSE, 3) EXCEPT !.channel = "not for the relay"]}

OneEach == [c \in TwoClients |-> 1]
JustB   == {b}
=============================================================================
