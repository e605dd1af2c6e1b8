--------------------------- MODULE OrderedDelivery ---------------------------
(***************************************************************************)
(* What the completed-message FIFO of STRPluginMessagingBridge.cpp         *)
(* promises: the messages it accepts reach the consumer one at a time and  *)
(* in the order they were accepted; only the end of a session discards     *)
(* what has not been handed over, and it keeps at most the message that is *)
(* being handed over.                                                      *)
(***************************************************************************)
EXTENDS Integers, Sequences

CONSTANTS Message

VARIABLES
    channel,  \* accepted, not yet handed to the consumer
    handed    \* handed to the consumer, in this session

vars == <<channel, handed>>

Init == channel = <<>> /\ handed = <<>>

Accept(m) ==
    /\ channel' = Append(channel, m)
    /\ UNCHANGED handed

HandOver ==
    /\ channel # <<>>
    /\ handed' = Append(handed, Head(channel))
    /\ channel' = Tail(channel)

Close ==
    /\ channel # <<>>
    /\ \E kept \in {0, 1} : channel' = SubSeq(channel, 1, kept)
    /\ UNCHANGED handed

Open == channel = <<>> /\ handed' = <<>> /\ UNCHANGED channel

Next == (\E m \in Message : Accept(m)) \/ HandOver \/ Close \/ Open

Spec == Init /\ [][Next]_vars /\ WF_vars(HandOver \/ Close)
=============================================================================
