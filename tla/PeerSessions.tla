---------------------------- MODULE PeerSessions ----------------------------
(***************************************************************************)
(* What two clients do with a session of STR: the identity worker of the   *)
(* bridge (STRPluginMessagingBridgeSKSE.cpp) announces the client to the   *)
(* others, again and again, and the diagnostic client                      *)
(* (STRPluginMessagingDiagnosticSKSE.cpp) sends two probes, answers its    *)
(* peer with one acknowledgement, and resolves the peer's proxy.  Both     *)
(* notice a session by polling g_connected, so one may come and go between *)
(* two polls.                                                              *)
(*                                                                         *)
(* A send reaches the sessions that are open, in the order sent; what has  *)
(* not arrived when a session ends is lost, what has is still called back. *)
(* A send that fails is tried again and changes nothing.  The transport,   *)
(* the relay and the mapping join are modules of their own.  The names     *)
(* with PS leave room for the other backend's peers, those of UdpNetwork.  *)
(***************************************************************************)
EXTENDS Integers, Sequences, FiniteSets

CONSTANTS
    Clients,
    None,        \* no peer, no message
    MaxSessions, \* bound: the sessions of each client
    MayResolve   \* bound: which clients may have the ProxyResolver interface

ASSUME NoneAssumption  == None \notin Clients
ASSUME BoundAssumption == MaxSessions \in [Clients -> Nat] /\ MayResolve \subseteq SUBSET Clients

VARIABLES
    resolvers,   \* the clients that have found the ProxyResolver interface
    connected,   \* g_connected
    session,     \* the client's sessions so far, which names its PlayerId
    inbox,       \* messages of the test channel that have arrived
    receiving,   \* the one whose callback has found the session open
    pc, probe, ackSent,     \* the diagnostic worker, probeNumber, ackSent
    peer, peerAck,          \* g_peerObserved with g_peerConnectionID, g_peerAckObserved
    listening,   \* g_identityListenerRegistered
    known,       \* the PlayerId of each other, where it has arrived
    heard, complete         \* history: who has observed the client; its handshake is complete

sessionVars    == <<resolvers, connected, session>>
messageVars    == <<inbox, receiving>>
diagnosticVars == <<pc, probe, ackSent, peer, peerAck>>
identityVars   == <<listening, known>>
historyVars    == <<heard, complete>>
PSvars == <<sessionVars, messageVars, diagnosticVars, identityVars, historyVars>>

Nobody == [p \in Clients |-> 0]

PSInit ==
    /\ resolvers \in MayResolve
    /\ connected = [c \in Clients |-> FALSE] /\ session = Nobody
    /\ inbox = [c \in Clients |-> <<>>] /\ receiving = [c \in Clients |-> None]
    /\ pc = [c \in Clients |-> "waiting"] /\ probe = [c \in Clients |-> 1]
    /\ ackSent = [c \in Clients |-> FALSE] /\ peerAck = [c \in Clients |-> FALSE]
    /\ peer = [c \in Clients |-> None]
    /\ listening = [c \in Clients |-> FALSE]
    /\ known = [c \in Clients |-> Nobody]
    /\ heard = [c \in Clients |-> {}] /\ complete = [c \in Clients |-> FALSE]

Goto(c, place) == pc' = [pc EXCEPT ![c] = place]
-----------------------------------------------------------------------------
(* STR's sessions.  The hook on OnDisconnected clears the mappings.        *)
OnConnected(c) ==
    /\ ~connected[c] /\ session[c] < MaxSessions[c]
    /\ connected' = [connected EXCEPT ![c] = TRUE]
    /\ session' = [session EXCEPT ![c] = @ + 1]
    /\ UNCHANGED <<resolvers, messageVars, diagnosticVars, identityVars, historyVars>>

OnDisconnected(c) ==
    /\ connected[c]
    /\ connected' = [connected EXCEPT ![c] = FALSE]
    /\ known' = [known EXCEPT ![c] = Nobody]
    /\ \E n \in 0 .. Len(inbox[c]) : inbox' = [inbox EXCEPT ![c] = SubSeq(@, 1, n)]
    /\ UNCHANGED <<resolvers, session, receiving, diagnosticVars, listening, historyVars>>
-----------------------------------------------------------------------------
(* The identity worker.  The relay writes the sender's PlayerId into the   *)
(* announcement, and it is with whoever listens at once: a slow one is as  *)
(* good as one that is sent later.                                         *)
EnsureIdentityListener(c) ==
    /\ ~listening[c] /\ listening' = [listening EXCEPT ![c] = TRUE]
    /\ UNCHANGED <<sessionVars, messageVars, diagnosticVars, known, historyVars>>

ReceiveIdentityAnnouncement(from) ==
    known' = [c \in Clients |->
        IF c # from /\ connected[c] /\ listening[c]
        THEN [known[c] EXCEPT ![from] = session[from]] ELSE known[c]]

(* Slip: no heartbeat once the client knows everybody itself.              *)
AnnounceUntilKnown(c) ==
    /\ connected[c] /\ (\E p \in Clients \ {c} : known[c][p] = 0)
    /\ ReceiveIdentityAnnouncement(c)
    /\ UNCHANGED <<sessionVars, messageVars, diagnosticVars, listening, historyVars>>

Announce(c) ==
    /\ connected[c] /\ ReceiveIdentityAnnouncement(c)
    /\ UNCHANGED <<sessionVars, messageVars, diagnosticVars, listening, historyVars>>
-----------------------------------------------------------------------------
(* ReceiveDiagnostic, on the dispatcher's thread.                          *)
ReceiveDiagnostic(c) ==
    /\ receiving[c] = None /\ inbox[c] # <<>>
    /\ inbox' = [inbox EXCEPT ![c] = Tail(@)]
    /\ receiving' = [receiving EXCEPT ![c] = IF connected[c] THEN Head(inbox[c]) ELSE None]
    /\ UNCHANGED <<diagnosticVars, historyVars>>

ObservePeer(c) ==
    /\ receiving[c] # None
    /\ peer' = [peer EXCEPT ![c] = receiving[c].from]
    /\ peerAck' = [peerAck EXCEPT ![c] = @ \/ receiving[c].kind = "ack"]
    /\ heard' = [heard EXCEPT ![receiving[c].from] = @ \union {c}]
    /\ receiving' = [receiving EXCEPT ![c] = None]
    /\ UNCHANGED <<inbox, pc, probe, ackSent, complete>>

DiagnosticCallback(c) ==
    /\ ReceiveDiagnostic(c) \/ ObservePeer(c)
    /\ UNCHANGED <<sessionVars, identityVars>>
-----------------------------------------------------------------------------
(* DiagnosticWorker and RunDiagnosticSession.                              *)
ResetSessionState(c) ==
    /\ peer' = [peer EXCEPT ![c] = None] /\ peerAck' = [peerAck EXCEPT ![c] = FALSE]

(* Everybody gets what is sent, the sender too; but a client's own payload *)
(* has no effect on it, so it does not get into its inbox.                 *)

(* Slip: a client takes itself for its peer.                               *)
IsAnybodysPayload(p, c) == TRUE
IsPeerDiagnosticPayload(p, c) == p # c

SendDiagnosticPayload(c, kind) ==
    inbox' = [p \in Clients |->
        IF connected[p] /\ IsPeerDiagnosticPayload(p, c)
        THEN Append(inbox[p], [from |-> c, kind |-> kind]) ELSE inbox[p]]

(* The end of a session leads back to DiagnosticWorker's reset and wait.   *)
EndSession(c) ==
    /\ Goto(c, "waiting") /\ ResetSessionState(c)
    /\ UNCHANGED <<inbox, probe, ackSent, complete>>

StartSession(c) ==
    /\ pc[c] = "waiting" /\ connected[c]
    /\ ResetSessionState(c) /\ Goto(c, "settling")
    /\ probe' = [probe EXCEPT ![c] = 1] /\ ackSent' = [ackSent EXCEPT ![c] = FALSE]
    /\ UNCHANGED <<inbox, complete>>

Settle(c) ==
    /\ pc[c] = "settling" /\ connected[c] /\ Goto(c, "probing")
    /\ UNCHANGED <<inbox, probe, ackSent, peer, peerAck, complete>>

(* Slip: the state of the session is reset when the probes are through.    *)
SendProbeThenReset(c) ==
    /\ pc[c] = "probing" /\ connected[c] /\ SendDiagnosticPayload(c, "probe")
    /\ probe' = [probe EXCEPT ![c] = @ + 1]
    /\ IF probe[c] < 2
       THEN UNCHANGED <<pc, peer, peerAck>>
       ELSE Goto(c, "handshaking") /\ ResetSessionState(c)
    /\ UNCHANGED <<ackSent, complete>>

SendProbe(c) ==
    /\ pc[c] = "probing" /\ connected[c] /\ SendDiagnosticPayload(c, "probe")
    /\ probe' = [probe EXCEPT ![c] = @ + 1]
    /\ Goto(c, IF probe[c] < 2 THEN "probing" ELSE "handshaking")
    /\ UNCHANGED <<ackSent, peer, peerAck, complete>>

SendAck(c) ==
    /\ pc[c] = "handshaking" /\ connected[c] /\ peer[c] # None /\ ~ackSent[c]
    /\ SendDiagnosticPayload(c, "ack")
    /\ ackSent' = [ackSent EXCEPT ![c] = TRUE]
    /\ UNCHANGED <<pc, probe, peer, peerAck, complete>>

SessionEnded(c) ==
    pc[c] \in {"settling", "probing", "handshaking", "resolved"} /\ ~connected[c] /\ EndSession(c)

Complete(c) ==
    /\ pc[c] = "handshaking" /\ ackSent[c] /\ peerAck[c]
    /\ complete' = [complete EXCEPT ![c] = TRUE] /\ Goto(c, "resolving")
    /\ UNCHANGED <<inbox, probe, ackSent, peer, peerAck>>

(* ResolvePeerProxy gives up when it sees no session, or has nothing to    *)
(* resolve with, and its caller looks (again): a session that is there by  *)
(* then ends the worker.  The proxy of a player who is there is published  *)
(* sooner or later.                                                        *)
ResolvePeerProxy(c) ==
    /\ pc[c] = "resolving"
    /\ \/ (c \notin resolvers \/ ~connected[c]) /\ Goto(c, "aborted")
       \/ /\ c \in resolvers /\ connected[c] /\ peer[c] # None
          /\ connected[peer[c]] /\ known[c][peer[c]] = session[peer[c]]
          /\ Goto(c, "resolved")
    /\ UNCHANGED <<inbox, probe, ackSent, peer, peerAck, complete>>

Aborted(c) ==
    /\ pc[c] = "aborted"
    /\ IF connected[c]
       THEN Goto(c, "ended") /\ UNCHANGED <<inbox, probe, ackSent, peer, peerAck, complete>>
       ELSE EndSession(c)

DiagnosticWorker(c) ==
    /\ \/ StartSession(c) \/ Settle(c) \/ SendProbe(c) \/ SendAck(c) \/ Complete(c)
       \/ ResolvePeerProxy(c) \/ Aborted(c) \/ SessionEnded(c)
    /\ UNCHANGED <<sessionVars, receiving, identityVars, heard>>
-----------------------------------------------------------------------------
PSNext ==
    \E c \in Clients :
        \/ OnConnected(c) \/ OnDisconnected(c)
        \/ EnsureIdentityListener(c) \/ Announce(c)
        \/ DiagnosticCallback(c) \/ DiagnosticWorker(c)

PSSpec == PSInit /\ [][PSNext]_PSvars

(* The workers poll for as long as they live and the dispatcher delivers   *)
(* what has arrived.  No session has to begin, and none has to end.        *)
Fairness ==
    \A c \in Clients :
        /\ WF_PSvars(DiagnosticWorker(c)) /\ WF_PSvars(DiagnosticCallback(c))
        /\ WF_PSvars(EnsureIdentityListener(c)) /\ WF_PSvars(Announce(c))

PSFairSpec == PSSpec /\ Fairness
-----------------------------------------------------------------------------
(* A handshake that one of two clients calls complete is bidirectional:    *)
(* the other has observed a message of its own.                            *)
CompleteIsMutual == \A c \in Clients : complete[c] => heard[c] # {}

(* Two clients whose first sessions last both complete the handshake and   *)
(* resolve each other's proxy, if they have the interface for it, whoever  *)
(* comes first: what a reset or an early probe loses is made good by the   *)
(* peer's later messages.                                                  *)
FirstMeetingResolves ==
    <>[](\A c \in Clients : connected[c] /\ session[c] = 1) =>
        <>(\A c \in Clients : pc[c] = IF c \in resolvers THEN "resolved" ELSE "ended")

(* Once the sessions last, everybody knows the present PlayerId of every   *)
(* other, whatever was cleared or lost before.                             *)
EverybodyIsKnown ==
    <>[](\A c \in Clients : connected[c]) =>
        <>[](\A c \in Clients : \A p \in Clients \ {c} : known[c][p] = session[p])

(* The worker of a client that can resolve is there for its next session.  *)
NextSessionIsSeen == \A c \in resolvers : pc[c] # "ended"
=============================================================================
