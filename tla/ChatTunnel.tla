----------------------------- MODULE ChatTunnel -----------------------------
(***************************************************************************)
(* The way of a message from one client's Send to the others' callbacks:   *)
(* cut into chat lines, sent one by one by the native client, routed by    *)
(* the server resource main.lua, captured by the receive hook and put      *)
(* together again.                                                         *)
(*                                                                         *)
(* Skyrim Together's connection is external: reliable and in order per     *)
(* client, unless the native Send fails.  The receive hook and the capture *)
(* slots have modules of their own (OnConsumeHook, CaptureQueue); here     *)
(* they are what those runs show them to be: a bounded collection that may *)
(* miss a packet and hands packets over in an order of its own.            *)
(***************************************************************************)
EXTENDS Fragmentation, Reassembly

CONSTANTS
    Clients,       \* connection ids
    AllPlayers,    \* TargetKind::kAllPlayers
    Server,        \* TargetKind::kServer
    Channels,      \* channel names that IsChannelSafe accepts
    RelayChannels, \* those of them that validChannel of main.lua accepts
    Requests,      \* bound: what mods ask to be sent
    Prefix,        \* length of an envelope up to "|part="
    CaptureSlots,  \* kCaptureQueueCapacity
    Leavers,       \* bound: the clients that may leave the server and come back
    MaxSends,      \* bound: calls of Send per client
    MaxStops       \* bound: stops of the receive path per client

ASSUME RequestsAssumption ==
    Requests \subseteq [channel : Channels, to : Clients \union {AllPlayers, Server},
                  loopback : BOOLEAN, size : Nat]
ASSUME TargetsAssumption == AllPlayers \notin Clients /\ Server \notin Clients /\ AllPlayers # Server
ASSUME TunnelBoundsAssumption ==
    CaptureSlots \in Nat /\ MaxStops \in Nat /\ Prefix \in Nat /\ MaxSends \in [Clients -> Nat]

VARIABLES
    sequence,   \* g_sequence of each client
    sending,    \* calls of Send in progress: their message and next part
    uplink,     \* chat lines on their way to the server
    present,    \* the players PlayerManager knows
    downlink,   \* relayed lines on their way to a client
    captured,   \* fragments in a client's capture slots
    pending,    \* g_pending of each client
    delivered,  \* history: messages given to g_callback
    sent,       \* history: messages cut into envelopes
    accepted,   \* history: messages whose Send returned kOk
    handled,    \* history: fragments AddFragment has seen
    excused,    \* history: keys whose message a client may have to go without
    stops       \* history: stops of each client's receive path

sendVars    == <<sequence, sending, sent, accepted>>
receiveVars == <<captured, pending, delivered, handled, stops>>
vars == <<sendVars, uplink, present, downlink, receiveVars, excused>>

Message == [from : Clients, seq : Nat, channel : Channels, to : Clients \union {AllPlayers, Server},
            loopback : BOOLEAN, size : Nat]

(* An id is made of the process, the time and the number of the call; the  *)
(* number is enough to tell a client's messages apart.                     *)
Key(m) == <<m.from, m.seq>>

PieceText == [of : Clients \X Nat, offset : Nat, count : Nat]
ASSUME NoPieceAssumption == NoPiece \notin PieceText

(* The text of a part, and all of a message's parts.                       *)
Text(m, piece) == [of |-> Key(m), offset |-> piece.offset, count |-> piece.count]
Pieces(m) == LET cut == BuildEnvelopes(Prefix, m.size)
             IN  [i \in DOMAIN cut |-> Text(m, cut[i])]

(* An envelope with the sender the server has appended.                    *)
Fragment(m, i) ==
    [sender |-> m.from, id |-> m.seq, seq |-> m.seq, channel |-> m.channel, flags |-> m.loopback,
     parts |-> Len(Pieces(m)), part |-> i, piece |-> Pieces(m)[i], to |-> m.to]

Fragments(m) == {Fragment(m, i) : i \in DOMAIN Pieces(m)}

Init ==
    /\ sequence = [c \in Clients |-> 1]
    /\ sending = [c \in Clients |-> {}]
    /\ uplink = [c \in Clients |-> <<>>]
    /\ present = Clients
    /\ downlink = [c \in Clients |-> <<>>]
    /\ captured = [c \in Clients |-> {}]
    /\ pending = [c \in Clients |-> EmptyTable]
    /\ delivered = [c \in Clients |-> <<>>]
    /\ sent = {} /\ accepted = {}
    /\ handled = [c \in Clients |-> {}]
    /\ excused = [c \in Clients |-> {}]
    /\ stops = [c \in Clients |-> 0]
-----------------------------------------------------------------------------
(* Sending.                                                                *)

(* Send draws its number and cuts the payload; a payload that cannot be    *)
(* cut costs a number and is refused.  One above kMaxPayloadBytes is       *)
(* refused before, and changes nothing.                                    *)
StartSend(c) ==
    /\ sequence[c] <= MaxSends[c]
    /\ sequence' = [sequence EXCEPT ![c] = @ + 1]
    /\ \E q \in {any \in Requests : any.size <= MaxPayloadChars} :
         LET m == [from |-> c, seq |-> sequence[c], channel |-> q.channel, to |-> q.to,
                   loopback |-> q.loopback, size |-> q.size]
         IN  IF Pieces(m) = <<>>
               THEN UNCHANGED <<sending, sent>>
               ELSE /\ sending' = [sending EXCEPT ![c] = @ \union {[msg |-> m, next |-> 1]}]
                    /\ sent' = sent \union {m}
    /\ UNCHANGED <<uplink, present, downlink, receiveVars, excused, accepted>>

(* A slip the checks must notice: the loop ends one envelope early.       *)
SendFragmentShort(c) ==
    /\ \E s \in sending[c] :
         LET rest == sending[c] \ {s} IN
         /\ uplink' = [uplink EXCEPT ![c] = Append(@, Fragment(s.msg, s.next))]
         /\ IF s.next + 1 < Len(Pieces(s.msg))
              THEN /\ sending' = [sending EXCEPT ![c] = rest \union {[s EXCEPT !.next = @ + 1]}]
                   /\ UNCHANGED accepted
              ELSE /\ sending' = [sending EXCEPT ![c] = rest]
                   /\ accepted' = accepted \union {s.msg}
    /\ UNCHANGED <<sequence, sent, present, downlink, receiveVars, excused>>

(* One call of the native Send, under g_sendLock; other threads' envelopes *)
(* come in between.                                                        *)
SendFragment(c) ==
    /\ \E s \in sending[c] :
         LET rest == sending[c] \ {s} IN
         /\ uplink' = [uplink EXCEPT ![c] = Append(@, Fragment(s.msg, s.next))]
         /\ IF s.next < Len(Pieces(s.msg))
              THEN /\ sending' = [sending EXCEPT ![c] = rest \union {[s EXCEPT !.next = @ + 1]}]
                   /\ UNCHANGED accepted
              ELSE /\ sending' = [sending EXCEPT ![c] = rest]
                   /\ accepted' = accepted \union {s.msg}
    /\ UNCHANGED <<sequence, sent, present, downlink, receiveVars, excused>>

(* The native Send fails: kTransportError, the other parts are not sent.   *)
SendFails(c) ==
    /\ \E s \in sending[c] : sending' = [sending EXCEPT ![c] = @ \ {s}]
    /\ UNCHANGED <<sequence, sent, accepted, uplink, present, downlink, receiveVars, excused>>
-----------------------------------------------------------------------------
(* main.lua.                                                               *)

(* The clients a fragment is meant for.                                    *)
Addressees(f) ==
    {r \in Clients : /\ f.to = AllPlayers \/ f.to = r
                     /\ f.flags \/ r # f.sender}

(* onChatMessage of the oldest line of a client: dropped when the server   *)
(* has no player for its character or does not accept the channel's name,  *)
(* else passed on to the addressees that are there.                        *)
Relay(c) ==
    /\ uplink[c] # <<>>
    /\ LET f  == Head(uplink[c])
           to == IF c \in present /\ f.channel \in RelayChannels
                   THEN Addressees(f) \intersect present ELSE {}
       IN  /\ downlink' = [r \in Clients |->
                 IF r \in to THEN Append(downlink[r], f) ELSE downlink[r]]
           /\ excused' = [r \in Clients |->
                 IF r \in to THEN excused[r] ELSE excused[r] \union {<<f.sender, f.id>>}]
    /\ uplink' = [uplink EXCEPT ![c] = Tail(@)]
    /\ UNCHANGED <<sendVars, present, receiveVars>>

(* External: a player disconnects, or has a character again.               *)
Leave(c) ==
    /\ c \in present \intersect Leavers /\ present' = present \ {c}
    /\ UNCHANGED <<sendVars, uplink, downlink, receiveVars, excused>>
Enter(c) ==
    /\ c \notin present /\ present' = present \union {c}
    /\ UNCHANGED <<sendVars, uplink, downlink, receiveVars, excused>>
-----------------------------------------------------------------------------
(* Receiving.                                                              *)

(* A slip: one slot too many.                                              *)
CapturePastEnd(r) ==
    /\ downlink[r] # <<>>
    /\ \/ /\ Cardinality(captured[r]) <= CaptureSlots
          /\ captured' = [captured EXCEPT ![r] = @ \union {Head(downlink[r])}]
          /\ UNCHANGED excused
       \/ /\ excused' = [excused EXCEPT ![r] = @ \union
                {<<Head(downlink[r]).sender, Head(downlink[r]).id>>}]
          /\ UNCHANGED captured
    /\ downlink' = [downlink EXCEPT ![r] = Tail(@)]
    /\ UNCHANGED <<sendVars, uplink, present, pending, delivered, handled, stops>>

(* A relayed line reaches OnConsume: it is put into a free capture slot,   *)
(* or STR gets it, because no slot is free or the breakpoint is away.      *)
Capture(r) ==
    /\ downlink[r] # <<>>
    /\ \/ /\ Cardinality(captured[r]) < CaptureSlots
          /\ captured' = [captured EXCEPT ![r] = @ \union {Head(downlink[r])}]
          /\ UNCHANGED excused
       \/ /\ excused' = [excused EXCEPT ![r] = @ \union
                {<<Head(downlink[r]).sender, Head(downlink[r]).id>>}]
          /\ UNCHANGED captured
    /\ downlink' = [downlink EXCEPT ![r] = Tail(@)]
    /\ UNCHANGED <<sendVars, uplink, present, pending, delivered, handled, stops>>

(* DeliverEnvelope for a captured packet.                                  *)
Deliver(r) ==
    /\ \E f \in captured[r], t \in Cleanups(pending[r]) :
         /\ captured' = [captured EXCEPT ![r] = @ \ {f}]
         /\ pending' = [pending EXCEPT ![r] = AddFragment(t, f)]
         /\ handled' = [handled EXCEPT ![r] = @ \union {f}]
         /\ delivered' = IF Completes(t, f)
              THEN [delivered EXCEPT ![r] = Append(@,
                     [sender |-> f.sender, seq |-> f.seq, payload |-> Filled(t, f).payload])]
              ELSE delivered
         /\ excused' = IF Cardinality(DOMAIN pending[r]) > MaxPending
              THEN [excused EXCEPT ![r] = @ \union DOMAIN pending[r]]
              ELSE excused
    /\ UNCHANGED <<sendVars, uplink, present, downlink, stops>>

(* Time passes at a client.                                                *)
Tick(r) ==
    /\ \E k \in DOMAIN pending[r] : pending[r][k].age <= Lifetime
    /\ pending' = [pending EXCEPT ![r] = Older(@)]
    /\ excused' = [excused EXCEPT ![r] = @ \union
          {k \in DOMAIN pending[r] : pending[r][k].age >= Lifetime}]
    /\ UNCHANGED <<sendVars, uplink, present, downlink, captured, delivered, handled, stops>>

(* STRPMBridgeReceive::Stop, once its dispatcher has drained the slots:    *)
(* the table is cleared.  Until the next Start every line is missed.       *)
Stop(r) ==
    /\ stops[r] < MaxStops /\ captured[r] = {}
    /\ stops' = [stops EXCEPT ![r] = @ + 1]
    /\ pending' = [pending EXCEPT ![r] = EmptyTable]
    /\ excused' = [excused EXCEPT ![r] = @ \union DOMAIN pending[r]]
    /\ UNCHANGED <<sendVars, uplink, present, downlink, captured, delivered, handled>>
-----------------------------------------------------------------------------
Next == \E c \in Clients :
    \/ StartSend(c) \/ SendFragment(c) \/ SendFails(c)
    \/ Relay(c) \/ Leave(c) \/ Enter(c)
    \/ Capture(c) \/ Deliver(c) \/ Tick(c) \/ Stop(c)

(* A call of Send goes on, the server relays, STR processes what arrives   *)
(* and the capture dispatcher runs: all are threads that are not waiting.  *)
Fairness == \A c \in Clients :
    /\ WF_vars(SendFragment(c)) /\ WF_vars(Relay(c))
    /\ WF_vars(Capture(c)) /\ WF_vars(Deliver(c))

Spec == Init /\ [][Next]_vars /\ Fairness
-----------------------------------------------------------------------------
FragmentType == [sender : Clients, id : Nat, seq : Nat, channel : Channels, flags : BOOLEAN,
                 parts : Nat, part : Nat, piece : PieceText, to : Clients \union {AllPlayers, Server}]
Entry == [meta : [sender : Clients, channel : Channels, flags : BOOLEAN, seq : Nat, parts : Nat],
          payload : Seq(PieceText \union {NoPiece}), age : 0 .. Lifetime + 1]
IsTable(t) ==
    /\ DOMAIN t \subseteq Clients \X Nat
    /\ \A k \in DOMAIN t : t[k] \in Entry

(* Every variable has its type, the capture slots and the table of every   *)
(* client keep their bounds; CleanupPendingLocked runs before a fragment   *)
(* is added, so the table holds one entry more than kMaxPendingMessages.   *)
TypeOK ==
    /\ sequence \in [Clients -> Nat]
    /\ sending \in [Clients -> SUBSET [msg : Message, next : Nat]]
    /\ uplink \in [Clients -> Seq(FragmentType)]
    /\ present \subseteq Clients
    /\ downlink \in [Clients -> Seq(FragmentType)]
    /\ captured \in [Clients -> SUBSET FragmentType]
    /\ DOMAIN pending = Clients
    /\ delivered \in [Clients -> Seq([sender : Clients, seq : Nat,
                                      payload : Seq(PieceText \union {NoPiece})])]
    /\ sent \subseteq Message /\ accepted \subseteq sent
    /\ handled \in [Clients -> SUBSET FragmentType]
    /\ excused \in [Clients -> SUBSET (Clients \X Nat)]
    /\ stops \in [Clients -> 0 .. MaxStops]
    /\ \A r \in Clients :
         /\ Cardinality(captured[r]) <= CaptureSlots
         /\ IsTable(pending[r])
         /\ Cardinality(DOMAIN pending[r]) <= MaxPending + 1

DeliveredKeys(r) == {<<d.sender, d.seq>> : d \in Range(delivered[r])}

(* A callback gets what was sent: each message given to g_callback was     *)
(* addressed to that client (target and loopback flag), and its payload is *)
(* every piece of the text, end to end, from that message alone, however   *)
(* fragments of several senders and calls came in between.                 *)
DeliveredWhole ==
    \A r \in Clients : \A d \in Range(delivered[r]) :
        \E m \in sent :
            /\ Key(m) = <<d.sender, d.seq>>
            /\ m.to \in {AllPlayers, r} /\ (m.loopback \/ m.from # r)
            /\ Partition(d.payload, m.size)
            /\ \A p \in Range(d.payload) : p.of = Key(m)

(* A callback gets a message once, and a message that was delivered leaves *)
(* no entry behind that would occupy the table until it expires.           *)
DeliveredOnce ==
    \A r \in Clients :
        /\ Cardinality(DeliveredKeys(r)) = Len(delivered[r])
        /\ DeliveredKeys(r) \intersect DOMAIN pending[r] = {}

(* A fragment that AddFragment has seen is not forgotten: once it has seen *)
(* all of a message, the message has been delivered, unless the message    *)
(* waited longer than kPendingLifetime, was in a table of more than        *)
(* kMaxPendingMessages, or the receive path was stopped.                   *)
NothingLostSilently ==
    \A r \in Clients : \A m \in sent :
        Fragments(m) \subseteq handled[r] =>
            Key(m) \in DeliveredKeys(r) \union excused[r]

(* A message whose Send returned kOk reaches every client it is addressed  *)
(* to, unless a line of it was missed there (by the server, the capture    *)
(* slots or the hook) or its entry was dropped.                            *)
Arrives ==
    \A c \in Clients : \A n \in 1 .. MaxSends[c] :
        (\E m \in accepted : Key(m) = <<c, n>>)
            ~> \A m \in accepted : \A r \in Clients :
                   Key(m) = <<c, n>> /\ m.to \in {AllPlayers, r} /\ (m.loopback \/ m.from # r)
                       => <<c, n>> \in DeliveredKeys(r) \union excused[r]
=============================================================================
