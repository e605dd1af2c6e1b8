----------------------------- MODULE UdpNetwork -----------------------------
(***************************************************************************)
(* The UDP backend of STRPluginMessagingAPIRuntime.cpp, which the build    *)
(* leaves out by default: nodes learn of each other by hellos and by the   *)
(* messages they get, send to the endpoints they know, and a relay passes  *)
(* a message on once.  A message that came by a relay is taken for one of  *)
(* the relay's endpoint.                                                   *)
(*                                                                         *)
(* Datagrams are lost and reordered.  A node that starts again has a new   *)
(* instance and connection ID, a function of each other, at the endpoint   *)
(* it had.                                                                 *)
(***************************************************************************)
EXTENDS Integers, Sequences, SequencesExt, FiniteSets

CONSTANTS
    Nodes,          \* an endpoint each
    Setups          \* configurations of the nodes, each with a bound

(* RelayMode, AutoDiscovery and remotePeers of the nodes; bound: how many  *)
(* messages are sent and nodes started again.                              *)
ASSUME SetupAssumption ==
    Setups \subseteq [relays : SUBSET Nodes, discovery : SUBSET Nodes,
                      remotePeers : [Nodes -> SUBSET Nodes], events : Nat]

Ids  == Nodes \X Nat    \* the i-th identity of a node
All  == <<"all players">>
Host == <<"host">>

VARIABLES
    setup,      \* the configurations, one of Setups
    restarts,   \* of each node
    peers,      \* _peers: sequences of [instance, id, at]
    messages,   \* what was sent: [from, target]
    wire,       \* datagrams: [message, via, to, relayed]
    delivered,  \* history: the nodes whose listeners got each message
    due         \* history: the nodes it had a way to, unless something failed

vars == <<setup, restarts, peers, messages, wire, delivered, due>>

Init ==
    /\ setup \in Setups
    /\ restarts = [n \in Nodes |-> 0]
    /\ peers = [n \in Nodes |-> <<>>]
    /\ messages = <<>> /\ wire = {} /\ delivered = <<>> /\ due = <<>>

Id(n) == <<n, restarts[n]>>
Events == Len(messages) + FoldFunction(+, 0, restarts)
NothingDue == [k \in DOMAIN due |-> {}]
-----------------------------------------------------------------------------
(* Slip: a peer is looked up by its instance only.                         *)
MatchesInstance(e, at, id) == e.instance = id
Matches(e, at, id) == e.instance = id \/ e.at = at

RegisterPeer(n, at, id) ==
    IF \E i \in DOMAIN peers[n] : Matches(peers[n][i], at, id)
    THEN LET first == SelectInSeq(peers[n], LAMBDA e : Matches(e, at, id))
         IN [peers[n] EXCEPT ![first].id = id, ![first].at = at]
    ELSE Append(peers[n], [instance |-> id, id |-> id, at |-> at])

Destinations(n, table, target) ==
    (IF target \in Ids THEN {} ELSE setup.remotePeers[n])
        \union {table[i].at : i \in {j \in DOMAIN table : target \in {All, table[j].id}}}

TargetMatches(n, target) ==
    target \in {All, Id(n)} \/ (target = Host /\ n \in setup.relays)

Datagrams(k, n, to, relayed) ==
    [message : {k}, via : {n}, to : to, relayed : {relayed}]

(* HandleHello at n of a hello of m, perhaps from before m started again;  *)
(* a node does not register itself.                                        *)
HandleHello(n, m) ==
    /\ n # m /\ (m \in setup.discovery \/ n \in setup.remotePeers[m])
    /\ \E i \in 0 .. restarts[m] :
           peers' = [peers EXCEPT ![n] = RegisterPeer(n, m, <<m, i>>)]
    /\ UNCHANGED <<setup, restarts, messages, wire, delivered, due>>

(* The nodes a datagram to these endpoints can get to, relays included.    *)
WayTo(to) ==
    to \union UNION {Destinations(q, peers[q], All) : q \in to \intersect setup.relays}

(* Send; without any destination a message to all is broadcast, and comes  *)
(* back to the sender, too.                                                *)
Send(n, target) ==
    /\ Events < setup.events
    /\ LET known == Destinations(n, peers[n], target)
           to    == IF known = {} /\ target = All /\ n \in setup.discovery THEN Nodes ELSE known
           k     == Len(messages) + 1
       IN /\ wire' = wire \union Datagrams(k, n, to, FALSE)
          /\ due' = Append(due, {m \in WayTo(to) \ {n} : TargetMatches(m, target)})
    /\ messages' = Append(messages, [from |-> Id(n), target |-> target])
    /\ delivered' = Append(delivered, {})
    /\ UNCHANGED <<setup, restarts, peers>>

(* Slips: a relayed message is relayed again; only what is not for this    *)
(* node is.                                                                *)
RelayAgain(n, p, table) ==
    IF n \in setup.relays
    THEN Datagrams(p.message, n, Destinations(n, table, All) \ {p.via}, TRUE)
    ELSE {}
RelayForAll(n, p, table) ==
    IF n \in setup.relays /\ ~p.relayed /\ TargetMatches(n, messages[p.message].target)
    THEN Datagrams(p.message, n, Destinations(n, table, All) \ {p.via}, TRUE)
    ELSE {}

RelayPacket(n, p, table) ==
    IF n \in setup.relays /\ ~p.relayed
    THEN Datagrams(p.message, n, Destinations(n, table, All) \ {p.via}, TRUE)
    ELSE {}

(* Slip: a node's own messages are not told from the others'.              *)
FromAnybody(n, id) == TRUE
FromAnother(n, id) == id # Id(n)

HandleData(n) ==
    \E p \in wire :
        LET m     == messages[p.message]
            table == RegisterPeer(n, p.via, m.from)
        IN /\ p.to = n
           /\ IF FromAnother(n, m.from)
              THEN /\ peers' = [peers EXCEPT ![n] = table]
                   /\ wire' = (wire \ {p}) \union RelayPacket(n, p, table)
                   /\ delivered' = [delivered EXCEPT ![p.message] =
                        IF TargetMatches(n, m.target) THEN @ \union {n} ELSE @]
              ELSE wire' = wire \ {p} /\ UNCHANGED <<peers, delivered>>
           /\ UNCHANGED <<setup, restarts, messages, due>>
-----------------------------------------------------------------------------
(* What fails: a datagram is lost; a peer was not heard of for long; a     *)
(* node starts again, and what was sent to it meanwhile is lost.           *)
Lose ==
    /\ \E p \in wire : wire' = wire \ {p} /\ due' = [due EXCEPT ![p.message] = {}]
    /\ UNCHANGED <<setup, restarts, peers, messages, delivered>>

ExpirePeers(n) ==
    /\ \E i \in DOMAIN peers[n] : peers' = [peers EXCEPT ![n] = RemoveAt(@, i)]
    /\ due' = NothingDue
    /\ UNCHANGED <<setup, restarts, messages, wire, delivered>>

Restart(n) ==
    /\ Events < setup.events
    /\ restarts' = [restarts EXCEPT ![n] = @ + 1]
    /\ peers' = [peers EXCEPT ![n] = <<>>]
    /\ wire' = {p \in wire : p.to # n}
    /\ due' = NothingDue
    /\ UNCHANGED <<setup, messages, delivered>>
-----------------------------------------------------------------------------
Targets == {All, Host} \union {Id(n) : n \in Nodes}

Next ==
    \/ \E n \in Nodes : HandleData(n) \/ ExpirePeers(n) \/ Restart(n)
    \/ \E n \in Nodes : \E m \in Nodes : HandleHello(n, m)
    \/ \E n \in Nodes : \E target \in Targets \ {Id(n)} : Send(n, target)
    \/ Lose

(* ReceiverLoop takes what arrives.                                        *)
Spec == Init /\ [][Next]_vars /\ \A n \in Nodes : WF_vars(HandleData(n))
-----------------------------------------------------------------------------
(* No message goes round for ever, however many relays know each other:    *)
(* when no more is sent, the traffic comes to an end.                      *)
TrafficSettles == []<>(wire = {})

(* A message never comes back to the listeners of the node that sent it,   *)
(* though the broadcast of a node without peers reaches the node itself.   *)
NoEcho ==
    \A k \in DOMAIN messages :
        LET n == messages[k].from[1] IN messages[k].from = Id(n) => n \notin delivered[k]

(* Without a relay a table has one entry for an endpoint, with the         *)
(* identity of the node there, also when nodes start again.                *)
TableIsRight ==
    setup.relays = {} => \A n \in Nodes : \A i, j \in DOMAIN peers[n] :
        /\ peers[n][i].at = peers[n][j].at => i = j
        /\ peers[n][i].id[1] = peers[n][i].at

(* With one relay at most, a message gets to every node it is for and has  *)
(* a way to, also by a relay that it is not for, unless something fails.   *)
ReachesItsTarget ==
    []<>(Cardinality(setup.relays) <= 1 => \A k \in DOMAIN due : due[k] \subseteq delivered[k])
=============================================================================
