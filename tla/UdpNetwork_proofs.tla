-------------------------- MODULE UdpNetwork_proofs --------------------------
(***************************************************************************)
(* NoEcho for any number of nodes, messages and restarts, and any          *)
(* configuration.  A node knows its own messages by the identity in them;  *)
(* what it may yet be given back is a message of an identity it has lost,  *)
(* and Sent says that those are told apart.  At the end, PeerSessions, the *)
(* client that finds out who else is on such a network.                    *)
(***************************************************************************)
EXTENDS UdpNetwork, PeerSessions, WellFoundedInduction, TLAPS

(* What the proof needs of the types: a datagram carries a message that    *)
(* was sent, by an identity that a node has or had.                        *)
Sent ==
    /\ restarts \in [Nodes -> Nat]
    /\ messages \in Seq([from : Ids, target : Ids \union {All, Host}])
    /\ delivered \in Seq(SUBSET Nodes) /\ Len(delivered) = Len(messages)
    /\ \A p \in wire : p.message \in DOMAIN messages
    /\ \A k \in DOMAIN messages : messages[k].from[2] <= restarts[messages[k].from[1]]

(* A node that was given a message of its own has started again since.     *)
OwnIsOld ==
    \A k \in DOMAIN messages : \A n \in delivered[k] :
        messages[k].from[1] = n => messages[k].from[2] < restarts[n]

IInv == Sent /\ OwnIsOld

LEMMA InitOk == Init => IInv
  BY DEF Init, IInv, Sent, OwnIsOld

LEMMA ElementOf ==
    ASSUME NEW S, NEW s \in Seq(S), NEW k \in DOMAIN s
    PROVE  s[k] \in S
  OBVIOUS

LEMMA SenderTyped ==
    ASSUME Sent, NEW k \in DOMAIN messages
    PROVE  /\ messages[k].from[1] \in Nodes /\ messages[k].from[2] \in Nat
           /\ messages[k].from = <<messages[k].from[1], messages[k].from[2]>>
<1>1. messages[k] \in [from : Ids, target : Ids \union {All, Host}]
  BY ElementOf DEF Sent
<1>2. messages[k].from \in Ids BY <1>1
<1> DEFINE f == messages[k].from
<1>3. f \in Ids BY <1>2
<1> HIDE DEF f
<1>4. f[1] \in Nodes /\ f[2] \in Nat /\ f = <<f[1], f[2]>> BY <1>3 DEF Ids
<1> QED BY <1>4 DEF f

(* A message of another is of another node or of an earlier identity.      *)
LEMMA AnothersIsOld ==
    ASSUME Sent, NEW n \in Nodes, NEW k \in DOMAIN messages,
           FromAnother(n, messages[k].from), messages[k].from[1] = n
    PROVE  messages[k].from[2] < restarts[n]
<1> DEFINE f == messages[k].from
<1>1. f[2] \in Nat BY SenderTyped
<1>2. f = <<f[1], f[2]>> BY SenderTyped
<1>3. f # <<n, restarts[n]>> BY DEF FromAnother, Id
<1>4. f[2] # restarts[n] BY <1>2, <1>3
<1>5. f[2] <= restarts[n] BY DEF Sent
<1>6. restarts[n] \in Nat BY DEF Sent
<1> QED BY <1>1, <1>4, <1>5, <1>6

(* The datagrams of a send or a relay carry the message they are made for. *)
LEMMA DatagramsCarry ==
    ASSUME NEW k, NEW n, NEW to, NEW relayed, NEW p \in Datagrams(k, n, to, relayed)
    PROVE  p.message = k
  BY DEF Datagrams

LEMMA RelayCarries ==
    ASSUME NEW n, NEW p, NEW table, NEW q \in RelayPacket(n, p, table)
    PROVE  q.message = p.message
  BY DatagramsCarry DEF RelayPacket

LEMMA SendOk ==
    ASSUME IInv, NEW n \in Nodes, NEW target \in Ids \union {All, Host}, Send(n, target)
    PROVE  IInv'
<1> DEFINE K == Len(messages) + 1
           M == [from |-> Id(n), target |-> target]
<1>1. /\ messages' = Append(messages, M) /\ delivered' = Append(delivered, {})
      /\ restarts' = restarts
  BY DEF Send
<1>2. Id(n) \in Ids /\ Id(n)[1] = n /\ Id(n)[2] = restarts[n] BY DEF IInv, Sent, Id, Ids
<1>3. messages \in Seq([from : Ids, target : Ids \union {All, Host}])
      /\ delivered \in Seq(SUBSET Nodes) /\ Len(delivered) = Len(messages)
  BY DEF IInv, Sent
<1>4. M \in [from : Ids, target : Ids \union {All, Host}] BY <1>2
<1> HIDE DEF M
<1>5. messages' \in Seq([from : Ids, target : Ids \union {All, Host}]) BY <1>1, <1>3, <1>4
<1>6. delivered' \in Seq(SUBSET Nodes) /\ Len(delivered') = Len(messages') BY <1>1, <1>3
<1>7. /\ DOMAIN messages' = DOMAIN messages \union {K}
      /\ K \notin DOMAIN messages
      /\ \A k \in DOMAIN messages : messages'[k] = messages[k] /\ delivered'[k] = delivered[k]
      /\ messages'[K] = M /\ delivered'[K] = {}
  BY <1>1, <1>3, <1>4
<1> HIDE DEF K
<1>8. \A p \in wire' : p.message \in DOMAIN messages'
  <2>1. \A p \in wire' : p \in wire \/ p.message = K
    BY DatagramsCarry DEF Send, K
  <2> QED BY <2>1, <1>7 DEF IInv, Sent
<1>9. \A k \in DOMAIN messages' : messages'[k].from[2] <= restarts'[messages'[k].from[1]]
  <2>1. M.from[2] <= restarts[M.from[1]] BY <1>2 DEF M, IInv, Sent
  <2> QED BY <2>1, <1>1, <1>7 DEF IInv, Sent
<1>10. Sent' BY <1>1, <1>5, <1>6, <1>8, <1>9 DEF IInv, Sent
<1>11. OwnIsOld' BY <1>1, <1>7 DEF IInv, OwnIsOld
<1> QED BY <1>10, <1>11 DEF IInv

LEMMA HandleDataOk ==
    ASSUME IInv, NEW n \in Nodes, HandleData(n)
    PROVE  IInv'
<1>1. PICK p \in wire :
        LET m     == messages[p.message]
            table == RegisterPeer(n, p.via, m.from)
        IN /\ p.to = n
           /\ IF FromAnother(n, m.from)
              THEN /\ peers' = [peers EXCEPT ![n] = table]
                   /\ wire' = (wire \ {p}) \union RelayPacket(n, p, table)
                   /\ delivered' = [delivered EXCEPT ![p.message] =
                        IF TargetMatches(n, m.target) THEN @ \union {n} ELSE @]
              ELSE wire' = wire \ {p} /\ UNCHANGED <<peers, delivered>>
           /\ UNCHANGED <<setup, restarts, messages, due>>
  BY DEF HandleData
<1>2. p.message \in DOMAIN messages BY DEF IInv, Sent
<1>3. UNCHANGED <<restarts, messages>> BY <1>1
<1>4. \A q \in wire' : q.message \in DOMAIN messages
  BY <1>1, <1>2, RelayCarries DEF IInv, Sent
<1>5. delivered \in Seq(SUBSET Nodes) /\ Len(delivered) = Len(messages) /\ DOMAIN delivered = DOMAIN messages
  BY DEF IInv, Sent
<1>6. delivered' \in Seq(SUBSET Nodes) /\ Len(delivered') = Len(messages)
  <2>1. CASE FromAnother(n, messages[p.message].from)
    <3> DEFINE D == IF TargetMatches(n, messages[p.message].target)
                    THEN delivered[p.message] \union {n} ELSE delivered[p.message]
    <3>1. delivered' = [delivered EXCEPT ![p.message] = D] BY <1>1, <2>1
    <3>2. D \in SUBSET Nodes BY <1>2, <1>5
    <3> HIDE DEF D
    <3> QED BY <3>1, <3>2, <1>2, <1>5
  <2>2. CASE ~FromAnother(n, messages[p.message].from) BY <1>1, <1>5, <2>2
  <2> QED BY <2>1, <2>2
<1>7. Sent' BY <1>3, <1>4, <1>6 DEF IInv, Sent
<1>8. ASSUME NEW k \in DOMAIN messages, NEW i \in delivered'[k], messages[k].from[1] = i
      PROVE  messages[k].from[2] < restarts[i]
  <2>1. CASE i \in delivered[k] BY <1>8, <2>1 DEF IInv, OwnIsOld
  <2>2. CASE i \notin delivered[k]
    <3>1. FromAnother(n, messages[p.message].from) BY <1>1, <1>8, <2>2
    <3>2. delivered' = [delivered EXCEPT ![p.message] =
             IF TargetMatches(n, messages[p.message].target) THEN @ \union {n} ELSE @]
      BY <1>1, <3>1
    <3>3. k = p.message /\ i = n BY <3>2, <2>2, <1>8, <1>5
    <3> QED BY <3>1, <3>3, <1>8, AnothersIsOld DEF IInv
  <2> QED BY <2>1, <2>2
<1> QED BY <1>3, <1>7, <1>8 DEF IInv, OwnIsOld

LEMMA RestartOk ==
    ASSUME IInv, NEW n \in Nodes, Restart(n)
    PROVE  IInv'
<1>1. /\ restarts' = [restarts EXCEPT ![n] = @ + 1] /\ wire' \subseteq wire
      /\ UNCHANGED <<messages, delivered>>
  BY DEF Restart
<1>2. restarts \in [Nodes -> Nat] BY DEF IInv, Sent
<1>3. restarts' \in [Nodes -> Nat] /\ \A i \in Nodes : restarts[i] <= restarts'[i]
  BY <1>1, <1>2
<1>4. \A k \in DOMAIN messages : messages[k].from[1] \in Nodes /\ messages[k].from[2] \in Nat
  BY SenderTyped DEF IInv
<1>5. \A k \in DOMAIN messages : messages[k].from[2] <= restarts'[messages[k].from[1]]
  BY <1>2, <1>3, <1>4 DEF IInv, Sent
<1>6. Sent' BY <1>1, <1>3, <1>5 DEF IInv, Sent
<1>7. \A k \in DOMAIN messages : \A i \in delivered[k] : i \in Nodes
  BY DEF IInv, Sent
<1>8. OwnIsOld' BY <1>1, <1>2, <1>3, <1>4, <1>7 DEF IInv, OwnIsOld
<1> QED BY <1>6, <1>8 DEF IInv

(* Hellos, losses and expiries touch no message.                           *)
LEMMA OthersOk ==
    ASSUME IInv, wire' \subseteq wire, UNCHANGED <<restarts, messages, delivered>>
    PROVE  IInv'
  BY DEF IInv, Sent, OwnIsOld

LEMMA NextOk == IInv /\ [Next]_vars => IInv'
<1> SUFFICES ASSUME IInv, [Next]_vars PROVE IInv' OBVIOUS
<1>1. ASSUME NEW n \in Nodes, HandleData(n) PROVE IInv' BY <1>1, HandleDataOk
<1>2. ASSUME NEW n \in Nodes, ExpirePeers(n) PROVE IInv' BY <1>2, OthersOk DEF ExpirePeers
<1>3. ASSUME NEW n \in Nodes, Restart(n) PROVE IInv' BY <1>3, RestartOk
<1>4. ASSUME NEW n \in Nodes, NEW m \in Nodes, HandleHello(n, m) PROVE IInv'
  BY <1>4, OthersOk DEF HandleHello
<1>5. ASSUME NEW n \in Nodes, NEW target \in Targets \ {Id(n)}, Send(n, target) PROVE IInv'
  <2>1. Targets \subseteq Ids \union {All, Host} BY DEF Targets, Id, Ids, IInv, Sent
  <2> QED BY <1>5, <2>1, SendOk
<1>6. CASE Lose BY <1>6, OthersOk DEF Lose
<1>7. CASE UNCHANGED vars BY <1>7, OthersOk DEF vars
<1> QED BY <1>1, <1>2, <1>3, <1>4, <1>5, <1>6, <1>7 DEF Next

LEMMA IInvImplies == IInv => NoEcho
<1> SUFFICES ASSUME IInv, NEW k \in DOMAIN messages,
                    messages[k].from = Id(messages[k].from[1]),
                    messages[k].from[1] \in delivered[k]
             PROVE  FALSE
  BY DEF NoEcho
<1> DEFINE n == messages[k].from[1]
<1>1. n \in Nodes /\ restarts[n] \in Nat BY SenderTyped DEF IInv, Sent
<1>2. messages[k].from[2] = restarts[n] BY DEF Id
<1>3. messages[k].from[2] < restarts[n] BY DEF IInv, OwnIsOld
<1> QED BY <1>1, <1>2, <1>3

(* No message is delivered to the node it comes from, as long as that node *)
(* is what it was when it sent it: for any number of nodes and messages,   *)
(* any relays, losses and restarts (HandleData 1260-1262, RelayPacket).    *)
THEOREM NothingEchoes == Spec => []NoEcho
<1>1. Init => IInv BY InitOk
<1>2. IInv /\ [Next]_vars => IInv' BY NextOk
<1>3. IInv => NoEcho BY IInvImplies
<1> QED BY <1>1, <1>2, <1>3, PTL DEF Spec
-----------------------------------------------------------------------------
(* TableIsRight.  Without a relay a message comes from the endpoint of its *)
(* sender, so that what a node learns agrees with what it has.             *)
Entry == [instance : Ids, id : Ids, at : Nodes]

Right(s) ==
    /\ \A i, j \in DOMAIN s : s[i].at = s[j].at => i = j
    /\ \A i \in DOMAIN s : s[i].id[1] = s[i].at /\ s[i].instance[1] = s[i].at

Tables ==
    /\ peers \in [Nodes -> Seq(Entry)]
    /\ \A p \in wire : p.via \in Nodes
    /\ setup.relays = {} =>
         /\ \A n \in Nodes : Right(peers[n])
         /\ \A p \in wire : p.via = messages[p.message].from[1]

(* A set of natural numbers has a least one.                               *)
LEMMA LeastOf ==
    ASSUME NEW I \in SUBSET Nat, I # {}
    PROVE  \E x \in I : \A y \in I : x <= y
<1>1. PICK x \in I : \A y \in I : <<y, x>> \notin OpToRel(<, Nat)
  BY NatLessThanWellFounded, WFMin, Zenon
<1>2. \A y \in I : ~(y < x)
  BY <1>1 DEF OpToRel
<1> QED BY <1>2

(* The first of the entries that match is one of them.                     *)
First(s, at, id) == SelectInSeq(s, LAMBDA e : Matches(e, at, id))

LEMMA FirstMatches ==
    ASSUME NEW s \in Seq(Entry), NEW at, NEW id,
           \E i \in DOMAIN s : Matches(s[i], at, id)
    PROVE  First(s, at, id) \in DOMAIN s /\ Matches(s[First(s, at, id)], at, id)
<1> DEFINE I == {i \in 1 .. Len(s) : Matches(s[i], at, id)}
<1>1. I \in SUBSET Nat /\ I # {} /\ I \subseteq DOMAIN s
  OBVIOUS
<1>2. \E x \in I : \A y \in I : x <= y
  BY <1>1, LeastOf
<1>3. Min(I) \in I
  BY <1>2 DEF Min
<1>4. First(s, at, id) = Min(I)
  BY <1>1 DEF First, SelectInSeq
<1> QED BY <1>1, <1>3, <1>4

LEMMA RegisterAppends ==
    ASSUME NEW s \in Seq(Entry), NEW at \in Nodes, NEW id \in Ids,
           ~\E i \in DOMAIN s : Matches(s[i], at, id)
    PROVE  LET t == Append(s, [instance |-> id, id |-> id, at |-> at])
           IN t \in Seq(Entry) /\ (Right(s) /\ id[1] = at => Right(t))
<1> DEFINE e == [instance |-> id, id |-> id, at |-> at]
           t == Append(s, e)
<1>1. e \in Entry /\ e.at = at /\ e.id = id /\ e.instance = id BY DEF Entry
<1> HIDE DEF e
<1>2. t \in Seq(Entry) BY <1>1
<1>3. /\ DOMAIN t = DOMAIN s \union {Len(s) + 1}
      /\ t[Len(s) + 1] = e /\ \A i \in DOMAIN s : t[i] = s[i]
  BY <1>1
<1> HIDE DEF t
<1>4. \A i \in DOMAIN s : s[i].at # at BY DEF Matches
<1>5. Right(s) /\ id[1] = at => Right(t) BY <1>1, <1>3, <1>4 DEF Right
<1> QED BY <1>2, <1>5 DEF t, e

LEMMA RegisterUpdates ==
    ASSUME NEW s \in Seq(Entry), NEW at \in Nodes, NEW id \in Ids,
           NEW f \in DOMAIN s, Matches(s[f], at, id)
    PROVE  LET t == [s EXCEPT ![f].id = id, ![f].at = at]
           IN t \in Seq(Entry) /\ (Right(s) /\ id[1] = at => Right(t))
<1> DEFINE e == [s[f] EXCEPT !.id = id, !.at = at]
           t == [s EXCEPT ![f] = e]
<1>1. s[f] \in Entry BY ElementOf
<1>2. e \in Entry /\ e.at = at /\ e.id = id /\ e.instance = s[f].instance BY <1>1 DEF Entry
<1>3. [s EXCEPT ![f].id = id, ![f].at = at] = t
  BY <1>1 DEF Entry
<1> HIDE DEF e
<1>4. t \in Seq(Entry) BY <1>2
<1>5. DOMAIN t = DOMAIN s /\ t[f] = e /\ \A i \in DOMAIN s \ {f} : t[i] = s[i] OBVIOUS
<1> HIDE DEF t
<1>6. Right(s) /\ id[1] = at => s[f].at = at BY DEF Right, Matches
<1>7. Right(s) /\ id[1] = at => Right(t) BY <1>2, <1>5, <1>6 DEF Right
<1> QED BY <1>3, <1>4, <1>7

LEMMA RegisterRight ==
    ASSUME NEW n \in Nodes, peers[n] \in Seq(Entry), NEW at \in Nodes, NEW id \in Ids
    PROVE  /\ RegisterPeer(n, at, id) \in Seq(Entry)
           /\ Right(peers[n]) /\ id[1] = at => Right(RegisterPeer(n, at, id))
<1>1. CASE \E i \in DOMAIN peers[n] : Matches(peers[n][i], at, id)
  <2> DEFINE f == First(peers[n], at, id)
             t == [peers[n] EXCEPT ![f].id = id, ![f].at = at]
  <2>1. RegisterPeer(n, at, id) = t BY <1>1 DEF RegisterPeer, First
  <2>2. f \in DOMAIN peers[n] /\ Matches(peers[n][f], at, id) BY <1>1, FirstMatches
  <2> HIDE DEF f
  <2>3. t \in Seq(Entry) /\ (Right(peers[n]) /\ id[1] = at => Right(t))
    BY <2>2, RegisterUpdates
  <2> QED BY <2>1, <2>3
<1>2. CASE ~\E i \in DOMAIN peers[n] : Matches(peers[n][i], at, id)
  BY <1>2, RegisterAppends DEF RegisterPeer
<1> QED BY <1>1, <1>2

(* A table without one of its entries.                                     *)
LEMMA RemoveRight ==
    ASSUME NEW s \in Seq(Entry), NEW k \in DOMAIN s
    PROVE  RemoveAt(s, k) \in Seq(Entry) /\ (Right(s) => Right(RemoveAt(s, k)))
<1> DEFINE t == RemoveAt(s, k)
           old == [i \in DOMAIN t |-> IF i < k THEN i ELSE i + 1]
<1>1. t = SubSeq(s, 1, k - 1) \o SubSeq(s, k + 1, Len(s)) BY DEF RemoveAt
<1>2. Len(s) \in Nat /\ k \in 1 .. Len(s) OBVIOUS
<1>3. /\ t \in Seq(Entry) /\ DOMAIN t = 1 .. Len(s) - 1
      /\ \A i \in 1 .. Len(s) - 1 : t[i] = s[IF i < k THEN i ELSE i + 1]
  <2> DEFINE a == SubSeq(s, 1, k - 1)
             b == SubSeq(s, k + 1, Len(s))
  <2>1. /\ a \in Seq(Entry) /\ Len(a) = k - 1
        /\ \A i \in 1 .. k - 1 : a[i] = s[i]
    BY <1>2
  <2>2. /\ b \in Seq(Entry) /\ Len(b) = Len(s) - k
        /\ \A i \in 1 .. Len(s) - k : b[i] = s[k + i]
    BY <1>2
  <2> HIDE DEF a, b
  <2>3. /\ a \o b \in Seq(Entry) /\ Len(a \o b) = Len(s) - 1
        /\ DOMAIN (a \o b) = 1 .. Len(s) - 1
    BY <1>2, <2>1, <2>2
  <2>4. ASSUME NEW i \in 1 .. Len(s) - 1
        PROVE  (a \o b)[i] = s[IF i < k THEN i ELSE i + 1]
    <3>1. (a \o b)[i] = IF i <= Len(a) THEN a[i] ELSE b[i - Len(a)]
      BY <1>2, <2>1, <2>2, <2>4
    <3>2. CASE i < k
      BY <1>2, <2>1, <3>1, <3>2
    <3>3. CASE ~(i < k)
      <4>1. i - Len(a) \in 1 .. Len(s) - k /\ k + (i - Len(a)) = i + 1 /\ ~(i <= Len(a))
        BY <1>2, <2>1, <3>3
      <4> QED BY <2>2, <3>1, <3>3, <4>1
    <3> QED BY <3>2, <3>3
  <2> QED BY <1>1, <2>3, <2>4 DEF a, b
<1> HIDE DEF t
<1>4. \A i \in DOMAIN t : old[i] \in DOMAIN s /\ t[i] = s[old[i]] BY <1>2, <1>3
<1>5. \A i, j \in DOMAIN t : old[i] = old[j] => i = j BY <1>2, <1>3
<1> HIDE DEF old
<1>6. Right(s) => Right(t) BY <1>4, <1>5 DEF Right
<1> QED BY <1>3, <1>6 DEF t

LEMMA TablesInit == Init => Tables
<1> SUFFICES ASSUME Init PROVE Tables OBVIOUS
<1>1. \A n \in Nodes : peers[n] = <<>> /\ Right(<<>>) BY DEF Init, Right
<1> QED BY <1>1 DEF Init, Tables

(* A step that lets one node's table grow right, or shrink.                *)
LEMMA TableChanges ==
    ASSUME Tables, NEW n \in Nodes, NEW t \in Seq(Entry), peers' = [peers EXCEPT ![n] = t],
           setup.relays = {} => Right(t)
    PROVE  /\ peers' \in [Nodes -> Seq(Entry)]
           /\ setup.relays = {} => \A m \in Nodes : Right(peers'[m])
<1>1. peers \in [Nodes -> Seq(Entry)] BY DEF Tables
<1>2. peers' \in [Nodes -> Seq(Entry)] BY <1>1
<1>3. \A m \in Nodes : peers'[m] = IF m = n THEN t ELSE peers[m] BY <1>1
<1> QED BY <1>2, <1>3 DEF Tables

LEMMA HelloTables ==
    ASSUME Tables, Sent, NEW n \in Nodes, NEW m \in Nodes, HandleHello(n, m)
    PROVE  Tables'
<1>1. PICK i \in 0 .. restarts[m] : peers' = [peers EXCEPT ![n] = RegisterPeer(n, m, <<m, i>>)]
  BY DEF HandleHello
<1>2. UNCHANGED <<setup, messages, wire>> BY DEF HandleHello
<1>3. <<m, i>> \in Ids /\ <<m, i>>[1] = m
  <2>1. restarts[m] \in Nat BY DEF Sent
  <2> QED BY <2>1 DEF Ids
<1> DEFINE t == RegisterPeer(n, m, <<m, i>>)
<1>4. peers[n] \in Seq(Entry) /\ (setup.relays = {} => Right(peers[n])) BY DEF Tables
<1>5. t \in Seq(Entry) /\ (setup.relays = {} => Right(t)) BY <1>3, <1>4, RegisterRight
<1>6. peers' = [peers EXCEPT ![n] = t] BY <1>1
<1> HIDE DEF t
<1>7. /\ peers' \in [Nodes -> Seq(Entry)]
      /\ setup.relays = {} => \A q \in Nodes : Right(peers'[q])
  BY <1>5, <1>6, TableChanges
<1> QED BY <1>2, <1>7 DEF Tables

(* A datagram comes from the node that sends it.                           *)
LEMMA DatagramsVia ==
    ASSUME NEW k, NEW n, NEW to, NEW relayed, NEW p \in Datagrams(k, n, to, relayed)
    PROVE  p.message = k /\ p.via = n
  BY DEF Datagrams

LEMMA SendTables ==
    ASSUME Tables, Sent, NEW n \in Nodes, NEW target, Send(n, target)
    PROVE  Tables'
<1> DEFINE K == Len(messages) + 1
           M == [from |-> Id(n), target |-> target]
<1>1. messages' = Append(messages, M) /\ UNCHANGED <<setup, peers>> BY DEF Send
<1>2. M.from[1] = n BY DEF Id
<1> HIDE DEF M
<1>3. messages' [K] = M /\ \A k \in DOMAIN messages : messages'[k] = messages[k]
  BY <1>1 DEF Sent
<1>4. \A p \in wire' : p \in wire \/ (p.message = K /\ p.via = n)
  <2>1. \E to : wire' = wire \union Datagrams(K, n, to, FALSE)
    BY Zenon DEF Send
  <2>2. PICK to : wire' = wire \union Datagrams(K, n, to, FALSE)
    BY <2>1
  <2> HIDE DEF K
  <2>3. QED BY ONLY <2>2, DatagramsVia
<1> HIDE DEF K
<1>5. \A p \in wire' : p.via \in Nodes BY <1>4 DEF Tables
<1>6. setup.relays = {} => \A p \in wire' : p.via = messages'[p.message].from[1]
  BY <1>2, <1>3, <1>4 DEF Tables, Sent
<1> QED BY <1>1, <1>5, <1>6 DEF Tables

LEMMA HandleDataTables ==
    ASSUME Tables, Sent, NEW n \in Nodes, HandleData(n)
    PROVE  Tables'
<1>1. PICK p \in wire :
        LET m     == messages[p.message]
            table == RegisterPeer(n, p.via, m.from)
        IN /\ IF FromAnother(n, m.from)
              THEN /\ peers' = [peers EXCEPT ![n] = table]
                   /\ wire' = (wire \ {p}) \union RelayPacket(n, p, table)
              ELSE wire' = wire \ {p} /\ UNCHANGED peers
           /\ UNCHANGED <<setup, messages>>
  BY DEF HandleData
<1> DEFINE id == messages[p.message].from
           t  == RegisterPeer(n, p.via, id)
<1>2. p.message \in DOMAIN messages BY DEF Sent
<1>3. id \in Ids
  <2>1. messages[p.message] \in [from : Ids, target : Ids \union {All, Host}]
    BY <1>2, ElementOf DEF Sent
  <2> QED BY <2>1
<1>4. p.via \in Nodes /\ (setup.relays = {} => id[1] = p.via) BY DEF Tables
<1>5. UNCHANGED <<setup, messages>> BY <1>1
<1>6. CASE ~FromAnother(n, id)
  BY <1>1, <1>6 DEF Tables
<1>7. CASE FromAnother(n, id)
  <2>1. peers' = [peers EXCEPT ![n] = t] /\ wire' = (wire \ {p}) \union RelayPacket(n, p, t)
    BY <1>1, <1>7
  <2> HIDE DEF id
  <2>2. peers[n] \in Seq(Entry) /\ (setup.relays = {} => Right(peers[n])) BY DEF Tables
  <2>3. t \in Seq(Entry) /\ (setup.relays = {} => Right(t))
    BY <1>3, <1>4, <2>2, RegisterRight
  <2> HIDE DEF t
  <2>4. /\ peers' \in [Nodes -> Seq(Entry)]
        /\ setup.relays = {} => \A q \in Nodes : Right(peers'[q])
    BY <2>1, <2>3, TableChanges
  <2>5. \A q \in RelayPacket(n, p, t) : setup.relays # {} /\ q.via = n
    <3> SUFFICES ASSUME NEW q \in RelayPacket(n, p, t)
                 PROVE  setup.relays # {} /\ q.via = n
      OBVIOUS
    <3>1. n \in setup.relays /\ q \in Datagrams(p.message, n, Destinations(n, t, All) \ {p.via}, TRUE)
      BY DEF RelayPacket
    <3> QED BY <3>1 DEF Datagrams
  <2>6. \A q \in wire' : q.via \in Nodes BY <2>1, <2>5 DEF Tables
  <2>7. setup.relays = {} => \A q \in wire' : q.via = messages[q.message].from[1]
    BY <2>1, <2>5 DEF Tables
  <2> QED BY <1>5, <2>4, <2>6, <2>7 DEF Tables
<1> QED BY <1>6, <1>7

LEMMA ExpireTables ==
    ASSUME Tables, NEW n \in Nodes, ExpirePeers(n)
    PROVE  Tables'
<1>1. PICK i \in DOMAIN peers[n] : peers' = [peers EXCEPT ![n] = RemoveAt(peers[n], i)]
  BY DEF ExpirePeers
<1> DEFINE t == RemoveAt(peers[n], i)
<1>2. t \in Seq(Entry) /\ (setup.relays = {} => Right(t)) BY RemoveRight DEF Tables
<1>3. peers' = [peers EXCEPT ![n] = t] BY <1>1
<1> HIDE DEF t
<1>4. /\ peers' \in [Nodes -> Seq(Entry)]
      /\ setup.relays = {} => \A q \in Nodes : Right(peers'[q])
  BY <1>2, <1>3, TableChanges
<1> QED BY <1>4 DEF Tables, ExpirePeers

LEMMA RestartTables ==
    ASSUME Tables, NEW n \in Nodes, Restart(n)
    PROVE  Tables'
<1>1. peers' = [peers EXCEPT ![n] = <<>>] /\ wire' \subseteq wire /\ UNCHANGED <<setup, messages>>
  BY DEF Restart
<1> DEFINE t == <<>>
<1>2. t \in Seq(Entry) /\ Right(t) BY DEF Right
<1>3. peers' = [peers EXCEPT ![n] = t] BY <1>1
<1> HIDE DEF t
<1>4. /\ peers' \in [Nodes -> Seq(Entry)]
      /\ setup.relays = {} => \A q \in Nodes : Right(peers'[q])
  BY <1>2, <1>3, TableChanges
<1> QED BY <1>1, <1>4 DEF Tables

LEMMA TablesNext == IInv /\ Tables /\ [Next]_vars => Tables'
<1> SUFFICES ASSUME Sent, Tables, [Next]_vars PROVE Tables'
  BY DEF IInv
<1>1. CASE Lose \/ UNCHANGED vars BY <1>1 DEF Lose, vars, Tables
<1>2. CASE \E n \in Nodes : HandleData(n) \/ ExpirePeers(n) \/ Restart(n)
  BY <1>2, HandleDataTables, ExpireTables, RestartTables
<1>3. CASE \E n \in Nodes : \E m \in Nodes : HandleHello(n, m) BY <1>3, HelloTables
<1>4. CASE \E n \in Nodes : \E target \in Targets \ {Id(n)} : Send(n, target)
  BY <1>4, SendTables
<1> QED BY <1>1, <1>2, <1>3, <1>4 DEF Next

(* Without a relay every table has one entry for an endpoint, and it names *)
(* the node there, however often nodes start again and whatever old        *)
(* hellos and messages are still on the way (RegisterPeer 1180-1219).      *)
THEOREM TablesAreRight == Spec => []TableIsRight
<1>1. Spec => [](IInv /\ Tables) BY InitOk, NextOk, TablesInit, TablesNext, PTL DEF Spec
<1>2. Tables => TableIsRight BY DEF Tables, Right, TableIsRight
<1> QED BY <1>1, <1>2, PTL
-----------------------------------------------------------------------------
(* PeerSessions, for any number of clients and sessions.  A client that    *)
(* calls its handshake complete has an acknowledgement, and whoever sent   *)
(* that had observed somebody else; AckMeans follows the acknowledgement   *)
(* from the sender's worker to the receiver's.                             *)
Payload == [from : Clients, kind : {"probe", "ack"}]

PeersTyped ==
    /\ inbox \in [Clients -> Seq(Payload)]
    /\ receiving \in [Clients -> Payload \union {None}]
    /\ peer \in [Clients -> Clients \union {None}]
    /\ peerAck \in [Clients -> BOOLEAN] /\ ackSent \in [Clients -> BOOLEAN]
    /\ complete \in [Clients -> BOOLEAN] /\ connected \in [Clients -> BOOLEAN]
    /\ heard \in [Clients -> SUBSET Clients]

HasObserved(p) == \E q \in Clients \ {p} : p \in heard[q]
Means(c, m)    == m.from # c /\ (m.kind = "ack" => HasObserved(m.from))
Answered(c)    == \E p \in Clients \ {c} : HasObserved(p)

AckMeans ==
    \A c \in Clients :
        /\ \A i \in DOMAIN inbox[c] : Means(c, inbox[c][i])
        /\ receiving[c] # None => Means(c, receiving[c])
        /\ peer[c] # None => HasObserved(c)
        /\ peerAck[c] => Answered(c)
        /\ complete[c] => Answered(c)

LEMMA PeersInit == PSInit => PeersTyped /\ AckMeans
  BY DEF PSInit, PeersTyped, AckMeans

(* What has been observed stays observed.                                  *)
LEMMA StaysObserved ==
    ASSUME \A q \in Clients : heard[q] \subseteq heard'[q]
    PROVE  /\ \A p \in Clients : HasObserved(p) => HasObserved(p)'
           /\ \A c \in Clients : Answered(c) => Answered(c)'
           /\ \A c \in Clients, m \in Payload : Means(c, m) => Means(c, m)'
  BY DEF HasObserved, Answered, Means, Payload

LEMMA MeaningKept ==
    ASSUME PeersTyped', \A q \in Clients : heard[q] \subseteq heard'[q],
           \A p \in Clients :
               /\ \A i \in DOMAIN inbox'[p] : Means(p, inbox'[p][i])
               /\ receiving'[p] # None => Means(p, receiving'[p])
               /\ peer'[p] # None => HasObserved(p) \/ HasObserved(p)'
               /\ peerAck'[p] => Answered(p)
               /\ complete'[p] => Answered(p)
    PROVE  AckMeans'
<1>1. \A p \in Clients : \A i \in DOMAIN inbox'[p] : inbox'[p][i] \in Payload
  BY DEF PeersTyped
<1>2. \A p \in Clients : receiving'[p] # None => receiving'[p] \in Payload
  BY DEF PeersTyped
<1> QED BY <1>1, <1>2, StaysObserved DEF AckMeans

LEMMA SessionKeeps ==
    ASSUME PeersTyped, AckMeans, NEW c \in Clients,
           OnConnected(c) \/ OnDisconnected(c) \/ EnsureIdentityListener(c) \/ Announce(c)
    PROVE  PeersTyped' /\ AckMeans'
<1>1. /\ UNCHANGED <<receiving, diagnosticVars, historyVars>>
      /\ connected' \in [Clients -> BOOLEAN]
  BY DEF OnConnected, OnDisconnected, EnsureIdentityListener, Announce, sessionVars, messageVars,
         PeersTyped
<1>2. \/ inbox' = inbox
      \/ \E n \in 0 .. Len(inbox[c]) : inbox' = [inbox EXCEPT ![c] = SubSeq(inbox[c], 1, n)]
  BY DEF OnConnected, OnDisconnected, EnsureIdentityListener, Announce, messageVars
<1>3. /\ inbox' \in [Clients -> Seq(Payload)]
      /\ \A p \in Clients : \A i \in DOMAIN inbox'[p] : Means(p, inbox'[p][i])
  <2>1. CASE inbox' = inbox
    BY <2>1 DEF PeersTyped, AckMeans
  <2>2. ASSUME NEW n \in 0 .. Len(inbox[c]), inbox' = [inbox EXCEPT ![c] = SubSeq(inbox[c], 1, n)]
        PROVE  <1>3!1 /\ <1>3!2
    <3> DEFINE s == SubSeq(inbox[c], 1, n)
    <3>1. inbox[c] \in Seq(Payload)
      BY DEF PeersTyped
    <3>2. s \in Seq(Payload) /\ Len(s) = n /\ \A i \in 1 .. n : s[i] = inbox[c][i]
      BY <3>1
    <3> HIDE DEF s
    <3>3. \A p \in Clients : inbox'[p] = IF p = c THEN s ELSE inbox[p]
      BY <2>2 DEF PeersTyped, s
    <3>4. \A i \in 1 .. n : i \in DOMAIN inbox[c] /\ Means(c, s[i])
      BY <3>1, <3>2 DEF AckMeans
    <3>5. inbox' \in [Clients -> Seq(Payload)]
      BY <2>2, <3>2 DEF PeersTyped, s
    <3> QED BY <3>2, <3>3, <3>4, <3>5 DEF AckMeans
  <2> QED BY <1>2, <2>1, <2>2
<1>4. PeersTyped'
  BY <1>1, <1>3 DEF PeersTyped, diagnosticVars, historyVars
<1> QED
  BY <1>1, <1>3, <1>4, MeaningKept DEF AckMeans, diagnosticVars, historyVars

(* One callback after the other, with an end of the session in between.    *)
LEMMA CallbackKeeps ==
    ASSUME PeersTyped, AckMeans, NEW c \in Clients, DiagnosticCallback(c)
    PROVE  PeersTyped' /\ AckMeans'
<1>1. CASE ReceiveDiagnostic(c)
  <2> DEFINE s == inbox[c]
  <2>1. s \in Seq(Payload) /\ s # <<>>
    BY <1>1 DEF ReceiveDiagnostic, PeersTyped
  <2>2. /\ Head(s) \in Payload /\ Tail(s) \in Seq(Payload)
        /\ Head(s) = s[1] /\ 1 \in DOMAIN s
        /\ \A i \in DOMAIN Tail(s) : i + 1 \in DOMAIN s /\ Tail(s)[i] = s[i + 1]
    BY <2>1
  <2>3. Means(c, Head(s)) /\ \A i \in DOMAIN Tail(s) : Means(c, Tail(s)[i])
    BY <2>2 DEF AckMeans
  <2>4. /\ inbox' = [inbox EXCEPT ![c] = Tail(s)]
        /\ receiving' = [receiving EXCEPT ![c] = IF connected[c] THEN Head(s) ELSE None]
        /\ UNCHANGED <<diagnosticVars, historyVars, sessionVars>>
    BY <1>1 DEF ReceiveDiagnostic, DiagnosticCallback
  <2> HIDE DEF s
  <2>5. PeersTyped'
    BY <2>2, <2>4 DEF PeersTyped, diagnosticVars, historyVars, sessionVars
  <2>6. \A p \in Clients :
            /\ inbox'[p] = IF p = c THEN Tail(s) ELSE inbox[p]
            /\ \/ receiving'[p] \in {receiving[p], None}
               \/ p = c /\ receiving'[p] = Head(s)
    BY <2>4 DEF PeersTyped
  <2>7. UNCHANGED <<peer, peerAck, heard, complete>>
    BY <2>4 DEF diagnosticVars, historyVars
  <2> QED
    BY <2>3, <2>5, <2>6, <2>7, MeaningKept DEF AckMeans
<1>2. CASE ObservePeer(c)
  <2>1. receiving[c] \in Payload /\ Means(c, receiving[c])
    BY <1>2 DEF ObservePeer, PeersTyped, AckMeans
  <2> DEFINE p == receiving[c].from
  <2>2. p \in Clients /\ p # c
    BY <2>1 DEF Payload, Means
  <2>3. /\ peer' = [peer EXCEPT ![c] = p]
        /\ peerAck' = [peerAck EXCEPT ![c] = @ \/ receiving[c].kind = "ack"]
        /\ heard' = [heard EXCEPT ![p] = @ \union {c}]
        /\ receiving' = [receiving EXCEPT ![c] = None]
        /\ UNCHANGED <<inbox, pc, probe, ackSent, complete, sessionVars>>
    BY <1>2 DEF ObservePeer, DiagnosticCallback
  <2>4. receiving[c].kind = "ack" => HasObserved(p)
    BY <2>1 DEF Means
  <2> HIDE DEF p
  <2>5. PeersTyped'
    BY <2>2, <2>3 DEF PeersTyped, sessionVars
  <2>6. /\ \A q \in Clients : heard[q] \subseteq heard'[q]
        /\ c \in heard'[p]
    BY <2>2, <2>3 DEF PeersTyped
  <2>7. HasObserved(c)'
    BY <2>2, <2>6 DEF HasObserved
  <2>8. \A q \in Clients :
          /\ receiving'[q] # None => receiving'[q] = receiving[q]
          /\ peer'[q] # None => peer[q] # None \/ q = c
          /\ peerAck'[q] => peerAck[q] \/ (q = c /\ HasObserved(p))
    BY <2>3, <2>4 DEF PeersTyped
  <2>9. \A q \in Clients : peerAck'[q] => Answered(q)
    BY <2>2, <2>8 DEF AckMeans, Answered
  <2>10. AckMeans'
    BY <2>3, <2>5, <2>6, <2>7, <2>8, <2>9, MeaningKept DEF AckMeans
  <2> QED BY <2>5, <2>10
<1> QED BY <1>1, <1>2 DEF DiagnosticCallback

(* What is sent goes behind what is there, and is never the receiver's own.*)
LEMMA SendKeeps ==
    ASSUME PeersTyped, AckMeans, NEW c \in Clients, NEW kind \in {"probe", "ack"},
           SendDiagnosticPayload(c, kind), kind = "ack" => HasObserved(c), heard' = heard
    PROVE  /\ inbox' \in [Clients -> Seq(Payload)]
           /\ \A p \in Clients : \A i \in DOMAIN inbox'[p] : Means(p, inbox'[p][i])
<1> DEFINE m == [from |-> c, kind |-> kind]
<1>1. m \in Payload /\ m.from = c /\ m.kind = kind
  BY DEF Payload
<1>2. \A p \in Clients : inbox'[p] = inbox[p] \/ (p # c /\ inbox'[p] = Append(inbox[p], m))
  BY DEF SendDiagnosticPayload, IsPeerDiagnosticPayload
<1> HIDE DEF m
<1>3. inbox' \in [Clients -> Seq(Payload)]
  <2>1. DOMAIN inbox' = Clients /\ inbox' = [p \in Clients |-> inbox'[p]]
    BY DEF SendDiagnosticPayload
  <2>2. ASSUME NEW p \in Clients PROVE inbox'[p] \in Seq(Payload)
    <3>1. inbox[p] \in Seq(Payload)
      BY DEF PeersTyped
    <3>2. Append(inbox[p], m) \in Seq(Payload)
      BY <1>1, <3>1
    <3> QED BY <1>2, <3>1, <3>2
  <2> QED BY <2>1, <2>2
<1>4. ASSUME NEW p \in Clients, NEW i \in DOMAIN inbox'[p] PROVE Means(p, inbox'[p][i])
  <2>1. inbox[p] \in Seq(Payload)
    BY DEF PeersTyped
  <2>2. CASE inbox'[p] = inbox[p]
    BY <2>2 DEF AckMeans
  <2>3. CASE p # c /\ inbox'[p] = Append(inbox[p], m)
    <3>1. i \in 1 .. Len(inbox[p]) + 1
      BY <2>1, <2>3, <1>1
    <3>2. inbox'[p][i] = IF i = Len(inbox[p]) + 1 THEN m ELSE inbox[p][i]
      BY <2>1, <2>3, <3>1, <1>1
    <3> QED BY <1>1, <2>1, <2>3, <3>1, <3>2 DEF AckMeans, Means
  <2> QED BY <1>2, <2>2, <2>3
<1> QED BY <1>3, <1>4

LEMMA WorkerKeeps ==
    ASSUME PeersTyped, AckMeans, NEW c \in Clients, DiagnosticWorker(c)
    PROVE  PeersTyped' /\ AckMeans'
<1>1. UNCHANGED <<connected, receiving, heard>>
  BY DEF DiagnosticWorker, sessionVars
<1>2. /\ ackSent' \in [Clients -> BOOLEAN] /\ complete' \in [Clients -> BOOLEAN]
      /\ peer' \in [Clients -> Clients \union {None}] /\ peerAck' \in [Clients -> BOOLEAN]
  BY DEF DiagnosticWorker, StartSession, Settle, SendProbe, SendAck, Complete, ResolvePeerProxy,
         Aborted, SessionEnded, EndSession, ResetSessionState, PeersTyped
<1>3. /\ inbox' \in [Clients -> Seq(Payload)]
      /\ \A p \in Clients : \A i \in DOMAIN inbox'[p] : Means(p, inbox'[p][i])
  <2>1. CASE inbox' = inbox
    BY <2>1 DEF PeersTyped, AckMeans
  <2>2. CASE SendProbe(c)
    BY <1>1, <2>2, SendKeeps DEF SendProbe
  <2>3. CASE SendAck(c)
    <3>1. HasObserved(c)
      BY <2>3 DEF SendAck, AckMeans
    <3> QED BY <1>1, <2>3, <3>1, SendKeeps DEF SendAck
  <2> QED
    BY <2>1, <2>2, <2>3 DEF DiagnosticWorker, StartSession, Settle, Complete, ResolvePeerProxy,
       Aborted, SessionEnded, EndSession
<1>4. \A p \in Clients :
          /\ peer'[p] # None => peer'[p] = peer[p]
          /\ peerAck'[p] => peerAck[p]
          /\ complete'[p] => complete[p] \/ peerAck[p]
  BY DEF DiagnosticWorker, StartSession, Settle, SendProbe, SendAck, Complete, ResolvePeerProxy,
         Aborted, SessionEnded, EndSession, ResetSessionState, PeersTyped
<1>5. PeersTyped'
  BY <1>1, <1>2, <1>3 DEF PeersTyped
<1> QED BY <1>1, <1>3, <1>4, <1>5, MeaningKept DEF AckMeans

(* A client that calls the handshake complete has been answered by one who *)
(* had observed somebody (Diagnostic 138-156, 326-369), however many       *)
(* clients there are and however sessions come and go.                     *)
THEOREM HandshakeIsAnswered == PSSpec => [](PeersTyped /\ AckMeans)
<1>1. PeersTyped /\ AckMeans /\ [PSNext]_PSvars => PeersTyped' /\ AckMeans'
  <2> SUFFICES ASSUME PeersTyped, AckMeans, [PSNext]_PSvars PROVE PeersTyped' /\ AckMeans'
    OBVIOUS
  <2>1. CASE UNCHANGED PSvars
    BY <2>1 DEF PSvars, sessionVars, messageVars, diagnosticVars, historyVars, PeersTyped, AckMeans,
       Means, HasObserved, Answered
  <2>2. CASE PSNext
    <3>1. PICK c \in Clients :
              \/ OnConnected(c) \/ OnDisconnected(c) \/ EnsureIdentityListener(c) \/ Announce(c)
              \/ DiagnosticCallback(c) \/ DiagnosticWorker(c)
      BY <2>2, Zenon DEF PSNext
    <3> QED BY <3>1, SessionKeeps, CallbackKeeps, WorkerKeeps
  <2> QED BY <2>1, <2>2
<1> QED BY <1>1, PeersInit, PTL DEF PSSpec

(* Between two clients there is nobody else the peer can have observed, so *)
(* that a complete handshake is mutual.  With three it need not be.        *)
THEOREM HandshakeIsMutual ==
    ASSUME NEW a, NEW b, Clients = {a, b}
    PROVE  PSSpec => []CompleteIsMutual
<1>1. PeersTyped /\ AckMeans => CompleteIsMutual
  BY DEF AckMeans, Answered, HasObserved, CompleteIsMutual
<1> QED BY <1>1, HandshakeIsAnswered, PTL
=============================================================================
