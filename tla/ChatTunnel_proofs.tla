-------------------------- MODULE ChatTunnel_proofs --------------------------
(* What ChatTunnel keeps for any number of clients, messages and slots.    *)
EXTENDS ChatTunnel, FiniteSetTheorems, SequenceTheorems, WellFoundedInduction, TLAPS
-----------------------------------------------------------------------------
(* What BuildEnvelopes does to a payload of any length.                    *)

LEMMA RoundsUp ==
    ASSUME NEW size \in Nat \ {0}, NEW room \in Nat \ {0}
    PROVE  LET n == FragmentCount(size, room)
           IN  /\ n \in Nat \ {0}
               /\ (n - 1) * room < size
               /\ size <= n * room
<1> DEFINE n == (size + room - 1) \div room
<1>1. n \in Int /\ n * room <= size + room - 1 /\ size + room - 1 < (n + 1) * room
  OBVIOUS
<1>2. (n + 1) * room = n * room + room /\ (n - 1) * room = n * room - room
  BY <1>1
<1>3. n \in Nat \ {0}
  <2>1. CASE n <= 0
    <3>1. n * room <= 0  BY <1>1, <2>1
    <3> QED BY <1>1, <1>2, <2>1, <3>1
  <2> QED BY <1>1, <2>1
<1> QED BY <1>1, <1>2, <1>3 DEF FragmentCount

(* The pieces, if there are any, are as many as FragmentCount says.        *)
LEMMA CutInPieces ==
    ASSUME NEW prefix \in Nat, NEW size \in Nat, BuildEnvelopes(prefix, size) # <<>>
    PROVE  LET room == Room(prefix)
               n    == FragmentCount(size, room)
           IN  /\ room \in Nat \ {0}
               /\ n \in Nat \ {0} /\ n <= MaxFragments
               /\ BuildEnvelopes(prefix, size) = [i \in 1 .. n |-> Piece(size, room, i - 1)]
<1> DEFINE room == Room(prefix)
           n    == FragmentCount(size, room)
<1>1. ~(room <= 0 \/ n > MaxFragments)
  BY DEF BuildEnvelopes
<1>2. room \in Nat \ {0}
  BY <1>1, FragmentationAssumption DEF Room
<1>3. n \in Nat \ {0}
  BY <1>2, RoundsUp DEF FragmentCount
<1> QED BY <1>1, <1>2, <1>3, FragmentationAssumption DEF BuildEnvelopes

(* A piece lies within the text and has room in its envelope.              *)
LEMMA PieceInText ==
    ASSUME NEW size \in Nat, NEW room \in Nat \ {0},
           NEW i \in 1 .. FragmentCount(size, room)
    PROVE  LET p == Piece(size, room, i - 1)
           IN  /\ p.offset = (i - 1) * room
               /\ p.offset \in Nat /\ p.count \in Nat
               /\ p.count <= room
               /\ i < FragmentCount(size, room) => p.count = room
               /\ i = FragmentCount(size, room) => p.offset + p.count = size
<1> DEFINE n == FragmentCount(size, room)
           p == Piece(size, room, i - 1)
<1>1. CASE size = 0
  BY <1>1 DEF FragmentCount, Piece
<1>2. CASE size # 0
  <2>1. n \in Nat \ {0} /\ (n - 1) * room < size /\ size <= n * room
    BY <1>2, RoundsUp
  <2>2. PICK o \in Int : o = (i - 1) * room
    BY <2>1
  <2>3. o \in Nat /\ o + room = i * room
    BY <2>1, <2>2
  <2>4. i < n => i * room <= (n - 1) * room
    BY <2>1
  <2>5. (n - 1) * room \in Int /\ n * room \in Int /\ i * room \in Int
    BY <2>1
  <2>6. i < n => o + room < size
    BY <2>1, <2>3, <2>4, <2>5
  <2>7. i = n => o < size /\ size <= o + room
    BY <2>1, <2>2, <2>3
  <2>8. p = [offset |-> o, count |-> IF size - o < room THEN size - o ELSE room]
    BY <2>2 DEF Piece
  <2>9. i < n \/ i = n
    BY <2>1
  <2> QED BY <2>2, <2>3, <2>6, <2>7, <2>8, <2>9
<1> QED BY <1>1, <1>2

(* The envelopes carry the payload's text, whatever its length: end to     *)
(* end, nothing twice and nothing missing.                                 *)
THEOREM EnvelopesPartition ==
    ASSUME NEW prefix \in Nat, NEW size \in Nat, BuildEnvelopes(prefix, size) # <<>>
    PROVE  Partition(BuildEnvelopes(prefix, size), size)
<1> DEFINE room == Room(prefix)
           n    == FragmentCount(size, room)
           cut  == BuildEnvelopes(prefix, size)
<1>1. /\ room \in Nat \ {0} /\ n \in Nat \ {0}
      /\ cut = [i \in 1 .. n |-> Piece(size, room, i - 1)]
  BY CutInPieces
<1>2. Len(cut) = n
  BY <1>1
<1>3. cut[1].offset = 0
  <2>1. 1 \in 1 .. n /\ cut[1] = Piece(size, room, 1 - 1)
    BY <1>1
  <2> QED BY <1>1, <2>1, PieceInText
<1>4. ASSUME NEW i \in 1 .. n - 1
      PROVE  cut[i + 1].offset = cut[i].offset + cut[i].count
  <2>1. i \in 1 .. n /\ i + 1 \in 1 .. n /\ i < n
    BY <1>1
  <2>2. cut[i] = Piece(size, room, i - 1) /\ cut[i + 1] = Piece(size, room, i + 1 - 1)
    <3> HIDE DEF room, n, cut
    <3> QED BY <1>1, <2>1
  <2>3. /\ Piece(size, room, i - 1).offset = (i - 1) * room
        /\ Piece(size, room, i - 1).count = room
    BY <1>1, <2>1, PieceInText
  <2>4. Piece(size, room, i + 1 - 1).offset = (i + 1 - 1) * room
    BY <1>1, <2>1, PieceInText
  <2>5. (i + 1 - 1) * room = (i - 1) * room + room
    BY <1>1, <2>1
  <2> HIDE DEF cut
  <2> QED BY <2>2, <2>3, <2>4, <2>5
<1>5. cut[n].offset + cut[n].count = size
  <2>1. n \in 1 .. n
    BY <1>1
  <2> QED BY <1>1, <2>1, PieceInText
<1> QED BY <1>1, <1>2, <1>3, <1>4, <1>5 DEF Partition

LEMMA PieceFits ==
    \A size \in Nat, room \in Nat \ {0} : \A i \in 1 .. FragmentCount(size, room) :
        Piece(size, room, i - 1).count \in Nat /\ Piece(size, room, i - 1).count <= room
BY PieceInText

LEMMA FewPieces ==
    ASSUME NEW size \in Nat, size <= 49152, NEW room \in Nat \ {0}, room >= 3161
    PROVE  FragmentCount(size, room) \in 1 .. 16
<1> DEFINE n == FragmentCount(size, room)
<1>1. CASE size = 0
  BY <1>1 DEF FragmentCount
<1>2. CASE size # 0
  <2>1. n \in Nat \ {0} /\ (n - 1) * room < size
    BY <1>2, RoundsUp
  <2>2. CASE n > 16
    <3> HIDE DEF n
    <3>1. (n - 1) * room >= 16 * room
      BY <2>1, <2>2
    <3>2. (n - 1) * room \in Int /\ 16 * room >= 50576
      BY <2>1
    <3> QED BY <2>1, <3>1, <3>2
  <2> QED BY <2>1, <2>2
<1> QED BY <1>1, <1>2

(* With the numbers of the code, every payload that Send accepts (24 KiB   *)
(* at most, twice that in hexadecimal) can be sent whatever the names in   *)
(* the prefix (243 characters for the longest channel, target and          *)
(* numbers), and every envelope keeps kMaxEnvelopeChars and so the limit   *)
(* of main.lua: overheadReserve covers the labels.                         *)
THEOREM LegalPayloadsFit ==
    ASSUME MaxEnvelopeChars = 3500, OverheadReserve = 96, MaxFragments = 64,
           NEW prefix \in Nat, prefix <= 243, NEW size \in Nat, size <= 2 * 24 * 1024
    PROVE  LET cut == BuildEnvelopes(prefix, size)
           IN  /\ cut # <<>>
               /\ \A i \in 1 .. Len(cut) :
                     EnvelopeChars(prefix, i, Len(cut), cut[i]) <= MaxEnvelopeChars
<1> DEFINE room == Room(prefix)
           n    == FragmentCount(size, room)
           cut  == BuildEnvelopes(prefix, size)
<1>0. size <= 49152
  OBVIOUS
<1>1. room \in Nat \ {0} /\ room >= 3161 /\ prefix + room = 3404
  BY DEF Room
<1>2. n \in 1 .. 16
  BY <1>0, <1>1, FewPieces
<1>3. cut = [i \in 1 .. n |-> Piece(size, room, i - 1)]
  <2>1. ~(room <= 0 \/ n > MaxFragments)
    BY <1>1, <1>2
  <2> QED BY <2>1 DEF BuildEnvelopes
<1>4. cut # <<>> /\ Len(cut) = n
  <2> HIDE DEF room, n, cut
  <2>1. Len(cut) = n
    BY <1>2, <1>3
  <2>2. 1 \in DOMAIN cut
    BY <1>2, <1>3
  <2> QED BY <2>1, <2>2
<1>5. ASSUME NEW i \in 1 .. n
      PROVE  EnvelopeChars(prefix, i, n, cut[i]) <= 3500
  <2>1. Piece(size, room, i - 1).count \in Nat /\ Piece(size, room, i - 1).count <= room
    BY <1>0, <1>1, PieceFits
  <2>2. Digits(i) \in 1 .. 2 /\ Digits(n) \in 1 .. 2
    BY <1>2 DEF Digits
  <2>3. cut[i].count = Piece(size, room, i - 1).count
    BY <1>2, <1>3
  <2> QED BY <1>0, <1>1, <2>1, <2>2, <2>3 DEF EnvelopeChars
<1>6. \A i \in 1 .. Len(cut) : EnvelopeChars(prefix, i, Len(cut), cut[i]) <= MaxEnvelopeChars
  <2> HIDE DEF n, cut
  <2> QED BY <1>4, <1>5
<1> QED BY <1>4, <1>6, Zenon

-----------------------------------------------------------------------------
(* The strengthening: every fragment that is anywhere on its way is one of *)
(* a message that was sent, and every entry of a table is what has come of *)
(* the one message its key names.                                          *)
MeantFor(m, r) == m.to \in {AllPlayers, r} /\ (m.loopback \/ m.from # r)

Genuine(f)  == \E m \in sent : \E i \in DOMAIN Pieces(m) : f = Fragment(m, i)
Meant(f, r) == \E m \in sent : MeantFor(m, r) /\ \E i \in DOMAIN Pieces(m) : f = Fragment(m, i)

PartOf(e, k, r) ==
    \E m \in sent :
        /\ Key(m) = k /\ MeantFor(m, r)
        /\ DOMAIN e.payload = DOMAIN Pieces(m)
        /\ \A i \in DOMAIN Pieces(m) : e.payload[i] \in {NoPiece, Pieces(m)[i]}

AllOf(d, r) ==
    \E m \in sent :
        Key(m) = <<d.sender, d.seq>> /\ MeantFor(m, r) /\ d.payload = Pieces(m)

SentApart ==
    /\ \A m \in sent : Pieces(m) # <<>> /\ m.seq < sequence[m.from]
    /\ \A m, n \in sent : Key(m) = Key(n) => m = n
SendingSent ==
    \A c \in Clients : \A s \in sending[c] : s.msg \in sent /\ s.next \in DOMAIN Pieces(s.msg)
UplinkGenuine   == \A c \in Clients : \A i \in DOMAIN uplink[c] : Genuine(uplink[c][i])
DownlinkMeant   == \A r \in Clients : \A i \in DOMAIN downlink[r] : Meant(downlink[r][i], r)
CapturedMeant   == \A r \in Clients : \A f \in captured[r] : Meant(f, r)
PendingPartial  == \A r \in Clients : \A k \in DOMAIN pending[r] : PartOf(pending[r][k], k, r)
DeliveredAllOf  == \A r \in Clients : \A i \in DOMAIN delivered[r] : AllOf(delivered[r][i], r)
Finite ==
    \A r \in Clients : IsFiniteSet(captured[r]) /\ IsFiniteSet(DOMAIN pending[r])

IInv ==
    /\ TypeOK /\ SentApart /\ SendingSent
    /\ UplinkGenuine /\ DownlinkMeant /\ CapturedMeant
    /\ PendingPartial /\ DeliveredAllOf /\ Finite

(* A second strengthening, for what is delivered once and not lost.  A     *)
(* fragment is a line of one client, and at one place of its way to each   *)
(* receiver.                                                               *)
Up   == [c \in Clients |-> Range(uplink[c])]
Down == [r \in Clients |-> Range(downlink[r])]
Past == [r \in Clients |-> Down[r] \union captured[r] \union handled[r]]

HandledMeant == \A r \in Clients : \A f \in handled[r] : Meant(f, r)
OwnLines ==
    \A c \in Clients : /\ \A s \in sending[c] : s.msg.from = c
                       /\ \A f \in Up[c] : f.sender = c
OneCall ==
    \A c \in Clients : \A s, z \in sending[c] : s.msg = z.msg => s = z
InOrder ==
    \A c, r \in Clients : \A s \in sending[c] : \A f \in Up[c] \union Past[r] :
        KeyOf(f) = Key(s.msg) => f.part < s.next
NoRepeats ==
    \A c \in Clients : IsInjective(uplink[c]) /\ IsInjective(downlink[c])
OnePlace ==
    /\ \A c, r \in Clients : Up[c] \intersect Past[r] = {}
    /\ \A r \in Clients : Down[r] \intersect (captured[r] \union handled[r]) = {}
    /\ \A r \in Clients : captured[r] \intersect handled[r] = {}

Lines == HandledMeant /\ OwnLines /\ OneCall /\ InOrder /\ NoRepeats /\ OnePlace

(* What a client's table P, its handled fragments H, its excused keys X    *)
(* and its deliveries D have to do with each other.  An expired entry is   *)
(* excused.  An entry has the pieces of the handled fragments, unless it   *)
(* was excused, and never all.  A message without an entry was delivered   *)
(* or excused, or nothing of it was handled.  A delivered one was handled  *)
(* entirely, is delivered once and has no entry.                           *)
KeyAt(D, i) == <<D[i].sender, D[i].seq>>
KeysOf(D)   == {<<d.sender, d.seq>> : d \in Range(D)}

Expired(P, X) == \A k \in DOMAIN P : P[k].age > Lifetime => k \in X
Entries(M, P, H, X) ==
    \A m \in M : Key(m) \in DOMAIN P =>
        /\ P[Key(m)].meta = MetaOf(Fragment(m, 1))
        /\ ~IsComplete(P[Key(m)])
        /\ \A i \in DOMAIN Pieces(m) :
             /\ P[Key(m)].payload[i] # NoPiece => Fragment(m, i) \in H
             /\ Fragment(m, i) \in H => P[Key(m)].payload[i] # NoPiece \/ Key(m) \in X
NoEntry(M, P, H, X, D) ==
    \A m \in M : Key(m) \notin KeysOf(D) \union X \union DOMAIN P =>
        \A i \in DOMAIN Pieces(m) : Fragment(m, i) \notin H
Finished(M, P, H, D) ==
    /\ \A m \in M : Key(m) \in KeysOf(D) => Fragments(m) \subseteq H
    /\ \A i, j \in DOMAIN D : i # j => KeyAt(D, i) # KeyAt(D, j)
    /\ KeysOf(D) \intersect DOMAIN P = {}

Account(M, P, H, X, D) ==
    Expired(P, X) /\ Entries(M, P, H, X) /\ NoEntry(M, P, H, X, D) /\ Finished(M, P, H, D)

Accounts ==
    \A r \in Clients : Account(sent, pending[r], handled[r], excused[r], delivered[r])
SizesLegal == \A m \in sent : m.size <= MaxPayloadChars
-----------------------------------------------------------------------------
LEMMA PiecesTyped ==
    ASSUME NEW m \in Message
    PROVE  /\ Pieces(m) \in Seq(PieceText)
           /\ Pieces(m) # <<>> => Partition(Pieces(m), m.size)
           /\ \A i \in DOMAIN Pieces(m) : Pieces(m)[i].of = Key(m)
<1> DEFINE cut == BuildEnvelopes(Prefix, m.size)
           room == Room(Prefix)
<1>1. Prefix \in Nat /\ m.size \in Nat /\ Key(m) \in Clients \X Nat
  BY TunnelBoundsAssumption DEF Message, Key
<1>2. CASE cut = <<>>
  <2>1. Pieces(m) = <<>>
    BY <1>2 DEF Pieces
  <2> QED BY <2>1
<1>3. CASE cut # <<>>
  <2> DEFINE n == FragmentCount(m.size, room)
  <2>1. /\ room \in Nat \ {0} /\ n \in Nat \ {0}
        /\ cut = [i \in 1 .. n |-> Piece(m.size, room, i - 1)]
    BY <1>1, <1>3, CutInPieces
  <2>2. \A i \in 1 .. n : cut[i].offset \in Nat /\ cut[i].count \in Nat
    <3> TAKE i \in 1 .. n
    <3>1. Piece(m.size, room, i - 1).offset \in Nat /\ Piece(m.size, room, i - 1).count \in Nat
      BY <1>1, <2>1, PieceInText
    <3> QED BY <2>1, <3>1
  <2>3. Pieces(m) = [i \in 1 .. n |-> Text(m, cut[i])]
    BY <2>1 DEF Pieces
  <2>4. Partition(cut, m.size)
    BY <1>1, <1>3, EnvelopesPartition
  <2> HIDE DEF cut, n
  <2>5. \A i \in 1 .. n : /\ Pieces(m)[i] \in PieceText /\ Pieces(m)[i].of = Key(m)
                          /\ Pieces(m)[i].offset = cut[i].offset
                          /\ Pieces(m)[i].count = cut[i].count
    BY <1>1, <2>2, <2>3 DEF Text, PieceText
  <2>6. Len(cut) = n /\ Len(Pieces(m)) = n /\ Pieces(m) \in Seq(PieceText)
    BY <2>1, <2>3, <2>5
  <2>7. Partition(Pieces(m), m.size)
    <3>1. 1 \in 1 .. n /\ n \in 1 .. n /\ \A i \in 1 .. n - 1 : i \in 1 .. n /\ i + 1 \in 1 .. n
      BY <2>1
    <3> QED BY <2>4, <2>5, <2>6, <3>1 DEF Partition
  <2> QED BY <2>3, <2>5, <2>6, <2>7
<1> QED BY <1>2, <1>3

LEMMA FragmentTyped ==
    ASSUME NEW m \in Message, NEW i \in DOMAIN Pieces(m)
    PROVE  Fragment(m, i) \in FragmentType
<1>1. Pieces(m) \in Seq(PieceText)
  BY PiecesTyped
<1>2. i \in Nat /\ Len(Pieces(m)) \in Nat /\ Pieces(m)[i] \in PieceText
  BY <1>1
<1> QED BY <1>2 DEF Fragment, FragmentType, Message

(* Whom a fragment is addressed to.                                        *)
LEMMA AddresseesOfFragment ==
    ASSUME NEW m \in Message, NEW i \in DOMAIN Pieces(m), NEW r \in Addressees(Fragment(m, i))
    PROVE  r \in Clients /\ MeantFor(m, r)
BY DEF Addressees, Fragment, MeantFor
-----------------------------------------------------------------------------
(* The table.                                                              *)

LEMMA CleanedTable ==
    ASSUME NEW t, IsTable(t), IsFiniteSet(DOMAIN t), NEW u \in Cleanups(t)
    PROVE  /\ IsTable(u) /\ IsFiniteSet(DOMAIN u)
           /\ DOMAIN u \subseteq DOMAIN t
           /\ \A k \in DOMAIN u : u[k] = t[k]
           /\ Cardinality(DOMAIN u) <= MaxPending
<1>1. PICK kept \in SUBSET Alive(t) :
        /\ u = Restrict(t, kept)
        /\ \/ kept = Alive(t) /\ Cardinality(kept) <= MaxPending
           \/ Cardinality(Alive(t)) > MaxPending /\ Cardinality(kept) = MaxPending
  BY DEF Cleanups
<1>2. kept \subseteq DOMAIN t
  BY DEF Alive
<1>3. DOMAIN u = kept /\ \A k \in kept : u[k] = t[k]
  BY <1>1 DEF Restrict
<1>4. IsFiniteSet(kept)
  BY <1>2, FS_Subset
<1>5. Cardinality(kept) <= MaxPending
  BY <1>1, ReassemblyAssumption
<1> QED BY <1>2, <1>3, <1>4, <1>5 DEF IsTable

(* The entry of a fragment that was sent to r is a part of its message.    *)
LEMMA FilledPart ==
    ASSUME NEW r \in Clients, NEW t, IsTable(t), sent \subseteq Message, SentApart,
           \A k \in DOMAIN t : PartOf(t[k], k, r),
           NEW f, Meant(f, r)
    PROVE  /\ KeyOf(f) \in Clients \X Nat
           /\ Filled(t, f) \in Entry
           /\ PartOf(Filled(t, f), KeyOf(f), r)
<1>1. PICK m \in sent : MeantFor(m, r) /\ \E i \in DOMAIN Pieces(m) : f = Fragment(m, i)
  BY DEF Meant
<1>2. PICK i \in DOMAIN Pieces(m) : f = Fragment(m, i)
  BY <1>1
<1>3. /\ Pieces(m) \in Seq(PieceText) /\ DOMAIN Pieces(m) = 1 .. Len(Pieces(m))
      /\ Len(Pieces(m)) \in Nat /\ Pieces(m)[i] \in PieceText /\ m \in Message
  BY PiecesTyped
<1>4. /\ f.sender = m.from /\ f.id = m.seq /\ f.seq = m.seq
      /\ f.channel = m.channel /\ f.flags = m.loopback
      /\ f.parts = Len(Pieces(m)) /\ f.part = i /\ f.piece = Pieces(m)[i]
  BY <1>2 DEF Fragment
<1>5. KeyOf(f) = Key(m) /\ KeyOf(f) \in Clients \X Nat
  BY <1>3, <1>4 DEF KeyOf, Key, Message
<1> DEFINE e == EntryFor(t, f)
<1>6. /\ e \in Entry
      /\ DOMAIN e.payload = DOMAIN Pieces(m)
      /\ \A j \in DOMAIN Pieces(m) : e.payload[j] \in {NoPiece, Pieces(m)[j]}
  <2>1. CASE KeyOf(f) \in DOMAIN t
    <3>1. e = t[Key(m)]
      BY <1>5, <2>1 DEF EntryFor
    <3>2. PICK n \in sent :
            /\ Key(n) = Key(m)
            /\ DOMAIN e.payload = DOMAIN Pieces(n)
            /\ \A j \in DOMAIN Pieces(n) : e.payload[j] \in {NoPiece, Pieces(n)[j]}
      BY <1>5, <2>1, <3>1 DEF PartOf
    <3>3. n = m
      BY <3>2 DEF SentApart
    <3> QED BY <1>5, <2>1, <3>1, <3>2, <3>3 DEF IsTable
  <2>2. CASE KeyOf(f) \notin DOMAIN t
    <3>1. e = [meta |-> MetaOf(f), payload |-> [j \in 1 .. f.parts |-> NoPiece], age |-> 0]
      BY <2>2 DEF EntryFor
    <3>2. MetaOf(f) \in [sender : Clients, channel : Channels, flags : BOOLEAN, seq : Nat, parts : Nat]
      BY <1>3, <1>4 DEF MetaOf, Message
    <3>3. [j \in 1 .. f.parts |-> NoPiece] \in Seq(PieceText \union {NoPiece})
      BY <1>3, <1>4
    <3>4. 0 \in 0 .. Lifetime + 1
      BY ReassemblyAssumption
    <3> QED BY <1>3, <1>4, <3>1, <3>2, <3>3, <3>4 DEF Entry
  <2> QED BY <2>1, <2>2
<1> HIDE DEF e
<1> DEFINE p == [e.payload EXCEPT ![i] = Pieces(m)[i]]
<1>7. Filled(t, f) = [e EXCEPT !.payload = p, !.age = 0]
  BY <1>4, <1>6 DEF Filled, e, Entry
<1>8. /\ p \in Seq(PieceText \union {NoPiece})
      /\ DOMAIN p = DOMAIN Pieces(m)
      /\ \A j \in DOMAIN Pieces(m) : p[j] \in {NoPiece, Pieces(m)[j]}
  <2>1. e.payload \in Seq(PieceText \union {NoPiece})
    BY <1>6 DEF Entry
  <2>2. p \in Seq(PieceText \union {NoPiece})
    BY <1>3, <1>6, <2>1, ExceptSeq
  <2> QED BY <1>3, <1>6, <2>1, <2>2
<1> HIDE DEF p
<1>9. /\ Filled(t, f) \in Entry /\ Filled(t, f).payload = p
  <2>1. Filled(t, f) = [meta |-> e.meta, payload |-> p, age |-> 0]
    BY <1>6, <1>7 DEF Entry
  <2>2. 0 \in 0 .. Lifetime + 1
    BY ReassemblyAssumption
  <2> QED BY <1>6, <1>8, <2>1, <2>2 DEF Entry
<1> QED BY <1>1, <1>5, <1>8, <1>9 DEF PartOf

LEMMA AddedFragment ==
    ASSUME NEW r \in Clients, NEW t, IsTable(t), IsFiniteSet(DOMAIN t),
           Cardinality(DOMAIN t) <= MaxPending,
           sent \subseteq Message, SentApart,
           \A k \in DOMAIN t : PartOf(t[k], k, r),
           NEW f, Meant(f, r)
    PROVE  LET u == AddFragment(t, f)
           IN  /\ IsTable(u) /\ IsFiniteSet(DOMAIN u)
               /\ \A k \in DOMAIN u : PartOf(u[k], k, r)
               /\ Cardinality(DOMAIN u) <= MaxPending + 1
<1> DEFINE u == AddFragment(t, f)
           k0 == KeyOf(f)
           e0 == Filled(t, f)
<1>1. k0 \in Clients \X Nat /\ e0 \in Entry /\ PartOf(e0, k0, r)
  BY FilledPart
<1> HIDE DEF k0, e0
<1>2. CASE u = Restrict(t, DOMAIN t \ {k0})
  <2>1. DOMAIN u = DOMAIN t \ {k0} /\ \A k \in DOMAIN u : u[k] = t[k]
    BY <1>2 DEF Restrict
  <2>2. IsFiniteSet(DOMAIN u) /\ Cardinality(DOMAIN u) <= Cardinality(DOMAIN t)
    BY <2>1, FS_Subset
  <2>3. Cardinality(DOMAIN u) \in Nat /\ Cardinality(DOMAIN t) \in Nat
    BY <2>2, FS_CardinalityType
  <2> QED BY <2>1, <2>2, <2>3, ReassemblyAssumption DEF IsTable
<1>3. CASE u = Put(t, k0, e0)
  <2>1. /\ DOMAIN u = DOMAIN t \union {k0}
        /\ \A k \in DOMAIN u : u[k] = IF k = k0 THEN e0 ELSE t[k]
    BY <1>3 DEF Put
  <2>2. /\ IsFiniteSet(DOMAIN t \union {k0})
        /\ Cardinality(DOMAIN t \union {k0}) =
              IF k0 \in DOMAIN t THEN Cardinality(DOMAIN t) ELSE Cardinality(DOMAIN t) + 1
    BY FS_AddElement
  <2>3. Cardinality(DOMAIN t) \in Nat
    BY FS_CardinalityType
  <2> QED BY <1>1, <2>1, <2>2, <2>3, ReassemblyAssumption DEF IsTable
<1> QED BY <1>2, <1>3 DEF AddFragment, k0, e0

(* A message AddFragment returns is all of what was sent.                  *)
LEMMA CompletedMessage ==
    ASSUME NEW r \in Clients, NEW t, IsTable(t), sent \subseteq Message, SentApart,
           \A k \in DOMAIN t : PartOf(t[k], k, r),
           NEW f, Meant(f, r), Completes(t, f)
    PROVE  LET d == [sender |-> f.sender, seq |-> f.seq, payload |-> Filled(t, f).payload]
           IN  /\ d \in [sender : Clients, seq : Nat, payload : Seq(PieceText \union {NoPiece})]
               /\ AllOf(d, r)
<1> DEFINE p == Filled(t, f).payload
<1>1. KeyOf(f) \in Clients \X Nat /\ Filled(t, f) \in Entry /\ PartOf(Filled(t, f), KeyOf(f), r)
  BY FilledPart
<1>2. p \in Seq(PieceText \union {NoPiece})
  BY <1>1 DEF Entry
<1>3. PICK m \in sent : /\ Key(m) = KeyOf(f) /\ MeantFor(m, r)
                        /\ DOMAIN p = DOMAIN Pieces(m)
                        /\ \A i \in DOMAIN Pieces(m) : p[i] \in {NoPiece, Pieces(m)[i]}
  BY <1>1 DEF PartOf
<1>4. \A i \in DOMAIN p : p[i] # NoPiece
  BY DEF Completes, IsComplete
<1>5. Pieces(m) \in Seq(PieceText)
  BY PiecesTyped
<1>6. f.id = f.seq /\ f.sender \in Clients /\ f.seq \in Nat
  BY DEF Meant, Fragment, Message
<1> HIDE DEF p
<1>7. p = Pieces(m)
  BY <1>2, <1>3, <1>4, <1>5
<1> QED BY <1>2, <1>3, <1>6, <1>7 DEF AllOf, KeyOf, p
-----------------------------------------------------------------------------
(* The inductive invariant.                                                *)

LEMMA InitInv == Init => IInv
<1> SUFFICES ASSUME Init PROVE IInv
  OBVIOUS
<1>1. IsFiniteSet({}) /\ Cardinality({}) = 0
  BY FS_EmptySet
<1>2. DOMAIN EmptyTable = {}
  BY DEF EmptyTable
<1>3. \A r \in Clients : captured[r] = {} /\ DOMAIN pending[r] = {}
  BY <1>2 DEF Init
<1>4. TypeOK
  <2>1. \A r \in Clients : IsTable(pending[r])
    BY <1>3 DEF IsTable
  <2>2. \A r \in Clients : /\ Cardinality(captured[r]) <= CaptureSlots
                           /\ Cardinality(DOMAIN pending[r]) <= MaxPending + 1
    <3> TAKE r \in Clients
    <3>1. Cardinality(captured[r]) = 0 /\ Cardinality(DOMAIN pending[r]) = 0
      BY <1>1, <1>3
    <3> QED BY <3>1, ReassemblyAssumption, TunnelBoundsAssumption
  <2>3. 0 \in 0 .. MaxStops
    BY TunnelBoundsAssumption
  <2> QED BY <2>1, <2>2, <2>3 DEF Init, TypeOK
<1>5. SentApart /\ SendingSent
  BY DEF Init, SentApart, SendingSent
<1>6. UplinkGenuine /\ DownlinkMeant /\ DeliveredAllOf
  BY DEF Init, UplinkGenuine, DownlinkMeant, DeliveredAllOf
<1>7. CapturedMeant /\ PendingPartial /\ Finite
  BY <1>1, <1>3 DEF CapturedMeant, PendingPartial, Finite
<1> QED BY <1>4, <1>5, <1>6, <1>7 DEF IInv

(* Messages stay sent, so what was true of a fragment or an entry stays.   *)
LEMMA Frame ==
    ASSUME IInv, sent \subseteq sent'
    PROVE  /\ UNCHANGED uplink => UplinkGenuine'
           /\ UNCHANGED downlink => DownlinkMeant'
           /\ UNCHANGED captured => CapturedMeant'
           /\ UNCHANGED pending => PendingPartial'
           /\ UNCHANGED delivered => DeliveredAllOf'
           /\ UNCHANGED <<captured, pending>> => Finite'
<1>1. UNCHANGED uplink => UplinkGenuine'
  BY DEF IInv, UplinkGenuine, Genuine
<1>2. UNCHANGED downlink => DownlinkMeant'
  BY DEF IInv, DownlinkMeant, Meant
<1>3. UNCHANGED captured => CapturedMeant'
  BY DEF IInv, CapturedMeant, Meant
<1>4. UNCHANGED pending => PendingPartial'
  BY DEF IInv, PendingPartial, PartOf
<1>5. UNCHANGED delivered => DeliveredAllOf'
  BY DEF IInv, DeliveredAllOf, AllOf
<1>6. UNCHANGED <<captured, pending>> => Finite'
  BY DEF IInv, Finite
<1> QED BY <1>1, <1>2, <1>3, <1>4, <1>5, <1>6

LEMMA StartSendKeeps ==
    ASSUME IInv, NEW c \in Clients, StartSend(c)
    PROVE  IInv'
<1> USE DEF IInv
<1>1. PICK q \in Requests :
        LET m == [from |-> c, seq |-> sequence[c], channel |-> q.channel, to |-> q.to,
                  loopback |-> q.loopback, size |-> q.size]
        IN  IF Pieces(m) = <<>>
              THEN UNCHANGED <<sending, sent>>
              ELSE /\ sending' = [sending EXCEPT ![c] = @ \union {[msg |-> m, next |-> 1]}]
                   /\ sent' = sent \union {m}
  BY DEF StartSend
<1> DEFINE m == [from |-> c, seq |-> sequence[c], channel |-> q.channel, to |-> q.to,
                 loopback |-> q.loopback, size |-> q.size]
<1>2. m \in Message /\ m.from = c /\ m.seq = sequence[c] /\ sequence[c] \in Nat
  BY RequestsAssumption DEF Message, TypeOK
<1> HIDE DEF m
<1>3. /\ sequence' = [sequence EXCEPT ![c] = @ + 1]
      /\ UNCHANGED <<accepted, uplink, present, downlink, receiveVars, excused>>
  BY DEF StartSend
<1>4. \/ Pieces(m) = <<>> /\ UNCHANGED <<sending, sent>>
      \/ /\ Pieces(m) # <<>>
         /\ sending' = [sending EXCEPT ![c] = @ \union {[msg |-> m, next |-> 1]}]
         /\ sent' = sent \union {m}
  BY <1>1 DEF m
<1>5. sent \subseteq sent'
  BY <1>4
<1>6. TypeOK'
  <2>1. sequence' \in [Clients -> Nat]
    BY <1>3 DEF TypeOK
  <2>2. sending' \in [Clients -> SUBSET [msg : Message, next : Nat]]
    <3>1. [msg |-> m, next |-> 1] \in [msg : Message, next : Nat]
      BY <1>2
    <3>2. sending \in [Clients -> SUBSET [msg : Message, next : Nat]]
      BY DEF TypeOK
    <3> DEFINE call == [msg |-> m, next |-> 1]
    <3> HIDE DEF call
    <3>3. \/ sending' = sending
          \/ sending' = [sending EXCEPT ![c] = @ \union {call}]
      BY <1>4 DEF call
    <3> QED BY <3>1, <3>2, <3>3 DEF call
  <2>3. sent' \subseteq Message /\ accepted' \subseteq sent'
    BY <1>2, <1>3, <1>4 DEF TypeOK
  <2> QED BY <1>3, <2>1, <2>2, <2>3 DEF TypeOK, receiveVars
<1>7. SentApart'
  <2>1. \A n \in sent : n \in Message /\ n.from \in Clients /\ n.seq < sequence[n.from] /\ n.seq \in Nat
    BY DEF SentApart, TypeOK, Message
  <2>2. \A n \in sent' : Pieces(n) # <<>> /\ n.seq < sequence'[n.from]
    <3> SUFFICES ASSUME NEW n \in sent' PROVE Pieces(n) # <<>> /\ n.seq < sequence'[n.from]
      OBVIOUS
    <3>1. CASE n \in sent
      BY <1>2, <1>3, <2>1, <3>1 DEF SentApart, TypeOK
    <3>2. CASE n = m /\ Pieces(m) # <<>>
      BY <1>2, <1>3, <3>2 DEF TypeOK
    <3> QED BY <1>4, <3>1, <3>2
  <2>3. \A n \in sent : Key(n) # Key(m)
    BY <1>2, <2>1 DEF Key
  <2> QED BY <1>4, <2>2, <2>3 DEF SentApart
<1>8. SendingSent'
  <2> SUFFICES ASSUME NEW d \in Clients, NEW s \in sending'[d]
               PROVE  s.msg \in sent' /\ s.next \in DOMAIN Pieces(s.msg)
    BY DEF SendingSent
  <2>1. CASE s \in sending[d]
    BY <1>5, <2>1 DEF SendingSent
  <2>2. CASE s \notin sending[d]
    <3> DEFINE call == [msg |-> m, next |-> 1]
    <3>0. sending \in [Clients -> SUBSET [msg : Message, next : Nat]]
      BY DEF TypeOK
    <3>1. s = call /\ Pieces(m) # <<>> /\ m \in sent'
      <4> HIDE DEF call
      <4>1. \/ UNCHANGED sending
            \/ /\ Pieces(m) # <<>>
               /\ sending' = [sending EXCEPT ![c] = @ \union {call}]
               /\ sent' = sent \union {m}
        BY <1>4 DEF call
      <4> QED BY <2>2, <3>0, <4>1
    <3>2. Pieces(m) \in Seq(PieceText)
      BY <1>2, PiecesTyped
    <3>3. 1 \in DOMAIN Pieces(m)
      BY <3>1, <3>2
    <3> QED BY <3>1, <3>3
  <2> QED BY <2>1, <2>2
<1>9. UNCHANGED <<uplink, downlink, captured, pending, delivered>>
  BY <1>3 DEF receiveVars
<1> QED BY <1>5, <1>6, <1>7, <1>8, <1>9, Frame

(* What an action keeps that leaves the sending side's histories alone.    *)
LEMMA SendSideKept ==
    ASSUME IInv, UNCHANGED <<sequence, sent>>
    PROVE  /\ sent \subseteq sent' /\ SentApart'
           /\ UNCHANGED sending => SendingSent'
BY DEF IInv, SentApart, SendingSent

LEMMA SendFragmentKeeps ==
    ASSUME IInv, NEW c \in Clients, SendFragment(c)
    PROVE  IInv'
<1> USE DEF IInv
<1>1. PICK s \in sending[c] :
        LET rest == sending[c] \ {s} IN
        /\ uplink' = [uplink EXCEPT ![c] = Append(@, Fragment(s.msg, s.next))]
        /\ IF s.next < Len(Pieces(s.msg))
             THEN /\ sending' = [sending EXCEPT ![c] = rest \union {[s EXCEPT !.next = @ + 1]}]
                  /\ UNCHANGED accepted
             ELSE /\ sending' = [sending EXCEPT ![c] = rest]
                  /\ accepted' = accepted \union {s.msg}
  BY DEF SendFragment
<1>2. UNCHANGED <<sequence, sent, present, downlink, receiveVars, excused>>
  BY DEF SendFragment
<1>3. /\ s \in [msg : Message, next : Nat] /\ s.msg \in sent /\ s.msg \in Message
      /\ s.next \in DOMAIN Pieces(s.msg)
  BY DEF SendingSent, TypeOK
<1>4. Fragment(s.msg, s.next) \in FragmentType /\ Genuine(Fragment(s.msg, s.next))
  BY <1>3, FragmentTyped DEF Genuine
<1> DEFINE s1 == [s EXCEPT !.next = @ + 1]
<1>5. s1 \in [msg : Message, next : Nat] /\ s1.msg = s.msg /\ s1.next = s.next + 1
  BY <1>3
<1> HIDE DEF s1
<1>6. \/ /\ s.next < Len(Pieces(s.msg))
         /\ sending' = [sending EXCEPT ![c] = (sending[c] \ {s}) \union {s1}]
      \/ sending' = [sending EXCEPT ![c] = sending[c] \ {s}]
  BY <1>1 DEF s1
<1>7. TypeOK'
  <2>1. uplink' \in [Clients -> Seq(FragmentType)]
    BY <1>1, <1>4 DEF TypeOK
  <2>2. sending' \in [Clients -> SUBSET [msg : Message, next : Nat]]
    <3>1. sending \in [Clients -> SUBSET [msg : Message, next : Nat]]
      BY DEF TypeOK
    <3> QED BY <1>5, <1>6, <3>1
  <2>3. accepted' \subseteq sent
    BY <1>1, <1>3 DEF TypeOK
  <2> QED BY <1>2, <2>1, <2>2, <2>3 DEF TypeOK, receiveVars
<1>8. SendingSent'
  <2> SUFFICES ASSUME NEW d \in Clients, NEW z \in sending'[d]
               PROVE  z.msg \in sent' /\ z.next \in DOMAIN Pieces(z.msg)
    BY DEF SendingSent
  <2>1. CASE z \in sending[d]
    BY <1>2, <2>1 DEF SendingSent
  <2>2. CASE z \notin sending[d]
    <3>0. sending \in [Clients -> SUBSET [msg : Message, next : Nat]]
      BY DEF TypeOK
    <3>1. z = s1 /\ s.next < Len(Pieces(s.msg))
      BY <1>6, <2>2, <3>0
    <3>2. Pieces(s.msg) \in Seq(PieceText)
      BY <1>3, PiecesTyped
    <3>3. s.next + 1 \in DOMAIN Pieces(s.msg)
      BY <1>3, <3>1, <3>2
    <3> QED BY <1>2, <1>3, <1>5, <3>1, <3>3
  <2> QED BY <2>1, <2>2
<1>9. UplinkGenuine'
  <2> SUFFICES ASSUME NEW d \in Clients, NEW i \in DOMAIN uplink'[d]
               PROVE  \E m \in sent' : \E j \in DOMAIN Pieces(m) : uplink'[d][i] = Fragment(m, j)
    BY DEF UplinkGenuine, Genuine
  <2>1. uplink[d] \in Seq(FragmentType) /\ DOMAIN uplink = Clients
    BY DEF TypeOK
  <2>2. \/ i \in DOMAIN uplink[d] /\ uplink'[d][i] = uplink[d][i]
        \/ uplink'[d][i] = Fragment(s.msg, s.next)
    BY <1>1, <2>1
  <2>3. Genuine(uplink'[d][i])
    BY <1>4, <2>2 DEF UplinkGenuine
  <2> QED BY <1>2, <2>3 DEF Genuine
<1>10. UNCHANGED <<downlink, captured, pending, delivered>>
  BY <1>2 DEF receiveVars
<1> QED BY <1>2, <1>7, <1>8, <1>9, <1>10, Frame, SendSideKept

LEMMA SendFailsKeeps ==
    ASSUME IInv, NEW c \in Clients, SendFails(c)
    PROVE  IInv'
<1> USE DEF IInv
<1>1. PICK s \in sending[c] : sending' = [sending EXCEPT ![c] = @ \ {s}]
  BY DEF SendFails
<1>2. UNCHANGED <<sequence, sent, accepted, uplink, present, downlink, receiveVars, excused>>
  BY DEF SendFails
<1>3. \A d \in Clients : sending'[d] \subseteq sending[d]
  BY <1>1 DEF TypeOK
<1>4. TypeOK'
  <2>1. sending' \in [Clients -> SUBSET [msg : Message, next : Nat]]
    BY <1>1 DEF TypeOK
  <2> QED BY <1>2, <2>1 DEF TypeOK, receiveVars
<1>5. SendingSent'
  BY <1>2, <1>3 DEF SendingSent
<1>6. UNCHANGED <<uplink, downlink, captured, pending, delivered>>
  BY <1>2 DEF receiveVars
<1> QED BY <1>2, <1>4, <1>5, <1>6, Frame, SendSideKept

LEMMA RelayKeeps ==
    ASSUME IInv, NEW c \in Clients, Relay(c)
    PROVE  IInv'
<1> USE DEF IInv
<1> DEFINE f == Head(uplink[c])
           to == IF c \in present /\ f.channel \in RelayChannels
                   THEN Addressees(f) \intersect present ELSE {}
<1>1. /\ uplink[c] # <<>>
      /\ uplink' = [uplink EXCEPT ![c] = Tail(@)]
      /\ downlink' = [r \in Clients |->
            IF r \in to THEN Append(downlink[r], f) ELSE downlink[r]]
      /\ excused' = [r \in Clients |->
            IF r \in to THEN excused[r] ELSE excused[r] \union {<<f.sender, f.id>>}]
      /\ UNCHANGED <<sendVars, present, receiveVars>>
  BY DEF Relay
<1>2. uplink[c] \in Seq(FragmentType) /\ f \in FragmentType /\ 1 \in DOMAIN uplink[c] /\ f = uplink[c][1]
  BY <1>1 DEF TypeOK
<1>3. \A r \in to : r \in Clients /\ Meant(f, r)
  <2> SUFFICES ASSUME NEW r \in to PROVE r \in Clients /\ Meant(f, r)
    OBVIOUS
  <2>1. r \in Addressees(f)
    OBVIOUS
  <2>2. PICK m \in sent : \E i \in DOMAIN Pieces(m) : f = Fragment(m, i)
    BY <1>2 DEF UplinkGenuine, Genuine
  <2>3. PICK i \in DOMAIN Pieces(m) : f = Fragment(m, i)
    BY <2>2
  <2>4. m \in Message
    BY DEF TypeOK
  <2>5. r \in Clients /\ MeantFor(m, r)
    BY <2>1, <2>3, <2>4, AddresseesOfFragment
  <2> QED BY <2>3, <2>5 DEF Meant
<1> HIDE DEF f, to
<1>4. TypeOK'
  <2>1. uplink' \in [Clients -> Seq(FragmentType)]
    BY <1>1, <1>2 DEF TypeOK
  <2>2. downlink' \in [Clients -> Seq(FragmentType)]
    BY <1>1, <1>2 DEF TypeOK
  <2>3. excused' \in [Clients -> SUBSET (Clients \X Nat)]
    <3>1. <<f.sender, f.id>> \in Clients \X Nat
      BY <1>2 DEF FragmentType
    <3> QED BY <1>1, <3>1 DEF TypeOK
  <2> QED BY <1>1, <2>1, <2>2, <2>3 DEF TypeOK, sendVars, receiveVars
<1>5. UplinkGenuine'
  <2> SUFFICES ASSUME NEW d \in Clients, NEW i \in DOMAIN uplink'[d]
               PROVE  \E m \in sent' : \E j \in DOMAIN Pieces(m) : uplink'[d][i] = Fragment(m, j)
    BY DEF UplinkGenuine, Genuine
  <2>1. uplink[d] \in Seq(FragmentType) /\ DOMAIN uplink = Clients
    BY DEF TypeOK
  <2>2. \E j \in DOMAIN uplink[d] : uplink'[d][i] = uplink[d][j]
    BY <1>1, <1>2, <2>1
  <2> QED BY <1>1, <2>2 DEF UplinkGenuine, Genuine, sendVars
<1>6. DownlinkMeant'
  <2> SUFFICES ASSUME NEW r \in Clients, NEW i \in DOMAIN downlink'[r]
               PROVE  \E m \in sent' : /\ MeantFor(m, r)
                                       /\ \E j \in DOMAIN Pieces(m) : downlink'[r][i] = Fragment(m, j)
    BY DEF DownlinkMeant, Meant
  <2>1. downlink[r] \in Seq(FragmentType)
    BY DEF TypeOK
  <2>2. \/ i \in DOMAIN downlink[r] /\ downlink'[r][i] = downlink[r][i]
        \/ r \in to /\ downlink'[r][i] = f
    BY <1>1, <2>1
  <2>3. Meant(downlink'[r][i], r)
    BY <1>3, <2>2 DEF DownlinkMeant
  <2> QED BY <1>1, <2>3 DEF Meant, sendVars
<1>7. UNCHANGED <<sequence, sending, sent, captured, pending, delivered>>
  BY <1>1 DEF sendVars, receiveVars
<1> QED BY <1>4, <1>5, <1>6, <1>7, Frame, SendSideKept

LEMMA PresenceKeeps ==
    ASSUME IInv, NEW c \in Clients, Leave(c) \/ Enter(c)
    PROVE  IInv'
<1> USE DEF IInv
<1>1. /\ present' \in {present \ {c}, present \union {c}}
      /\ UNCHANGED <<sendVars, uplink, downlink, receiveVars, excused>>
  BY DEF Leave, Enter
<1>2. TypeOK'
  BY <1>1 DEF TypeOK, sendVars, receiveVars
<1>3. UNCHANGED <<sequence, sending, sent, uplink, downlink, captured, pending, delivered>>
  BY <1>1 DEF sendVars, receiveVars
<1> QED BY <1>2, <1>3, Frame, SendSideKept

LEMMA CaptureKeeps ==
    ASSUME IInv, NEW c \in Clients, Capture(c)
    PROVE  IInv'
<1> USE DEF IInv
<1> DEFINE f == Head(downlink[c])
<1>1. /\ downlink[c] # <<>>
      /\ downlink' = [downlink EXCEPT ![c] = Tail(@)]
      /\ \/ /\ Cardinality(captured[c]) < CaptureSlots
            /\ captured' = [captured EXCEPT ![c] = @ \union {f}]
            /\ UNCHANGED excused
         \/ /\ excused' = [excused EXCEPT ![c] = @ \union {<<f.sender, f.id>>}]
            /\ UNCHANGED captured
      /\ UNCHANGED <<sendVars, uplink, present, pending, delivered, handled, stops>>
  BY DEF Capture
<1>2. /\ downlink[c] \in Seq(FragmentType) /\ f \in FragmentType
      /\ 1 \in DOMAIN downlink[c] /\ f = downlink[c][1]
  BY <1>1 DEF TypeOK
<1>3. Meant(f, c)
  BY <1>2 DEF DownlinkMeant
<1> HIDE DEF f
<1>4. /\ captured' \in [Clients -> SUBSET FragmentType]
      /\ \A r \in Clients : captured'[r] = captured[r] \/ (r = c /\ captured'[r] = captured[r] \union {f})
  <2>1. captured \in [Clients -> SUBSET FragmentType]
    BY DEF TypeOK
  <2>2. \/ captured' = captured
        \/ captured' = [captured EXCEPT ![c] = @ \union {f}]
    BY <1>1
  <2>3. CASE captured' = captured
    BY <2>1, <2>3
  <2>4. CASE captured' = [captured EXCEPT ![c] = @ \union {f}]
    <3>1. captured[c] \union {f} \in SUBSET FragmentType
      BY <1>2, <2>1
    <3>2. captured' \in [Clients -> SUBSET FragmentType]
      BY <2>1, <2>4, <3>1
    <3>3. \A r \in Clients : captured'[r] = IF r = c THEN captured[c] \union {f} ELSE captured[r]
      BY <2>1, <2>4
    <3> QED BY <3>2, <3>3
  <2> QED BY <2>2, <2>3, <2>4
<1>5. /\ IsFiniteSet(captured[c] \union {f})
      /\ Cardinality(captured[c] \union {f}) <= Cardinality(captured[c]) + 1
      /\ Cardinality(captured[c]) \in Nat /\ Cardinality(captured[c] \union {f}) \in Nat
  <2>1. IsFiniteSet(captured[c])
    BY DEF Finite
  <2> QED BY <2>1, FS_AddElement, FS_CardinalityType
<1>6. \A r \in Clients : IsFiniteSet(captured'[r]) /\ Cardinality(captured'[r]) <= CaptureSlots
  <2> SUFFICES ASSUME NEW r \in Clients
               PROVE  IsFiniteSet(captured'[r]) /\ Cardinality(captured'[r]) <= CaptureSlots
    OBVIOUS
  <2>1. CASE captured'[r] = captured[r]
    BY <2>1 DEF Finite, TypeOK
  <2>2. CASE captured'[r] # captured[r]
    <3>1. r = c /\ Cardinality(captured[c]) < CaptureSlots /\ captured'[r] = captured[c] \union {f}
      BY <1>1, <1>4, <2>2
    <3> QED BY <1>5, <3>1, TunnelBoundsAssumption
  <2> QED BY <2>1, <2>2
<1>7. TypeOK'
  <2>1. downlink' \in [Clients -> Seq(FragmentType)]
    BY <1>1, <1>2 DEF TypeOK
  <2>2. excused' \in [Clients -> SUBSET (Clients \X Nat)]
    <3>1. <<f.sender, f.id>> \in Clients \X Nat
      BY <1>2 DEF FragmentType
    <3>2. excused \in [Clients -> SUBSET (Clients \X Nat)]
      BY DEF TypeOK
    <3> DEFINE k == <<f.sender, f.id>>
    <3> HIDE DEF k
    <3>3. excused' = excused \/ excused' = [excused EXCEPT ![c] = @ \union {k}]
      BY <1>1 DEF k
    <3> QED BY <3>1, <3>2, <3>3 DEF k
  <2> QED BY <1>1, <1>4, <1>6, <2>1, <2>2 DEF TypeOK, sendVars
<1>8. DownlinkMeant'
  <2> SUFFICES ASSUME NEW r \in Clients, NEW i \in DOMAIN downlink'[r]
               PROVE  \E m \in sent' : /\ MeantFor(m, r)
                                       /\ \E j \in DOMAIN Pieces(m) : downlink'[r][i] = Fragment(m, j)
    BY DEF DownlinkMeant, Meant
  <2>1. downlink[r] \in Seq(FragmentType) /\ DOMAIN downlink = Clients
    BY DEF TypeOK
  <2>2. \E j \in DOMAIN downlink[r] : downlink'[r][i] = downlink[r][j]
    BY <1>1, <1>2, <2>1
  <2> QED BY <1>1, <2>2 DEF DownlinkMeant, Meant, sendVars
<1>9. CapturedMeant'
  <2>1. UNCHANGED sent
    BY <1>1 DEF sendVars
  <2>2. \A r \in Clients : \A g \in captured'[r] : Meant(g, r)
    BY <1>3, <1>4 DEF CapturedMeant
  <2> QED BY <2>1, <2>2 DEF CapturedMeant, Meant
<1>10. Finite'
  BY <1>1, <1>6 DEF Finite
<1>11. UNCHANGED <<sequence, sending, sent, uplink, pending, delivered>>
  BY <1>1 DEF sendVars
<1> QED BY <1>7, <1>8, <1>9, <1>10, <1>11, Frame, SendSideKept

LEMMA DeliverKeeps ==
    ASSUME IInv, NEW c \in Clients, Deliver(c)
    PROVE  IInv'
<1> USE DEF IInv
<1>1. PICK f \in captured[c], t \in Cleanups(pending[c]) :
         /\ captured' = [captured EXCEPT ![c] = @ \ {f}]
         /\ pending' = [pending EXCEPT ![c] = AddFragment(t, f)]
         /\ handled' = [handled EXCEPT ![c] = @ \union {f}]
         /\ delivered' = IF Completes(t, f)
              THEN [delivered EXCEPT ![c] = Append(@,
                     [sender |-> f.sender, seq |-> f.seq, payload |-> Filled(t, f).payload])]
              ELSE delivered
         /\ excused' = IF Cardinality(DOMAIN pending[c]) > MaxPending
              THEN [excused EXCEPT ![c] = @ \union DOMAIN pending[c]]
              ELSE excused
  BY DEF Deliver
<1>2. UNCHANGED <<sendVars, uplink, present, downlink, stops>>
  BY DEF Deliver
<1>3. IsTable(pending[c]) /\ IsFiniteSet(DOMAIN pending[c]) /\ sent \subseteq Message
  BY DEF TypeOK, Finite
<1>4. /\ IsTable(t) /\ IsFiniteSet(DOMAIN t)
      /\ Cardinality(DOMAIN t) <= MaxPending
      /\ \A k \in DOMAIN t : k \in DOMAIN pending[c] /\ t[k] = pending[c][k]
  BY <1>3, CleanedTable
<1>5. \A k \in DOMAIN t : PartOf(t[k], k, c)
  BY <1>4 DEF PendingPartial
<1>6. f \in FragmentType /\ Meant(f, c)
  BY DEF TypeOK, CapturedMeant
<1> DEFINE u == AddFragment(t, f)
           d == [sender |-> f.sender, seq |-> f.seq, payload |-> Filled(t, f).payload]
<1>7. /\ IsTable(u) /\ IsFiniteSet(DOMAIN u)
      /\ \A k \in DOMAIN u : PartOf(u[k], k, c)
      /\ Cardinality(DOMAIN u) <= MaxPending + 1
  BY <1>3, <1>4, <1>5, <1>6, AddedFragment
<1>8. Completes(t, f) =>
        /\ d \in [sender : Clients, seq : Nat, payload : Seq(PieceText \union {NoPiece})]
        /\ AllOf(d, c)
  BY <1>3, <1>4, <1>5, <1>6, CompletedMessage
<1>9. \/ delivered' = delivered
      \/ Completes(t, f) /\ delivered' = [delivered EXCEPT ![c] = Append(@, d)]
  <2> HIDE DEF u, d
  <2>1. CASE Completes(t, f)
    BY <1>1, <2>1 DEF d
  <2>2. CASE ~Completes(t, f)
    <3>1. delivered' = delivered
      BY <1>1, <2>2
    <3> QED BY <3>1
  <2> QED BY <2>1, <2>2
<1>10. pending' = [pending EXCEPT ![c] = u]
  BY <1>1
<1> HIDE DEF u, d
<1>11. /\ DOMAIN pending' = Clients
       /\ \A r \in Clients : pending'[r] = IF r = c THEN u ELSE pending[r]
  BY <1>10 DEF TypeOK
<1>12. /\ captured' \in [Clients -> SUBSET FragmentType]
       /\ \A r \in Clients : captured'[r] \subseteq captured[r]
  <2>1. captured \in [Clients -> SUBSET FragmentType]
    BY DEF TypeOK
  <2> QED BY <1>1, <2>1
<1>13. \A r \in Clients : IsFiniteSet(captured'[r]) /\ Cardinality(captured'[r]) <= CaptureSlots
  <2> SUFFICES ASSUME NEW r \in Clients
               PROVE  IsFiniteSet(captured'[r]) /\ Cardinality(captured'[r]) <= CaptureSlots
    OBVIOUS
  <2>1. IsFiniteSet(captured[r]) /\ Cardinality(captured[r]) <= CaptureSlots
    BY DEF TypeOK, Finite
  <2>2. IsFiniteSet(captured'[r]) /\ Cardinality(captured'[r]) <= Cardinality(captured[r])
    BY <1>12, <2>1, FS_Subset
  <2>3. Cardinality(captured'[r]) \in Nat /\ Cardinality(captured[r]) \in Nat
    BY <2>1, <2>2, FS_CardinalityType
  <2> QED BY <2>1, <2>2, <2>3, TunnelBoundsAssumption
<1>14. TypeOK'
  <2>1. handled' \in [Clients -> SUBSET FragmentType]
    BY <1>1, <1>6 DEF TypeOK
  <2>2. excused' \in [Clients -> SUBSET (Clients \X Nat)]
    <3>1. excused \in [Clients -> SUBSET (Clients \X Nat)] /\ DOMAIN pending[c] \subseteq Clients \X Nat
      BY <1>3 DEF TypeOK, IsTable
    <3>2. excused' = excused \/ excused' = [excused EXCEPT ![c] = @ \union DOMAIN pending[c]]
      BY <1>1
    <3> QED BY <3>1, <3>2
  <2>3. delivered' \in [Clients -> Seq([sender : Clients, seq : Nat,
                                        payload : Seq(PieceText \union {NoPiece})])]
    <3> DEFINE D == [sender : Clients, seq : Nat, payload : Seq(PieceText \union {NoPiece})]
    <3>1. delivered \in [Clients -> Seq(D)] /\ (Completes(t, f) => d \in D)
      BY <1>8 DEF TypeOK
    <3> HIDE DEF D
    <3>2. ASSUME delivered' = delivered
          PROVE  delivered' \in [Clients -> Seq(D)]
      BY <3>1, <3>2
    <3>3. ASSUME d \in D, delivered' = [delivered EXCEPT ![c] = Append(@, d)]
          PROVE  delivered' \in [Clients -> Seq(D)]
      BY <3>1, <3>3
    <3>4. delivered' \in [Clients -> Seq(D)]
      BY <1>9, <3>1, <3>2, <3>3
    <3> QED BY <3>4 DEF D
  <2>4. \A r \in Clients : IsTable(pending'[r]) /\ Cardinality(DOMAIN pending'[r]) <= MaxPending + 1
    BY <1>7, <1>11 DEF TypeOK
  <2> QED BY <1>2, <1>11, <1>12, <1>13, <2>1, <2>2, <2>3, <2>4 DEF TypeOK, IsTable, sendVars
<1>15. UNCHANGED <<sequence, sending, sent, uplink, downlink>>
  BY <1>2 DEF sendVars
<1>16. CapturedMeant'
  BY <1>12, <1>15 DEF CapturedMeant, Meant
<1>17. PendingPartial'
  <2>1. \A r \in Clients : \A k \in DOMAIN pending'[r] : PartOf(pending'[r][k], k, r)
    BY <1>7, <1>11 DEF PendingPartial
  <2> QED BY <1>15, <2>1 DEF PendingPartial, PartOf
<1>18. DeliveredAllOf'
  <2>1. \A r \in Clients : \A i \in DOMAIN delivered'[r] : AllOf(delivered'[r][i], r)
    <3> SUFFICES ASSUME NEW r \in Clients, NEW i \in DOMAIN delivered'[r]
                 PROVE  AllOf(delivered'[r][i], r)
      OBVIOUS
    <3>1. delivered \in [Clients -> Seq([sender : Clients, seq : Nat,
                                         payload : Seq(PieceText \union {NoPiece})])]
      BY DEF TypeOK
    <3>2. \/ i \in DOMAIN delivered[r] /\ delivered'[r][i] = delivered[r][i]
          \/ r = c /\ Completes(t, f) /\ delivered'[r][i] = d
      <4>1. CASE delivered' = delivered
        BY <4>1
      <4>2. ASSUME delivered' = [delivered EXCEPT ![c] = Append(@, d)]
            PROVE  \/ i \in DOMAIN delivered[r] /\ delivered'[r][i] = delivered[r][i]
                   \/ r = c /\ delivered'[r][i] = d
        <5>1. CASE r = c
          <6>1. delivered'[r] = Append(delivered[r], d) /\ delivered[r] \in Seq([sender : Clients,
                    seq : Nat, payload : Seq(PieceText \union {NoPiece})])
            BY <3>1, <4>2, <5>1
          <6> QED BY <5>1, <6>1
        <5>2. CASE r # c
          BY <3>1, <4>2, <5>2
        <5> QED BY <5>1, <5>2
      <4> QED BY <1>9, <4>1, <4>2
    <3> QED BY <1>8, <3>2 DEF DeliveredAllOf
  <2> QED BY <1>15, <2>1 DEF DeliveredAllOf, AllOf
<1>19. Finite'
  BY <1>7, <1>11, <1>13 DEF Finite
<1> QED BY <1>14, <1>15, <1>16, <1>17, <1>18, <1>19, Frame, SendSideKept

LEMMA TickKeeps ==
    ASSUME IInv, NEW c \in Clients, Tick(c)
    PROVE  IInv'
<1> USE DEF IInv
<1>1. /\ pending' = [pending EXCEPT ![c] = Older(@)]
      /\ excused' = [excused EXCEPT ![c] = @ \union
            {k \in DOMAIN pending[c] : pending[c][k].age >= Lifetime}]
      /\ UNCHANGED <<sendVars, uplink, present, downlink, captured, delivered, handled, stops>>
  BY DEF Tick
<1> DEFINE t == pending[c]
           u == Older(t)
<1>2. IsTable(t)
  BY DEF TypeOK
<1>3. /\ DOMAIN u = DOMAIN t
      /\ \A k \in DOMAIN u : u[k] \in Entry /\ u[k].payload = t[k].payload
  <2>1. \A k \in DOMAIN t :
          u[k] = [t[k] EXCEPT !.age = IF @ > Lifetime THEN @ ELSE @ + 1]
    BY DEF Older
  <2>2. ASSUME NEW k \in DOMAIN t PROVE u[k] \in Entry /\ u[k].payload = t[k].payload
    <3>1. t[k] \in Entry
      BY <1>2 DEF IsTable
    <3> DEFINE e == t[k]
               a == IF e.age > Lifetime THEN e.age ELSE e.age + 1
    <3>2. a \in 0 .. Lifetime + 1
      BY <3>1, ReassemblyAssumption DEF Entry
    <3>3. u[k] = [meta |-> e.meta, payload |-> e.payload, age |-> a]
      BY <2>1, <3>1 DEF Entry
    <3> HIDE DEF e, a
    <3>4. e \in Entry /\ e = t[k]
      BY <3>1 DEF e
    <3> QED BY <3>2, <3>3, <3>4 DEF Entry
  <2> QED BY <2>2 DEF Older
<1> HIDE DEF u
<1>4. /\ DOMAIN pending' = Clients
      /\ \A r \in Clients : pending'[r] = IF r = c THEN u ELSE pending[r]
  BY <1>1 DEF TypeOK, u
<1>5. \A r \in Clients : DOMAIN pending'[r] = DOMAIN pending[r]
  BY <1>3, <1>4
<1>6. TypeOK'
  <2>1. excused' \in [Clients -> SUBSET (Clients \X Nat)]
    <3>1. excused \in [Clients -> SUBSET (Clients \X Nat)] /\ DOMAIN t \subseteq Clients \X Nat
      BY <1>2 DEF TypeOK, IsTable
    <3> QED BY <1>1, <3>1
  <2>2. \A r \in Clients : IsTable(pending'[r])
    BY <1>2, <1>3, <1>4 DEF TypeOK, IsTable
  <2>3. \A r \in Clients : Cardinality(DOMAIN pending'[r]) <= MaxPending + 1
    BY <1>5 DEF TypeOK
  <2> QED BY <1>1, <1>4, <2>1, <2>2, <2>3 DEF TypeOK, sendVars
<1>7. UNCHANGED <<sequence, sending, sent, uplink, downlink, captured, delivered>>
  BY <1>1 DEF sendVars
<1>8. PendingPartial'
  <2>1. \A r \in Clients : \A k \in DOMAIN pending'[r] :
          k \in DOMAIN pending[r] /\ pending'[r][k].payload = pending[r][k].payload
    BY <1>3, <1>4
  <2>2. \A r \in Clients : \A k \in DOMAIN pending'[r] : PartOf(pending'[r][k], k, r)
    BY <2>1 DEF PendingPartial, PartOf
  <2> QED BY <1>7, <2>2 DEF PendingPartial, PartOf
<1>9. Finite'
  BY <1>1, <1>5 DEF Finite
<1> QED BY <1>6, <1>7, <1>8, <1>9, Frame, SendSideKept

LEMMA StopKeeps ==
    ASSUME IInv, NEW c \in Clients, Stop(c)
    PROVE  IInv'
<1> USE DEF IInv
<1>1. /\ stops[c] < MaxStops
      /\ stops' = [stops EXCEPT ![c] = @ + 1]
      /\ pending' = [pending EXCEPT ![c] = EmptyTable]
      /\ excused' = [excused EXCEPT ![c] = @ \union DOMAIN pending[c]]
      /\ UNCHANGED <<sendVars, uplink, present, downlink, captured, delivered, handled>>
  BY DEF Stop
<1>2. DOMAIN EmptyTable = {} /\ IsFiniteSet({}) /\ Cardinality({}) = 0
  BY FS_EmptySet DEF EmptyTable
<1>3. /\ DOMAIN pending' = Clients
      /\ \A r \in Clients : pending'[r] = IF r = c THEN EmptyTable ELSE pending[r]
  BY <1>1 DEF TypeOK
<1>4. Cardinality(DOMAIN EmptyTable) <= MaxPending + 1
  BY <1>2, ReassemblyAssumption
<1>5. TypeOK'
  <2>1. excused' \in [Clients -> SUBSET (Clients \X Nat)]
    <3>1. /\ excused \in [Clients -> SUBSET (Clients \X Nat)]
          /\ DOMAIN pending[c] \subseteq Clients \X Nat
      BY DEF TypeOK, IsTable
    <3> QED BY <1>1, <3>1
  <2>2. \A r \in Clients : IsTable(pending'[r])
    BY <1>2, <1>3 DEF TypeOK, IsTable
  <2>3. \A r \in Clients : Cardinality(DOMAIN pending'[r]) <= MaxPending + 1
    BY <1>3, <1>4 DEF TypeOK
  <2>4. stops' \in [Clients -> 0 .. MaxStops]
    BY <1>1, TunnelBoundsAssumption DEF TypeOK
  <2> QED BY <1>1, <1>3, <2>1, <2>2, <2>3, <2>4 DEF TypeOK, sendVars
<1>6. UNCHANGED <<sequence, sending, sent, uplink, downlink, captured, delivered>>
  BY <1>1 DEF sendVars
<1>7. PendingPartial'
  BY <1>2, <1>3, <1>6 DEF PendingPartial, PartOf
<1>8. Finite'
  BY <1>1, <1>2, <1>3 DEF Finite
<1> QED BY <1>5, <1>6, <1>7, <1>8, Frame, SendSideKept

LEMMA StepKeeps == IInv /\ [Next]_vars => IInv'
<1> SUFFICES ASSUME IInv, [Next]_vars PROVE IInv'
  OBVIOUS
<1>1. ASSUME NEW c \in Clients,
             \/ StartSend(c) \/ SendFragment(c) \/ SendFails(c)
             \/ Relay(c) \/ Leave(c) \/ Enter(c)
             \/ Capture(c) \/ Deliver(c) \/ Tick(c) \/ Stop(c)
      PROVE  IInv'
  BY <1>1, StartSendKeeps, SendFragmentKeeps, SendFailsKeeps, RelayKeeps, PresenceKeeps,
     CaptureKeeps, DeliverKeeps, TickKeeps, StopKeeps
<1>2. CASE UNCHANGED vars
  <2>1. UNCHANGED <<sequence, sending, sent, accepted, uplink, present, downlink, captured,
                    pending, delivered, handled, stops, excused>>
    BY <1>2 DEF vars, sendVars, receiveVars
  <2>2. TypeOK'
    BY <2>1 DEF IInv, TypeOK
  <2> QED BY <2>1, <2>2, Frame, SendSideKept DEF IInv
<1> QED BY <1>1, <1>2 DEF Next

(* The strengthening holds in every state of every run.                    *)
THEOREM Invariance == Spec => []IInv
BY InitInv, StepKeeps, PTL DEF Spec

(* TypeOK for any number of clients, calls and messages: the capture slots *)
(* keep their capacity and g_pending never holds more than one entry above *)
(* kMaxPendingMessages (Receive 814-866), whichever entries the hash table *)
(* makes it lose.                                                          *)
THEOREM TypeCorrect == Spec => []TypeOK
<1>1. IInv => TypeOK
  BY DEF IInv
<1> QED BY <1>1, Invariance, PTL

(* DeliveredWhole for any interleaving of senders, calls, losses, expiries *)
(* and evictions: a callback is given a message that was sent and meant    *)
(* for this client, and all of its text (Receive 827-944).                 *)
THEOREM DeliversWhole == Spec => []DeliveredWhole
<1>1. IInv => DeliveredWhole
  <2> SUFFICES ASSUME IInv, NEW r \in Clients, NEW d \in Range(delivered[r])
               PROVE  \E m \in sent :
                        /\ Key(m) = <<d.sender, d.seq>>
                        /\ m.to \in {AllPlayers, r} /\ (m.loopback \/ m.from # r)
                        /\ Partition(d.payload, m.size)
                        /\ \A p \in Range(d.payload) : p.of = Key(m)
    BY DEF DeliveredWhole
  <2>1. PICK i \in DOMAIN delivered[r] : d = delivered[r][i]
    BY DEF Range
  <2>2. PICK m \in sent : Key(m) = <<d.sender, d.seq>> /\ MeantFor(m, r) /\ d.payload = Pieces(m)
    BY <2>1 DEF IInv, DeliveredAllOf, AllOf
  <2>3. m \in Message /\ Pieces(m) # <<>>
    BY DEF IInv, TypeOK, SentApart
  <2>4. Partition(Pieces(m), m.size) /\ \A p \in Range(Pieces(m)) : p.of = Key(m)
    BY <2>3, PiecesTyped DEF Range
  <2> QED BY <2>2, <2>4 DEF MeantFor
<1> QED BY <1>1, Invariance, PTL
-----------------------------------------------------------------------------
(* Lines in transit.                                                       *)

LEMMA TakenOff ==
    ASSUME NEW S, NEW q \in Seq(S), q # <<>>, IsInjective(q)
    PROVE  /\ Head(q) \in Range(q) /\ IsInjective(Tail(q))
           /\ Range(Tail(q)) = Range(q) \ {Head(q)}
<1>1. /\ Len(q) \in Nat \ {0} /\ DOMAIN q = 1 .. Len(q) /\ Head(q) = q[1]
      /\ DOMAIN Tail(q) = 1 .. Len(q) - 1
      /\ \A i \in 1 .. Len(q) - 1 : Tail(q)[i] = q[i + 1]
  OBVIOUS
<1>2. \A i, j \in 1 .. Len(q) : q[i] = q[j] => i = j
  BY <1>1 DEF IsInjective
<1>3. Head(q) \in Range(q)
  BY <1>1 DEF Range
<1>4. IsInjective(Tail(q))
  <2> SUFFICES ASSUME NEW i \in DOMAIN Tail(q), NEW j \in DOMAIN Tail(q), Tail(q)[i] = Tail(q)[j]
               PROVE  i = j
    BY DEF IsInjective
  <2>1. i + 1 \in 1 .. Len(q) /\ j + 1 \in 1 .. Len(q) /\ i \in Int /\ j \in Int
    BY <1>1
  <2>2. i + 1 = j + 1
    BY <1>1, <1>2, <2>1
  <2> QED BY <2>1, <2>2
<1>5. ASSUME NEW x \in Range(Tail(q)) PROVE x \in Range(q) \ {Head(q)}
  <2>1. PICK i \in 1 .. Len(q) - 1 : x = q[i + 1]
    BY <1>1, <1>5 DEF Range
  <2>2. i + 1 \in 1 .. Len(q) /\ i + 1 # 1 /\ 1 \in 1 .. Len(q)
    BY <1>1
  <2> QED BY <1>1, <1>2, <2>1, <2>2 DEF Range
<1>6. ASSUME NEW x \in Range(q) \ {Head(q)} PROVE x \in Range(Tail(q))
  <2>1. PICK i \in 1 .. Len(q) : x = q[i] /\ i # 1
    BY <1>1, <1>6 DEF Range
  <2>2. i - 1 \in 1 .. Len(q) - 1 /\ (i - 1) + 1 = i
    BY <1>1, <2>1
  <2>3. Tail(q)[i - 1] = x
    BY <1>1, <2>1, <2>2
  <2> QED BY <1>1, <2>2, <2>3 DEF Range
<1> QED BY <1>3, <1>4, <1>5, <1>6

LEMMA PutOn ==
    ASSUME NEW S, NEW q \in Seq(S), NEW e \in S
    PROVE  /\ Range(Append(q, e)) = Range(q) \union {e}
           /\ IsInjective(q) /\ e \notin Range(q) => IsInjective(Append(q, e))
<1>1. /\ Len(q) \in Nat /\ DOMAIN q = 1 .. Len(q) /\ DOMAIN Append(q, e) = 1 .. Len(q) + 1
      /\ \A i \in 1 .. Len(q) : Append(q, e)[i] = q[i]
      /\ Append(q, e)[Len(q) + 1] = e
  OBVIOUS
<1> DEFINE a == Append(q, e)
           n == Len(q)
<1> HIDE DEF a, n
<1>2. /\ n \in Nat /\ DOMAIN q = 1 .. n /\ DOMAIN a = 1 .. n + 1
      /\ \A i \in 1 .. n : a[i] = q[i]
      /\ a[n + 1] = e
  BY <1>1 DEF a, n
<1>3. \A i \in 1 .. n + 1 : i \in 1 .. n \/ i = n + 1
  BY <1>2
<1>4. \A i \in 1 .. n : i \in 1 .. n + 1
  BY <1>2
<1>5. n + 1 \in 1 .. n + 1
  BY <1>2
<1>6. Range(a) = Range(q) \union {e}
  BY <1>2, <1>3, <1>4, <1>5 DEF Range
<1>7. ASSUME IsInjective(q), e \notin Range(q) PROVE IsInjective(a)
  BY <1>2, <1>3, <1>7 DEF IsInjective, Range
<1> QED BY <1>6, <1>7 DEF a

LEMMA FieldsOf ==
    ASSUME NEW m, NEW i
    PROVE  KeyOf(Fragment(m, i)) = Key(m) /\ Fragment(m, i).sender = m.from
           /\ Fragment(m, i).part = i
BY DEF KeyOf, Key, Fragment

LEMMA WhichPart ==
    ASSUME SentApart, NEW m \in sent, NEW n \in sent, NEW i, NEW j,
           Fragment(m, i) = Fragment(n, j)
    PROVE  m = n /\ i = j
<1>1. Key(m) = Key(n) /\ i = j
  BY FieldsOf
<1> QED BY <1>1 DEF SentApart

LEMMA AllGenuine ==
    ASSUME IInv, Lines, NEW c \in Clients, NEW r \in Clients, NEW f \in Up[c] \union Past[r]
    PROVE  Genuine(f)
<1>1. CASE f \in Up[c]
  BY <1>1 DEF Up, Range, IInv, UplinkGenuine
<1>2. CASE f \in Down[r]
  <2>1. Meant(f, r)
    BY <1>2 DEF Down, Range, IInv, DownlinkMeant
  <2> QED BY <2>1 DEF Meant, Genuine
<1>3. CASE f \in captured[r] \union handled[r]
  <2>1. Meant(f, r)
    BY <1>3 DEF IInv, CapturedMeant, Lines, HandledMeant
  <2> QED BY <2>1 DEF Meant, Genuine
<1> QED BY <1>1, <1>2, <1>3 DEF Past

LEMMA NewKey ==
    ASSUME IInv, NEW c \in Clients, NEW n \in sent
    PROVE  Key(n) # <<c, sequence[c]>>
<1>1. n.from \in Clients /\ n.seq \in Nat /\ n.seq < sequence[n.from]
  BY DEF IInv, SentApart, TypeOK, Message
<1>2. sequence[c] \in Nat
  BY DEF IInv, TypeOK
<1> QED BY <1>1, <1>2 DEF Key

LEMMA InitLines == Init => Lines
<1> SUFFICES ASSUME Init PROVE Lines
  OBVIOUS
<1>1. \A c \in Clients : /\ uplink[c] = <<>> /\ downlink[c] = <<>> /\ captured[c] = {}
                         /\ handled[c] = {} /\ sending[c] = {}
  BY DEF Init
<1>2. \A c \in Clients : Up[c] = {} /\ Down[c] = {} /\ Past[c] = {}
  BY <1>1 DEF Up, Down, Past, Range
<1>3. NoRepeats
  BY <1>1 DEF NoRepeats, IsInjective
<1> QED
  BY <1>1, <1>2, <1>3 DEF Lines, HandledMeant, OwnLines, OneCall, InOrder, OnePlace

LEMMA HandledFrame ==
    ASSUME HandledMeant, sent \subseteq sent', UNCHANGED handled
    PROVE  HandledMeant'
BY DEF HandledMeant, Meant

LEMMA LinesFrame ==
    ASSUME Lines, sent \subseteq sent', UNCHANGED <<sending, uplink, downlink, captured, handled>>
    PROVE  Lines'
<1>1. UNCHANGED <<Up, Down, Past>>
  BY DEF Up, Down, Past
<1> QED
  BY <1>1, HandledFrame DEF Lines, OwnLines, OneCall, InOrder, NoRepeats, OnePlace

LEMMA StartSendLines ==
    ASSUME IInv, Lines, NEW c \in Clients, StartSend(c)
    PROVE  Lines'
<1>1. PICK q \in Requests :
        LET m == [from |-> c, seq |-> sequence[c], channel |-> q.channel, to |-> q.to,
                  loopback |-> q.loopback, size |-> q.size]
        IN  IF Pieces(m) = <<>>
              THEN UNCHANGED <<sending, sent>>
              ELSE /\ sending' = [sending EXCEPT ![c] = @ \union {[msg |-> m, next |-> 1]}]
                   /\ sent' = sent \union {m}
  BY DEF StartSend
<1> DEFINE m == [from |-> c, seq |-> sequence[c], channel |-> q.channel, to |-> q.to,
                 loopback |-> q.loopback, size |-> q.size]
           call == [msg |-> m, next |-> 1]
<1>2. m.from = c /\ Key(m) = <<c, sequence[c]>> /\ call.msg = m
  BY DEF Key
<1>3. UNCHANGED <<uplink, downlink, captured, handled>>
  BY DEF StartSend, receiveVars
<1>4. \/ UNCHANGED <<sending, sent>>
      \/ sending' = [sending EXCEPT ![c] = @ \union {call}] /\ sent' = sent \union {m}
  BY <1>1
<1> HIDE DEF m, call
<1>5. sent \subseteq sent' /\ UNCHANGED <<Up, Down, Past>>
  BY <1>3, <1>4 DEF Up, Down, Past
<1>6. CASE UNCHANGED sending
  BY <1>3, <1>5, <1>6, LinesFrame
<1>7. CASE sending' = [sending EXCEPT ![c] = @ \union {call}]
  <2>1. /\ sending'[c] = sending[c] \union {call}
        /\ \A d \in Clients : d # c => sending'[d] = sending[d]
    BY <1>7 DEF IInv, TypeOK
  <2>2. \A n \in sent : Key(n) # Key(m)
    BY <1>2, NewKey
  <2>3. \A d \in Clients : \A s \in sending[d] : s.msg \in sent
    BY DEF IInv, SendingSent
  <2>4. OwnLines' /\ OneCall'
    <3>1. \A s \in sending[c] : s.msg # call.msg
      BY <1>2, <2>2, <2>3
    <3> QED BY <1>2, <1>5, <2>1, <3>1 DEF Lines, OwnLines, OneCall
  <2>5. InOrder'
    <3> SUFFICES ASSUME NEW d \in Clients, NEW r \in Clients, NEW s \in sending'[d],
                        NEW f \in Up[d] \union Past[r], KeyOf(f) = Key(s.msg)
                 PROVE  f.part < s.next
      BY <1>5 DEF InOrder
    <3>1. CASE s \in sending[d]
      BY <3>1 DEF Lines, InOrder
    <3>2. CASE s = call
      <4>1. Genuine(f)
        BY AllGenuine
      <4>2. PICK n \in sent : KeyOf(f) = Key(n)
        BY <4>1, FieldsOf DEF Genuine
      <4> QED BY <1>2, <2>2, <3>2, <4>2
    <3> QED BY <2>1, <3>1, <3>2
  <2>6. NoRepeats' /\ OnePlace'
    BY <1>3, <1>5 DEF Lines, NoRepeats, OnePlace
  <2> QED BY <1>3, <1>5, <2>4, <2>5, <2>6, HandledFrame DEF Lines
<1> QED BY <1>4, <1>6, <1>7

LEMMA SendFragmentLines ==
    ASSUME IInv, Lines, NEW c \in Clients, SendFragment(c)
    PROVE  Lines'
<1>1. PICK s \in sending[c] :
        LET rest == sending[c] \ {s} IN
        /\ uplink' = [uplink EXCEPT ![c] = Append(@, Fragment(s.msg, s.next))]
        /\ IF s.next < Len(Pieces(s.msg))
             THEN /\ sending' = [sending EXCEPT ![c] = rest \union {[s EXCEPT !.next = @ + 1]}]
                  /\ UNCHANGED accepted
             ELSE /\ sending' = [sending EXCEPT ![c] = rest]
                  /\ accepted' = accepted \union {s.msg}
  BY DEF SendFragment
<1>2. UNCHANGED <<sent, downlink, captured, handled>>
  BY DEF SendFragment, receiveVars
<1>3. /\ s \in [msg : Message, next : Nat] /\ s.msg \in sent /\ s.msg \in Message
      /\ s.next \in DOMAIN Pieces(s.msg) /\ s.next \in Nat /\ s.msg.from = c
  BY DEF IInv, SendingSent, TypeOK, Lines, OwnLines
<1> DEFINE f  == Fragment(s.msg, s.next)
           s1 == [s EXCEPT !.next = @ + 1]
<1>4. /\ f \in FragmentType /\ KeyOf(f) = Key(s.msg) /\ f.sender = c /\ f.part = s.next
      /\ s1.msg = s.msg /\ s1.next = s.next + 1
  BY <1>3, FragmentTyped, FieldsOf
<1>5. \/ sending' = [sending EXCEPT ![c] = (sending[c] \ {s}) \union {s1}]
      \/ sending' = [sending EXCEPT ![c] = sending[c] \ {s}]
  BY <1>1
<1> HIDE DEF f, s1
<1>6. uplink' = [uplink EXCEPT ![c] = Append(@, f)]
  BY <1>1 DEF f
<1>7. /\ uplink \in [Clients -> Seq(FragmentType)]
      /\ sending \in [Clients -> SUBSET [msg : Message, next : Nat]]
  BY DEF IInv, TypeOK
<1>8. \A d \in Clients : sending'[d] \subseteq sending[d] \union (IF d = c THEN {s1} ELSE {})
  BY <1>5, <1>7
<1>9. s \notin sending'[c]
  <2>1. s # s1
    BY <1>3, <1>4
  <2> QED BY <1>5, <1>7, <2>1
<1>10. \A r \in Clients : f \notin Up[c] \union Past[r]
  BY <1>3, <1>4 DEF Lines, InOrder
<1>11. /\ Up'[c] = Up[c] \union {f} /\ \A d \in Clients : d # c => Up'[d] = Up[d]
       /\ UNCHANGED <<Down, Past>>
       /\ IsInjective(uplink'[c])
       /\ \A d \in Clients : d # c => uplink'[d] = uplink[d]
  <2>1. uplink'[c] = Append(uplink[c], f) /\ \A d \in Clients : d # c => uplink'[d] = uplink[d]
    BY <1>6, <1>7
  <2>2. uplink[c] \in Seq(FragmentType) /\ IsInjective(uplink[c]) /\ f \notin Range(uplink[c])
    BY <1>7, <1>10 DEF Lines, NoRepeats, Up
  <2>3. Range(uplink'[c]) = Range(uplink[c]) \union {f} /\ IsInjective(uplink'[c])
    BY <1>4, <2>1, <2>2, PutOn
  <2> QED BY <1>2, <2>1, <2>3 DEF Up, Down, Past
<1>12. OwnLines'
  BY <1>3, <1>4, <1>8, <1>11 DEF Lines, OwnLines
<1>13. OneCall'
  <2> SUFFICES ASSUME NEW d \in Clients, NEW x \in sending'[d], NEW z \in sending'[d],
                      x.msg = z.msg
               PROVE  x = z
    BY DEF OneCall
  <2>1. CASE x \in sending[d] /\ z \in sending[d]
    BY <2>1 DEF Lines, OneCall
  <2>2. CASE d = c /\ x = s1 /\ z \in sending[d]
    <3>1. z = s
      BY <1>4, <2>2 DEF Lines, OneCall
    <3> QED BY <1>9, <2>2, <3>1
  <2>3. CASE d = c /\ z = s1 /\ x \in sending[d]
    <3>1. x = s
      BY <1>4, <2>3 DEF Lines, OneCall
    <3> QED BY <1>9, <2>3, <3>1
  <2> QED BY <1>8, <2>1, <2>2, <2>3
<1>14. InOrder'
  <2> SUFFICES ASSUME NEW d \in Clients, NEW r \in Clients, NEW x \in sending'[d],
                      NEW g \in Up'[d] \union Past'[r], KeyOf(g) = Key(x.msg)
               PROVE  g.part < x.next
    BY DEF InOrder
  <2>1. CASE x \in sending[d] /\ g \in Up[d] \union Past[r]
    BY <2>1 DEF Lines, InOrder
  <2>2. CASE x \in sending[d] /\ d = c /\ g = f
    <3>1. x.msg \in sent
      BY <2>2 DEF IInv, SendingSent
    <3>2. x.msg = s.msg
      BY <1>3, <1>4, <2>2, <3>1 DEF IInv, SentApart
    <3>3. x = s
      BY <2>2, <3>2 DEF Lines, OneCall
    <3> QED BY <1>9, <2>2, <3>3
  <2>3. CASE x = s1 /\ d = c /\ g \in Up[d] \union Past[r]
    <3>1. g.part < s.next
      BY <1>4, <2>3 DEF Lines, InOrder
    <3>2. Genuine(g)
      BY <2>3, AllGenuine
    <3>3. PICK n \in sent : \E i \in DOMAIN Pieces(n) : g = Fragment(n, i)
      BY <3>2 DEF Genuine
    <3>4. g.part \in Nat
      <4>1. n \in Message /\ Pieces(n) \in Seq(PieceText)
        BY PiecesTyped DEF IInv, TypeOK
      <4> QED BY <3>3, <4>1, FieldsOf
    <3> QED BY <1>3, <1>4, <2>3, <3>1, <3>4
  <2>4. CASE x = s1 /\ d = c /\ g = f
    BY <1>3, <1>4, <2>4
  <2> QED BY <1>8, <1>11, <2>1, <2>2, <2>3, <2>4
<1>15. NoRepeats'
  BY <1>2, <1>11 DEF Lines, NoRepeats
<1>16. OnePlace'
  BY <1>2, <1>10, <1>11 DEF Lines, OnePlace
<1> QED BY <1>2, <1>12, <1>13, <1>14, <1>15, <1>16, HandledFrame DEF Lines

LEMMA SendFailsLines ==
    ASSUME IInv, Lines, NEW c \in Clients, SendFails(c)
    PROVE  Lines'
<1>1. PICK s \in sending[c] : sending' = [sending EXCEPT ![c] = @ \ {s}]
  BY DEF SendFails
<1>2. UNCHANGED <<sent, uplink, downlink, captured, handled>>
  BY DEF SendFails, receiveVars
<1>3. \A d \in Clients : sending'[d] \subseteq sending[d]
  BY <1>1 DEF IInv, TypeOK
<1>4. UNCHANGED <<Up, Down, Past>>
  BY <1>2 DEF Up, Down, Past
<1> QED
  BY <1>2, <1>3, <1>4, HandledFrame DEF Lines, OwnLines, OneCall, InOrder, NoRepeats, OnePlace

LEMMA RelayLines ==
    ASSUME IInv, Lines, NEW c \in Clients, Relay(c)
    PROVE  Lines'
<1> DEFINE f == Head(uplink[c])
           to == IF c \in present /\ f.channel \in RelayChannels
                   THEN Addressees(f) \intersect present ELSE {}
<1>1. /\ uplink[c] # <<>>
      /\ uplink' = [uplink EXCEPT ![c] = Tail(@)]
      /\ downlink' = [r \in Clients |->
            IF r \in to THEN Append(downlink[r], f) ELSE downlink[r]]
      /\ UNCHANGED <<sending, sent, captured, handled>>
  BY DEF Relay, sendVars, receiveVars
<1> HIDE DEF to
<1>2. /\ uplink \in [Clients -> Seq(FragmentType)] /\ f \in FragmentType
      /\ downlink \in [Clients -> Seq(FragmentType)]
  BY <1>1 DEF IInv, TypeOK
<1> HIDE DEF f
<1>3. /\ f \in Up[c] /\ Up'[c] = Up[c] \ {f} /\ IsInjective(uplink'[c])
      /\ \A d \in Clients : d # c => Up'[d] = Up[d] /\ uplink'[d] = uplink[d]
  <2>1. uplink'[c] = Tail(uplink[c]) /\ \A d \in Clients : d # c => uplink'[d] = uplink[d]
    BY <1>1, <1>2
  <2>2. /\ f \in Range(uplink[c]) /\ IsInjective(uplink'[c])
        /\ Range(uplink'[c]) = Range(uplink[c]) \ {f}
    BY <1>1, <1>2, <2>1, TakenOff DEF Lines, NoRepeats, f
  <2> QED BY <2>1, <2>2 DEF Up
<1>4. /\ f.sender = c
      /\ \A r \in Clients : f \notin Past[r]
      /\ \A d \in Clients : d # c => f \notin Up[d]
  BY <1>3 DEF Lines, OwnLines, OnePlace
<1>5. \A r \in Clients : /\ Down'[r] = Down[r] \union (IF r \in to THEN {f} ELSE {})
                         /\ IsInjective(downlink'[r])
  <2> SUFFICES ASSUME NEW r \in Clients
               PROVE  /\ Down'[r] = Down[r] \union (IF r \in to THEN {f} ELSE {})
                      /\ IsInjective(downlink'[r])
    OBVIOUS
  <2>1. /\ downlink[r] \in Seq(FragmentType) /\ IsInjective(downlink[r])
        /\ f \notin Range(downlink[r])
    BY <1>2, <1>4 DEF Lines, NoRepeats, Past, Down
  <2>2. CASE r \in to
    <3>1. downlink'[r] = Append(downlink[r], f)
      BY <1>1, <2>2
    <3>2. Range(downlink'[r]) = Range(downlink[r]) \union {f} /\ IsInjective(downlink'[r])
      BY <1>2, <2>1, <3>1, PutOn
    <3> QED BY <2>2, <3>2 DEF Down
  <2>3. CASE r \notin to
    <3>1. downlink'[r] = downlink[r]
      BY <1>1, <2>3
    <3> QED BY <2>1, <2>3, <3>1 DEF Down
  <2> QED BY <2>2, <2>3
<1>6. \A r \in Clients : Past'[r] \subseteq Past[r] \union {f}
  BY <1>1, <1>5 DEF Past
<1>7. OwnLines' /\ OneCall'
  BY <1>1, <1>3 DEF Lines, OwnLines, OneCall
<1>8. InOrder'
  <2> SUFFICES ASSUME NEW d \in Clients, NEW r \in Clients, NEW s \in sending[d],
                      NEW g \in Up'[d] \union Past'[r], KeyOf(g) = Key(s.msg)
               PROVE  g.part < s.next
    BY <1>1 DEF InOrder
  <2>1. CASE g \in Up[d] \union Past[r]
    BY <2>1 DEF Lines, InOrder
  <2>2. CASE g = f
    <3>1. s.msg.from = d /\ KeyOf(f) = <<c, f.id>>
      BY <1>4 DEF Lines, OwnLines, KeyOf
    <3>2. d = c
      BY <2>2, <3>1 DEF Key
    <3> QED BY <1>3, <2>2, <3>2 DEF Lines, InOrder
  <2> QED BY <1>3, <1>6, <2>1, <2>2
<1>9. NoRepeats'
  BY <1>3, <1>5 DEF Lines, NoRepeats
<1>10. OnePlace'
  <2>1. \A d, r \in Clients : Up'[d] \intersect Past'[r] = {}
    BY <1>3, <1>4, <1>6 DEF Lines, OnePlace
  <2>2. \A r \in Clients : f \notin captured[r] \union handled[r]
    BY <1>4 DEF Past
  <2>3. \A r \in Clients : Down'[r] \intersect (captured'[r] \union handled'[r]) = {}
    BY <1>1, <1>5, <2>2 DEF Lines, OnePlace
  <2> QED BY <1>1, <2>1, <2>3 DEF Lines, OnePlace
<1> QED BY <1>1, <1>7, <1>8, <1>9, <1>10, HandledFrame DEF Lines

LEMMA CaptureLines ==
    ASSUME IInv, Lines, NEW c \in Clients, Capture(c)
    PROVE  Lines'
<1> DEFINE f == Head(downlink[c])
<1>1. /\ downlink[c] # <<>>
      /\ downlink' = [downlink EXCEPT ![c] = Tail(@)]
      /\ captured' = captured \/ captured' = [captured EXCEPT ![c] = @ \union {f}]
      /\ UNCHANGED <<sending, sent, uplink, handled>>
  BY DEF Capture, sendVars
<1>2. /\ downlink \in [Clients -> Seq(FragmentType)]
      /\ captured \in [Clients -> SUBSET FragmentType]
  BY DEF IInv, TypeOK
<1>3. /\ f \in Down[c] /\ Down'[c] = Down[c] \ {f} /\ IsInjective(downlink'[c])
      /\ \A d \in Clients : d # c => Down'[d] = Down[d] /\ downlink'[d] = downlink[d]
  <2>1. downlink'[c] = Tail(downlink[c]) /\ \A d \in Clients : d # c => downlink'[d] = downlink[d]
    BY <1>1, <1>2
  <2>2. /\ f \in Range(downlink[c]) /\ IsInjective(downlink'[c])
        /\ Range(downlink'[c]) = Range(downlink[c]) \ {f}
    BY <1>1, <1>2, <2>1, TakenOff DEF Lines, NoRepeats
  <2> QED BY <2>1, <2>2 DEF Down
<1> HIDE DEF f
<1>4. \A r \in Clients : captured'[r] \subseteq captured[r] \union (IF r = c THEN {f} ELSE {})
  BY <1>1, <1>2
<1>5. Up' = Up
  BY <1>1 DEF Up
<1>6. \A r \in Clients : Past'[r] \subseteq Past[r]
  BY <1>1, <1>3, <1>4 DEF Past
<1>7. OwnLines' /\ OneCall'
  BY <1>1, <1>5 DEF Lines, OwnLines, OneCall
<1>8. InOrder'
  BY <1>1, <1>5, <1>6 DEF Lines, InOrder
<1>9. NoRepeats'
  BY <1>1, <1>3 DEF Lines, NoRepeats
<1>10. OnePlace'
  <2>1. f \notin handled[c]
    BY <1>3 DEF Lines, OnePlace
  <2>2. \A d, r \in Clients : Up'[d] \intersect Past'[r] = {}
    BY <1>5, <1>6 DEF Lines, OnePlace
  <2>3. \A r \in Clients : Down'[r] \intersect (captured'[r] \union handled'[r]) = {}
    BY <1>1, <1>3, <1>4 DEF Lines, OnePlace
  <2>4. \A r \in Clients : captured'[r] \intersect handled'[r] = {}
    BY <1>1, <1>4, <2>1 DEF Lines, OnePlace
  <2> QED BY <2>2, <2>3, <2>4 DEF OnePlace
<1> QED BY <1>1, <1>7, <1>8, <1>9, <1>10, HandledFrame DEF Lines

LEMMA DeliverLines ==
    ASSUME IInv, Lines, NEW c \in Clients, Deliver(c)
    PROVE  Lines'
<1>1. PICK f \in captured[c] : /\ captured' = [captured EXCEPT ![c] = @ \ {f}]
                               /\ handled' = [handled EXCEPT ![c] = @ \union {f}]
  BY DEF Deliver
<1>2. UNCHANGED <<sending, sent, uplink, downlink>>
  BY DEF Deliver, sendVars
<1>3. /\ captured'[c] = captured[c] \ {f} /\ handled'[c] = handled[c] \union {f}
      /\ \A r \in Clients : r # c => captured'[r] = captured[r] /\ handled'[r] = handled[r]
  BY <1>1 DEF IInv, TypeOK
<1>4. UNCHANGED <<Up, Down>> /\ \A r \in Clients : Past'[r] = Past[r]
  BY <1>2, <1>3 DEF Up, Down, Past
<1>5. HandledMeant'
  <2>1. \A r \in Clients : \A g \in handled'[r] : Meant(g, r)
    BY <1>3 DEF IInv, CapturedMeant, Lines, HandledMeant
  <2> QED BY <1>2, <2>1 DEF HandledMeant, Meant
<1>6. OwnLines' /\ OneCall' /\ InOrder' /\ NoRepeats'
  BY <1>2, <1>4 DEF Lines, OwnLines, OneCall, InOrder, NoRepeats
<1>7. OnePlace'
  <2>1. f \notin Down[c]
    BY DEF Lines, OnePlace
  <2>2. \A r \in Clients : Down'[r] \intersect (captured'[r] \union handled'[r]) = {}
    BY <1>3, <1>4, <2>1 DEF Lines, OnePlace
  <2>3. \A r \in Clients : captured'[r] \intersect handled'[r] = {}
    BY <1>3 DEF Lines, OnePlace
  <2> QED BY <1>4, <2>2, <2>3 DEF Lines, OnePlace
<1> QED BY <1>5, <1>6, <1>7 DEF Lines

LEMMA StepLines == IInv /\ Lines /\ [Next]_vars => Lines'
<1> SUFFICES ASSUME IInv, Lines, [Next]_vars PROVE Lines'
  OBVIOUS
<1>1. ASSUME NEW c \in Clients, Leave(c) \/ Enter(c) \/ Tick(c) \/ Stop(c) PROVE Lines'
  <2>1. UNCHANGED <<sent, sending, uplink, downlink, captured, handled>>
    BY <1>1 DEF Leave, Enter, Tick, Stop, sendVars, receiveVars
  <2> QED BY <2>1, LinesFrame
<1>2. CASE UNCHANGED vars
  <2>1. UNCHANGED <<sent, sending, uplink, downlink, captured, handled>>
    BY <1>2 DEF vars, sendVars, receiveVars
  <2> QED BY <2>1, LinesFrame
<1> QED
  BY <1>1, <1>2, StartSendLines, SendFragmentLines, SendFailsLines, RelayLines, CaptureLines,
     DeliverLines DEF Next
-----------------------------------------------------------------------------
(* The accounts of a client.                                               *)

(* A set of natural numbers that is not empty has a least one.             *)
LEMMA LeastOf ==
    ASSUME NEW I \in SUBSET Nat, I # {}
    PROVE  \E x \in I : \A y \in I : x <= y
<1>1. PICK x \in I : \A y \in I : <<y, x>> \notin OpToRel(<, Nat)
  BY NatLessThanWellFounded, WFMin, Zenon
<1>2. \A y \in I : ~(y < x)
  BY <1>1 DEF OpToRel
<1> QED BY <1>2

(* The total of pieces that lie end to end is the length of the text: at   *)
(* every piece the running total is where that piece ends.                 *)
LEMMA TextLength ==
    ASSUME NEW p \in Seq(PieceText), NEW size \in Nat, Partition(p, size)
    PROVE  TotalChars(p) = size
<1> DEFINE n == Len(p)
           Step(t) == [i \in 0 .. n |-> IF i = 0 THEN 0 ELSE t[i - 1] + p[i].count]
           total == CHOOSE t : t = Step(t)
           end  == [i \in 0 .. n |-> IF i = 0 THEN 0 ELSE p[i].offset + p[i].count]
<1>1. TotalChars(p) = total[n]
  BY DEF TotalChars
<1>2. /\ n \in Nat \ {0} /\ DOMAIN p = 1 .. n
      /\ \A i \in 1 .. n : p[i].offset \in Nat /\ p[i].count \in Nat
      /\ p[1].offset = 0 /\ p[n].offset + p[n].count = size
      /\ \A i \in 1 .. n - 1 : p[i + 1].offset = p[i].offset + p[i].count
  <2>1. n \in Nat /\ DOMAIN p = 1 .. n /\ \A i \in 1 .. n : p[i] \in PieceText
    OBVIOUS
  <2>2. \A i \in 1 .. n : p[i].offset \in Nat /\ p[i].count \in Nat
    BY <2>1 DEF PieceText
  <2>3. n # 0
    BY DEF Partition
  <2> QED BY <2>1, <2>2, <2>3 DEF Partition
<1> HIDE DEF n
<1>3. \A i \in 1 .. n : end[i - 1] = p[i].offset
  <2> SUFFICES ASSUME NEW i \in 1 .. n PROVE end[i - 1] = p[i].offset
    OBVIOUS
  <2>1. CASE i = 1
    BY <1>2, <2>1
  <2>2. CASE i # 1
    <3>1. i - 1 \in 1 .. n - 1 /\ i - 1 \in 0 .. n /\ i - 1 # 0 /\ (i - 1) + 1 = i
      BY <1>2, <2>2
    <3>2. p[i].offset = p[i - 1].offset + p[i - 1].count
      BY <1>2, <3>1
    <3> QED BY <3>1, <3>2
  <2> QED BY <2>1, <2>2
<1>4. end = Step(end)
  <2>1. \A i \in 0 .. n : i # 0 => i \in 1 .. n
    BY <1>2
  <2> HIDE DEF end
  <2>2. end = [i \in 0 .. n |-> IF i = 0 THEN 0 ELSE p[i].offset + p[i].count]
    BY DEF end
  <2> QED BY <1>3, <2>1, <2>2
<1>5. total = Step(total)
  <2> HIDE DEF end, Step
  <2> QED BY <1>4
<1>6. \A i \in 0 .. n : total[i] = end[i]
  <2> DEFINE Bad == {i \in 0 .. n : total[i] # end[i]}
  <2>1. SUFFICES ASSUME Bad # {} PROVE FALSE
    OBVIOUS
  <2>2. PICK b \in Bad : \A c \in Bad : b <= c
    <3>1. Bad \subseteq Nat
      BY <1>2
    <3> HIDE DEF Bad
    <3> QED BY <2>1, <3>1, LeastOf
  <2>3. b \in 0 .. n /\ total[b] # end[b]
    OBVIOUS
  <2> HIDE DEF end, total, Step
  <2>4. b # 0
    BY <1>4, <1>5, <2>3 DEF Step
  <2>5. b - 1 \in 0 .. n /\ ~(b <= b - 1)
    BY <1>2, <2>3, <2>4
  <2>6. total[b - 1] = end[b - 1]
    BY <2>2, <2>5
  <2>7. total[b] = end[b]
    BY <1>4, <1>5, <2>3, <2>4, <2>6 DEF Step
  <2> QED BY <2>3, <2>7
<1>7. n \in 0 .. n /\ n # 0
  BY <1>2
<1> QED BY <1>1, <1>2, <1>6, <1>7

LEMMA ExcusedMore ==
    ASSUME NEW P, NEW H, NEW X, NEW Y, NEW D, Account(sent, P, H, X, D), X \subseteq Y
    PROVE  Account(sent, P, H, Y, D)
BY DEF Account, Expired, Entries, NoEntry, Finished

(* A new message changes nothing that its key has a part in.               *)
LEMMA SentMore ==
    ASSUME NEW M, NEW P, NEW H, NEW X, NEW D, NEW m, Account(M, P, H, X, D),
           Key(m) \notin DOMAIN P, Key(m) \notin KeysOf(D), \A i : Fragment(m, i) \notin H
    PROVE  Account(M \union {m}, P, H, X, D)
BY DEF Account, Entries, NoEntry, Finished

(* Time passes.                                                            *)
LEMMA GrownOlder ==
    ASSUME NEW P, IsTable(P), NEW H, NEW X, NEW D, Account(sent, P, H, X, D),
           NEW Y, Y = X \union {k \in DOMAIN P : P[k].age >= Lifetime}
    PROVE  Account(sent, Older(P), H, Y, D)
<1> DEFINE Q == Older(P)
<1>1. /\ DOMAIN Q = DOMAIN P
      /\ \A k \in DOMAIN P : /\ Q[k].payload = P[k].payload /\ Q[k].meta = P[k].meta
                             /\ Q[k].age > Lifetime => P[k].age >= Lifetime
  <2>1. \A k \in DOMAIN P :
          Q[k] = [P[k] EXCEPT !.age = IF @ > Lifetime THEN @ ELSE @ + 1]
    BY DEF Older
  <2>2. ASSUME NEW k \in DOMAIN P
        PROVE  /\ Q[k].payload = P[k].payload /\ Q[k].meta = P[k].meta
               /\ Q[k].age > Lifetime => P[k].age >= Lifetime
    <3>1. P[k] \in Entry
      BY DEF IsTable
    <3> DEFINE e == P[k]
               a == IF e.age > Lifetime THEN e.age ELSE e.age + 1
    <3>2. e.age \in Nat /\ (a > Lifetime => e.age >= Lifetime)
      BY <3>1, ReassemblyAssumption DEF Entry
    <3>3. Q[k] = [meta |-> e.meta, payload |-> e.payload, age |-> a]
      BY <2>1, <3>1 DEF Entry
    <3> HIDE DEF a
    <3> QED BY <3>2, <3>3
  <2> QED BY <2>2 DEF Older
<1> HIDE DEF Q
<1>2. Expired(Q, Y)
  BY <1>1 DEF Expired
<1>3. Entries(sent, Q, H, Y)
  BY <1>1 DEF Account, Entries, IsComplete
<1>4. NoEntry(sent, Q, H, Y, D) /\ Finished(sent, Q, H, D)
  BY <1>1 DEF Account, NoEntry, Finished
<1> QED BY <1>2, <1>3, <1>4 DEF Account, Q

(* The table is cleared.                                                   *)
LEMMA Cleared ==
    ASSUME NEW P, NEW H, NEW X, NEW D, Account(sent, P, H, X, D),
           NEW Y, Y = X \union DOMAIN P
    PROVE  Account(sent, EmptyTable, H, Y, D)
<1>1. DOMAIN EmptyTable = {}
  BY DEF EmptyTable
<1> QED BY <1>1 DEF Account, Expired, Entries, NoEntry, Finished

(* What the cleanup drops is expired, or the table was too large.          *)
LEMMA DroppedByCleanup ==
    ASSUME NEW P, IsTable(P), IsFiniteSet(DOMAIN P), NEW t \in Cleanups(P),
           NEW k \in DOMAIN P \ DOMAIN t
    PROVE  P[k].age > Lifetime \/ Cardinality(DOMAIN P) > MaxPending
<1>1. PICK kept \in SUBSET Alive(P) :
        /\ t = Restrict(P, kept)
        /\ \/ kept = Alive(P) /\ Cardinality(kept) <= MaxPending
           \/ Cardinality(Alive(P)) > MaxPending /\ Cardinality(kept) = MaxPending
  BY DEF Cleanups
<1>2. DOMAIN t = kept
  BY <1>1 DEF Restrict
<1>3. CASE kept = Alive(P)
  <2>1. ~(P[k].age <= Lifetime)
    BY <1>2, <1>3 DEF Alive
  <2>2. P[k].age \in Nat
    BY DEF IsTable, Entry
  <2> QED BY <2>1, <2>2, ReassemblyAssumption
<1>4. CASE Cardinality(Alive(P)) > MaxPending
  <2>1. Alive(P) \subseteq DOMAIN P
    BY DEF Alive
  <2>2. /\ IsFiniteSet(Alive(P)) /\ Cardinality(Alive(P)) <= Cardinality(DOMAIN P)
    BY <2>1, FS_Subset
  <2>3. Cardinality(Alive(P)) \in Nat /\ Cardinality(DOMAIN P) \in Nat
    BY <2>2, FS_CardinalityType
  <2> QED BY <1>4, <2>2, <2>3, ReassemblyAssumption
<1> QED BY <1>1, <1>3, <1>4

(* The entry e of part i of m, once the fragment f is in its place.        *)
FilledUp(e, t, f, m, i) ==
    /\ e.age = 0
    /\ e.meta = EntryFor(t, f).meta
    /\ EntryFor(t, f).meta = IF Key(m) \in DOMAIN t THEN t[Key(m)].meta ELSE MetaOf(f)
    /\ DOMAIN e.payload = DOMAIN Pieces(m)
    /\ e.payload[i] = Pieces(m)[i] /\ Pieces(m)[i] # NoPiece
    /\ \A j \in DOMAIN Pieces(m) : j # i =>
         e.payload[j] = IF Key(m) \in DOMAIN t THEN t[Key(m)].payload[j] ELSE NoPiece

LEMMA FilledEntry ==
    ASSUME SentApart, sent \subseteq Message, NEW r, NEW t, IsTable(t),
           \A k \in DOMAIN t : PartOf(t[k], k, r),
           NEW m \in sent, NEW i \in DOMAIN Pieces(m), NEW f, f = Fragment(m, i)
    PROVE  FilledUp(Filled(t, f), t, f, m, i)
<1> DEFINE e0 == EntryFor(t, f)
           e  == Filled(t, f)
<1>1. /\ KeyOf(f) = Key(m) /\ f.part = i /\ f.piece = Pieces(m)[i]
      /\ f.parts = Len(Pieces(m))
  BY FieldsOf DEF Fragment
<1>2. /\ DOMAIN Pieces(m) = 1 .. Len(Pieces(m)) /\ Pieces(m)[i] # NoPiece
  <2>1. Pieces(m) \in Seq(PieceText)
    BY PiecesTyped
  <2>2. Pieces(m)[i] \in PieceText
    BY <2>1
  <2> QED BY <2>1, <2>2, NoPieceAssumption
<1>3. CASE Key(m) \in DOMAIN t
  <2>1. e0 = t[Key(m)] /\ e0 \in Entry
    BY <1>1, <1>3 DEF EntryFor, IsTable
  <2>2. PICK n \in sent : Key(n) = Key(m) /\ DOMAIN e0.payload = DOMAIN Pieces(n)
    BY <1>3, <2>1 DEF PartOf
  <2>3. DOMAIN e0.payload = DOMAIN Pieces(m)
    BY <2>2 DEF SentApart
  <2> HIDE DEF e0
  <2>4. e = [e0 EXCEPT !.payload[i] = Pieces(m)[i], !.age = 0]
    BY <1>1 DEF Filled, e0
  <2>5. e = [meta |-> e0.meta, payload |-> [e0.payload EXCEPT ![i] = Pieces(m)[i]], age |-> 0]
    BY <2>1, <2>4 DEF Entry
  <2> HIDE DEF e
  <2> QED BY <1>2, <1>3, <2>1, <2>3, <2>5 DEF FilledUp, e, e0
<1>4. CASE Key(m) \notin DOMAIN t
  <2>1. e0 = [meta |-> MetaOf(f), payload |-> [j \in 1 .. f.parts |-> NoPiece], age |-> 0]
    BY <1>1, <1>4 DEF EntryFor
  <2> HIDE DEF e0
  <2>2. e = [e0 EXCEPT !.payload[i] = Pieces(m)[i], !.age = 0]
    BY <1>1 DEF Filled, e0
  <2>3. e = [meta |-> MetaOf(f), age |-> 0,
             payload |-> [[j \in 1 .. f.parts |-> NoPiece] EXCEPT ![i] = Pieces(m)[i]]]
    BY <2>1, <2>2
  <2> HIDE DEF e
  <2> QED BY <1>1, <1>2, <1>4, <2>1, <2>3 DEF FilledUp, e, e0
<1> QED BY <1>3, <1>4

LEMMA KeysAppended ==
    ASSUME NEW S, NEW D \in Seq(S), NEW d \in S
    PROVE  KeysOf(Append(D, d)) = KeysOf(D) \union {<<d.sender, d.seq>>}
<1>1. Range(Append(D, d)) = Range(D) \union {d}
  BY PutOn
<1> QED BY <1>1 DEF KeysOf

LEMMA KeysApart ==
    ASSUME NEW S, NEW D \in Seq(S), NEW d \in S,
           \A i, j \in DOMAIN D : i # j => KeyAt(D, i) # KeyAt(D, j),
           <<d.sender, d.seq>> \notin KeysOf(D)
    PROVE  \A i, j \in DOMAIN Append(D, d) : i # j =>
               KeyAt(Append(D, d), i) # KeyAt(Append(D, d), j)
<1> DEFINE E == Append(D, d)
           n == Len(D)
<1>1. /\ n \in Nat /\ DOMAIN D = 1 .. n /\ DOMAIN E = 1 .. n + 1
      /\ \A i \in 1 .. n : E[i] = D[i]
      /\ E[n + 1] = d
  OBVIOUS
<1> HIDE DEF E, n
<1>2. \A i \in 1 .. n : KeyAt(E, i) = KeyAt(D, i) /\ KeyAt(D, i) \in KeysOf(D)
  BY <1>1 DEF KeyAt, KeysOf, Range
<1>3. KeyAt(E, n + 1) = <<d.sender, d.seq>>
  BY <1>1 DEF KeyAt
<1>4. \A i \in DOMAIN E : i \in 1 .. n \/ i = n + 1
  BY <1>1
<1>5. ASSUME NEW i \in DOMAIN E, NEW j \in DOMAIN E, i # j
      PROVE  KeyAt(E, i) # KeyAt(E, j)
  <2>1. CASE i \in 1 .. n /\ j \in 1 .. n
    BY <1>1, <1>2, <1>5, <2>1
  <2>2. CASE i = n + 1 /\ j \in 1 .. n
    BY <1>2, <1>3, <2>2
  <2>3. CASE j = n + 1 /\ i \in 1 .. n
    BY <1>2, <1>3, <2>3
  <2> QED BY <1>4, <1>5, <2>1, <2>2, <2>3
<1> QED BY <1>5 DEF E

LEMMA FragmentAdded ==
    ASSUME SentApart, sent \subseteq Message, SizesLegal,
           NEW r \in Clients, NEW P, IsTable(P), IsFiniteSet(DOMAIN P),
           \A k \in DOMAIN P : PartOf(P[k], k, r),
           NEW H, NEW X, NEW S, NEW D \in Seq(S), Account(sent, P, H, X, D),
           NEW m \in sent, MeantFor(m, r), NEW i \in DOMAIN Pieces(m),
           NEW f, f = Fragment(m, i), f \notin H,
           NEW t \in Cleanups(P),
           NEW d, Completes(t, f) => d \in S, d.sender = f.sender, d.seq = f.seq,
           NEW E, E = IF Completes(t, f) THEN Append(D, d) ELSE D,
           NEW Y, Y = IF Cardinality(DOMAIN P) > MaxPending THEN X \union DOMAIN P ELSE X
    PROVE  Account(sent, AddFragment(t, f), H \union {f}, Y, E)
<1> DEFINE u == AddFragment(t, f)
           e == Filled(t, f)
           k == Key(m)
           G == H \union {f}
<1>1. /\ IsTable(t) /\ DOMAIN t \subseteq DOMAIN P
      /\ \A x \in DOMAIN t : t[x] = P[x]
  BY CleanedTable
<1>2. \A x \in DOMAIN t : PartOf(t[x], x, r)
  BY <1>1
<1>3. /\ e.age = 0 /\ e.meta = EntryFor(t, f).meta
      /\ EntryFor(t, f).meta = IF k \in DOMAIN t THEN t[k].meta ELSE MetaOf(f)
      /\ DOMAIN e.payload = DOMAIN Pieces(m)
      /\ e.payload[i] = Pieces(m)[i] /\ Pieces(m)[i] # NoPiece
      /\ \A j \in DOMAIN Pieces(m) : j # i =>
           e.payload[j] = IF k \in DOMAIN t THEN t[k].payload[j] ELSE NoPiece
  <2>1. FilledUp(Filled(t, f), t, f, m, i)
    BY <1>1, <1>2, FilledEntry
  <2> QED BY <2>1 DEF FilledUp
<1>4. MetaOf(f) = MetaOf(Fragment(m, 1))
  BY DEF MetaOf, Fragment
<1>5. Matches(t, f) /\ e.meta = MetaOf(Fragment(m, 1))
  BY <1>1, <1>3, <1>4 DEF Account, Entries, Matches
<1>6. KeyOf(f) = k /\ <<d.sender, d.seq>> = k
  BY FieldsOf DEF Fragment, Key
<1>7. k \notin KeysOf(D)
  BY DEF Account, Finished, Fragments
<1>8. X \subseteq Y /\ \A x \in DOMAIN P \ DOMAIN t : x \in Y
  BY DroppedByCleanup DEF Account, Expired
<1>9. /\ \A n \in sent : n # m => \A j : Fragment(n, j) \in G => Fragment(n, j) \in H
      /\ \A j : Fragment(m, j) \in G => Fragment(m, j) \in H \/ j = i
      /\ H \subseteq G /\ f \in G
  BY WhichPart
<1>10. \A n \in sent : n # m => Key(n) # k
  BY DEF SentApart
<1> HIDE DEF u, e, k, G
(* Fragments of other messages: what is known of them stays.               *)
<1>11. ASSUME DOMAIN u \union {k} = DOMAIN t \union {k},
              \A x \in DOMAIN u : x # k => u[x] = t[x],
              KeysOf(E) \subseteq KeysOf(D) \union {k}, KeysOf(D) \subseteq KeysOf(E)
       PROVE  \A n \in sent : n # m =>
                /\ Key(n) \in DOMAIN u =>
                     /\ u[Key(n)].meta = MetaOf(Fragment(n, 1)) /\ ~IsComplete(u[Key(n)])
                     /\ \A j \in DOMAIN Pieces(n) :
                          /\ u[Key(n)].payload[j] # NoPiece => Fragment(n, j) \in G
                          /\ Fragment(n, j) \in G => u[Key(n)].payload[j] # NoPiece \/ Key(n) \in Y
                /\ Key(n) \notin KeysOf(E) \union Y \union DOMAIN u =>
                     \A j \in DOMAIN Pieces(n) : Fragment(n, j) \notin G
                /\ Key(n) \in KeysOf(E) => Fragments(n) \subseteq G
  <2> SUFFICES ASSUME NEW n \in sent, n # m
               PROVE
                /\ Key(n) \in DOMAIN u =>
                     /\ u[Key(n)].meta = MetaOf(Fragment(n, 1)) /\ ~IsComplete(u[Key(n)])
                     /\ \A j \in DOMAIN Pieces(n) :
                          /\ u[Key(n)].payload[j] # NoPiece => Fragment(n, j) \in G
                          /\ Fragment(n, j) \in G => u[Key(n)].payload[j] # NoPiece \/ Key(n) \in Y
                /\ Key(n) \notin KeysOf(E) \union Y \union DOMAIN u =>
                     \A j \in DOMAIN Pieces(n) : Fragment(n, j) \notin G
                /\ Key(n) \in KeysOf(E) => Fragments(n) \subseteq G
    OBVIOUS
  <2>1. Key(n) # k
    BY <1>10
  <2>2. CASE Key(n) \in DOMAIN u
    <3>1. Key(n) \in DOMAIN P /\ u[Key(n)] = P[Key(n)]
      BY <1>1, <1>11, <2>1, <2>2
    <3> QED BY <1>8, <1>9, <1>11, <2>1, <2>2, <3>1 DEF Account, Entries, Finished
  <2>3. CASE Key(n) \notin DOMAIN u
    <3>1. Key(n) \notin DOMAIN t
      BY <1>11, <2>1, <2>3
    <3>2. Key(n) \notin KeysOf(E) \union Y => Key(n) \notin KeysOf(D) \union X \union DOMAIN P
      BY <1>8, <1>11, <3>1
    <3>3. Key(n) \in KeysOf(E) => Key(n) \in KeysOf(D)
      BY <1>11, <2>1
    <3> QED BY <1>9, <2>3, <3>2, <3>3 DEF Account, NoEntry, Finished
  <2> QED BY <2>2, <2>3
<1>12. CASE IsComplete(e)
  <2>1. \A j \in DOMAIN Pieces(m) : Fragment(m, j) \in G
    <3> SUFFICES ASSUME NEW j \in DOMAIN Pieces(m), j # i PROVE Fragment(m, j) \in G
      BY <1>9
    <3>1. e.payload[j] # NoPiece
      BY <1>3, <1>12 DEF IsComplete
    <3>2. k \in DOMAIN t /\ P[k].payload[j] # NoPiece
      BY <1>1, <1>3, <3>1
    <3> QED BY <1>1, <1>9, <3>2 DEF Account, Entries, k
  <2>2. e.payload = Pieces(m)
    <3>1. Meant(f, r)
      BY DEF Meant
    <3>2. e \in Entry /\ PartOf(e, k, r)
      BY <1>1, <1>2, <1>6, <3>1, FilledPart DEF e
    <3>3. PICK n \in sent : /\ Key(n) = k /\ DOMAIN e.payload = DOMAIN Pieces(n)
                            /\ \A j \in DOMAIN Pieces(n) : e.payload[j] \in {NoPiece, Pieces(n)[j]}
      BY <3>2 DEF PartOf
    <3>4. n = m
      BY <1>10, <3>3
    <3>5. Pieces(m) \in Seq(PieceText) /\ e.payload \in Seq(PieceText \union {NoPiece})
      BY <3>2, PiecesTyped DEF Entry
    <3>6. \A j \in DOMAIN Pieces(m) : e.payload[j] = Pieces(m)[j]
      BY <1>3, <1>12, <3>3, <3>4 DEF IsComplete
    <3> QED BY <1>3, <3>5, <3>6
  <2>3. Completes(t, f)
    <3>1. m \in Message /\ m.size \in Nat /\ m.size <= MaxPayloadChars /\ Pieces(m) # <<>>
      BY DEF Message, SizesLegal, SentApart
    <3>2. Pieces(m) \in Seq(PieceText) /\ Partition(Pieces(m), m.size)
      BY <3>1, PiecesTyped
    <3>3. TotalChars(e.payload) = m.size
      BY <2>2, <3>1, <3>2, TextLength
    <3> QED BY <1>5, <1>12, <3>1, <3>3 DEF Completes, e
  <2>4. u = Restrict(t, DOMAIN t \ {k})
    BY <1>6, <1>12 DEF AddFragment, u, e
  <2>5. DOMAIN u = DOMAIN t \ {k} /\ \A x \in DOMAIN u : u[x] = t[x]
    BY <2>4 DEF Restrict
  <2>6. E = Append(D, d) /\ d \in S
    BY <2>3
  <2>7. KeysOf(E) = KeysOf(D) \union {k}
    BY <1>6, <2>6, KeysAppended
  <2>8. \A x, y \in DOMAIN E : x # y => KeyAt(E, x) # KeyAt(E, y)
    BY <1>6, <1>7, <2>6, KeysApart DEF Account, Finished
  <2>9. Expired(u, Y)
    BY <1>1, <1>8, <2>5 DEF Account, Expired
  <2>10. Entries(sent, u, G, Y) /\ NoEntry(sent, u, G, Y, E)
    BY <1>11, <2>5, <2>7 DEF Entries, NoEntry, k
  <2>11. \A n \in sent : Key(n) \in KeysOf(E) => Fragments(n) \subseteq G
    BY <1>11, <2>1, <2>5, <2>7 DEF Fragments
  <2>12. KeysOf(E) \intersect DOMAIN u = {}
    BY <1>1, <2>5, <2>7 DEF Account, Finished
  <2> QED BY <2>8, <2>9, <2>10, <2>11, <2>12 DEF Account, Finished, u, G
<1>13. CASE ~IsComplete(e)
  <2>1. u = Put(t, k, e)
    BY <1>5, <1>6, <1>13 DEF AddFragment, u, e
  <2>2. /\ DOMAIN u = DOMAIN t \union {k} /\ u[k] = e
        /\ \A x \in DOMAIN u : x # k => u[x] = t[x]
    BY <2>1 DEF Put
  <2>3. E = D
    BY <1>13 DEF Completes, e
  <2>4. Expired(u, Y)
    BY <1>1, <1>3, <1>8, <2>2, ReassemblyAssumption DEF Account, Expired
  <2>5. \A j \in DOMAIN Pieces(m) :
          /\ e.payload[j] # NoPiece => Fragment(m, j) \in G
          /\ Fragment(m, j) \in G => e.payload[j] # NoPiece \/ k \in Y
    <3> SUFFICES ASSUME NEW j \in DOMAIN Pieces(m), j # i
                 PROVE  /\ e.payload[j] # NoPiece => Fragment(m, j) \in G
                        /\ Fragment(m, j) \in G => e.payload[j] # NoPiece \/ k \in Y
      BY <1>3, <1>9
    <3>1. CASE k \in DOMAIN t
      <4>1. e.payload[j] = P[k].payload[j] /\ k \in DOMAIN P
        BY <1>1, <1>3, <3>1
      <4> QED BY <1>8, <1>9, <4>1 DEF Account, Entries, k
    <3>2. CASE k \notin DOMAIN t
      <4>1. e.payload[j] = NoPiece
        BY <1>3, <3>2
      <4>2. k \notin Y => k \notin KeysOf(D) \union X \union DOMAIN P
        BY <1>7, <1>8, <3>2
      <4>3. k \notin Y => Fragment(m, j) \notin H
        BY <4>2 DEF Account, NoEntry, k
      <4> QED BY <1>9, <4>1, <4>3
    <3> QED BY <3>1, <3>2
  <2>6. Entries(sent, u, G, Y) /\ NoEntry(sent, u, G, Y, E)
    BY <1>5, <1>11, <1>13, <2>2, <2>3, <2>5 DEF Entries, NoEntry, k
  <2>7. Finished(sent, u, G, E)
    BY <1>1, <1>7, <1>9, <2>2, <2>3 DEF Account, Finished
  <2> QED BY <2>4, <2>6, <2>7 DEF Account, u, G
<1> QED BY <1>12, <1>13

LEMMA InitAccounts == Init => Accounts /\ SizesLegal
<1> SUFFICES ASSUME Init PROVE Accounts /\ SizesLegal
  OBVIOUS
<1>1. /\ sent = {} /\ DOMAIN EmptyTable = {}
      /\ \A r \in Clients : pending[r] = EmptyTable /\ delivered[r] = <<>>
  BY DEF Init, EmptyTable
<1>2. \A r \in Clients : DOMAIN pending[r] = {} /\ DOMAIN delivered[r] = {}
  BY <1>1
<1>3. \A r \in Clients : KeysOf(delivered[r]) \intersect DOMAIN pending[r] = {}
  BY <1>2
<1>4. Accounts
  BY <1>1, <1>2, <1>3 DEF Accounts, Account, Expired, Entries, NoEntry, Finished
<1> QED BY <1>1, <1>4 DEF SizesLegal

(* What is sent now has no entry, is in no delivery, and no fragment of it *)
(* was handled: its number is new.                                         *)
LEMMA StartSendAccounts ==
    ASSUME IInv, Lines, Accounts, SizesLegal, NEW c \in Clients, StartSend(c)
    PROVE  Accounts' /\ SizesLegal'
<1>1. PICK q \in Requests :
        /\ q.size <= MaxPayloadChars
        /\ LET m == [from |-> c, seq |-> sequence[c], channel |-> q.channel, to |-> q.to,
                     loopback |-> q.loopback, size |-> q.size]
           IN  IF Pieces(m) = <<>>
                 THEN UNCHANGED <<sending, sent>>
                 ELSE /\ sending' = [sending EXCEPT ![c] = @ \union {[msg |-> m, next |-> 1]}]
                      /\ sent' = sent \union {m}
  BY DEF StartSend
<1> DEFINE m == [from |-> c, seq |-> sequence[c], channel |-> q.channel, to |-> q.to,
                 loopback |-> q.loopback, size |-> q.size]
<1>2. Key(m) = <<c, sequence[c]>> /\ m.size <= MaxPayloadChars
  BY <1>1 DEF Key
<1>3. UNCHANGED <<pending, delivered, handled, excused>>
  BY DEF StartSend, receiveVars
<1>4. sent' = sent \/ sent' = sent \union {m}
  BY <1>1
<1> HIDE DEF m
<1>5. SizesLegal'
  BY <1>2, <1>4 DEF SizesLegal
<1>6. CASE sent' = sent
  BY <1>3, <1>5, <1>6 DEF Accounts
<1>7. CASE sent' = sent \union {m}
  <2> SUFFICES ASSUME NEW r \in Clients
               PROVE  Account(sent', pending[r], handled[r], excused[r], delivered[r])
    BY <1>3, <1>5 DEF Accounts
  <2>1. Account(sent, pending[r], handled[r], excused[r], delivered[r])
    BY DEF Accounts
  <2>2. \A n \in sent : Key(n) # Key(m)
    BY <1>2, NewKey
  <2>3. Key(m) \notin DOMAIN pending[r]
    BY <2>2 DEF IInv, PendingPartial, PartOf
  <2>4. Key(m) \notin KeysOf(delivered[r])
    <3>1. \A i \in DOMAIN delivered[r] : KeyAt(delivered[r], i) # Key(m)
      BY <2>2 DEF IInv, DeliveredAllOf, AllOf, KeyAt
    <3> QED BY <3>1 DEF KeysOf, KeyAt, Range
  <2>5. \A i : Fragment(m, i) \notin handled[r]
    <3> SUFFICES ASSUME NEW i, Fragment(m, i) \in handled[r] PROVE FALSE
      OBVIOUS
    <3>1. PICK n \in sent : \E j \in DOMAIN Pieces(n) : Fragment(m, i) = Fragment(n, j)
      BY DEF Lines, HandledMeant, Meant
    <3> QED BY <2>2, <3>1, FieldsOf
  <2> QED BY <1>7, <2>1, <2>3, <2>4, <2>5, SentMore
<1> QED BY <1>4, <1>6, <1>7

(* A fragment or key that is missed is excused; nothing else changes.      *)
LEMMA MissedAccounts ==
    ASSUME Accounts, UNCHANGED <<sent, pending, delivered, handled>>,
           \A r \in Clients : excused[r] \subseteq excused'[r]
    PROVE  Accounts'
<1> SUFFICES ASSUME NEW r \in Clients
             PROVE  Account(sent, pending[r], handled[r], excused'[r], delivered[r])
  BY DEF Accounts
<1>1. Account(sent, pending[r], handled[r], excused[r], delivered[r])
  BY DEF Accounts
<1> QED BY <1>1, ExcusedMore

LEMMA RelayAccounts ==
    ASSUME IInv, Accounts, NEW c \in Clients, Relay(c)
    PROVE  Accounts'
<1> DEFINE f  == Head(uplink[c])
           to == IF c \in present /\ f.channel \in RelayChannels
                   THEN Addressees(f) \intersect present ELSE {}
<1>1. /\ excused' = [r \in Clients |->
           IF r \in to THEN excused[r] ELSE excused[r] \union {<<f.sender, f.id>>}]
      /\ UNCHANGED <<sendVars, receiveVars>>
  BY DEF Relay
<1> HIDE DEF f, to
<1>2. \A r \in Clients : excused[r] \subseteq excused'[r]
  BY <1>1
<1> QED BY <1>1, <1>2, MissedAccounts DEF sendVars, receiveVars

LEMMA CaptureAccounts ==
    ASSUME IInv, Accounts, NEW c \in Clients, Capture(c)
    PROVE  Accounts'
<1> DEFINE k == <<Head(downlink[c]).sender, Head(downlink[c]).id>>
<1>1. /\ excused' = excused \/ excused' = [excused EXCEPT ![c] = @ \union {k}]
      /\ UNCHANGED <<sendVars, pending, delivered, handled>>
  BY DEF Capture
<1> HIDE DEF k
<1>2. \A r \in Clients : excused[r] \subseteq excused'[r]
  BY <1>1 DEF IInv, TypeOK
<1> QED BY <1>1, <1>2, MissedAccounts DEF sendVars

LEMMA TickAccounts ==
    ASSUME IInv, Accounts, NEW c \in Clients, Tick(c)
    PROVE  Accounts'
<1> DEFINE old == {k \in DOMAIN pending[c] : pending[c][k].age >= Lifetime}
<1>1. /\ pending' = [pending EXCEPT ![c] = Older(@)]
      /\ excused' = [excused EXCEPT ![c] = @ \union old]
      /\ UNCHANGED <<sendVars, delivered, handled>>
  BY DEF Tick
<1> HIDE DEF old
<1>2. /\ pending'[c] = Older(pending[c]) /\ excused'[c] = excused[c] \union old
      /\ \A r \in Clients : r # c => pending'[r] = pending[r] /\ excused'[r] = excused[r]
  BY <1>1 DEF IInv, TypeOK
<1> SUFFICES ASSUME NEW r \in Clients
             PROVE  Account(sent, pending'[r], handled[r], excused'[r], delivered[r])
  BY <1>1 DEF Accounts, sendVars
<1>3. Account(sent, pending[r], handled[r], excused[r], delivered[r]) /\ IsTable(pending[r])
  BY DEF Accounts, IInv, TypeOK
<1>4. CASE r = c
  BY <1>2, <1>3, <1>4, GrownOlder DEF old
<1>5. CASE r # c
  BY <1>2, <1>3, <1>5
<1> QED BY <1>4, <1>5

LEMMA StopAccounts ==
    ASSUME IInv, Accounts, NEW c \in Clients, Stop(c)
    PROVE  Accounts'
<1>1. /\ pending' = [pending EXCEPT ![c] = EmptyTable]
      /\ excused' = [excused EXCEPT ![c] = @ \union DOMAIN pending[c]]
      /\ UNCHANGED <<sendVars, delivered, handled>>
  BY DEF Stop
<1>2. /\ pending'[c] = EmptyTable /\ excused'[c] = excused[c] \union DOMAIN pending[c]
      /\ \A r \in Clients : r # c => pending'[r] = pending[r] /\ excused'[r] = excused[r]
  BY <1>1 DEF IInv, TypeOK
<1> SUFFICES ASSUME NEW r \in Clients
             PROVE  Account(sent, pending'[r], handled[r], excused'[r], delivered[r])
  BY <1>1 DEF Accounts, sendVars
<1>3. Account(sent, pending[r], handled[r], excused[r], delivered[r])
  BY DEF Accounts
<1>4. CASE r = c
  BY <1>2, <1>3, <1>4, Cleared
<1>5. CASE r # c
  BY <1>2, <1>3, <1>5
<1> QED BY <1>4, <1>5

LEMMA DeliverAccounts ==
    ASSUME IInv, Lines, Accounts, SizesLegal, NEW c \in Clients, Deliver(c)
    PROVE  Accounts'
<1>1. PICK f \in captured[c], t \in Cleanups(pending[c]) :
         /\ pending' = [pending EXCEPT ![c] = AddFragment(t, f)]
         /\ handled' = [handled EXCEPT ![c] = @ \union {f}]
         /\ delivered' = IF Completes(t, f)
              THEN [delivered EXCEPT ![c] = Append(@,
                     [sender |-> f.sender, seq |-> f.seq, payload |-> Filled(t, f).payload])]
              ELSE delivered
         /\ excused' = IF Cardinality(DOMAIN pending[c]) > MaxPending
              THEN [excused EXCEPT ![c] = @ \union DOMAIN pending[c]]
              ELSE excused
  BY DEF Deliver
<1> DEFINE P == pending[c]
           H == handled[c]
           X == excused[c]
           D == delivered[c]
           S == [sender : Clients, seq : Nat, payload : Seq(PieceText \union {NoPiece})]
           d == [sender |-> f.sender, seq |-> f.seq, payload |-> Filled(t, f).payload]
           full == Cardinality(DOMAIN P) > MaxPending
<1>2. UNCHANGED sent
  BY DEF Deliver, sendVars
<1>3. IsTable(P) /\ IsFiniteSet(DOMAIN P) /\ SentApart /\ sent \subseteq Message
  BY DEF IInv, TypeOK, Finite
<1>4. f \in FragmentType /\ Meant(f, c) /\ f \notin H
  BY DEF IInv, TypeOK, CapturedMeant, Lines, OnePlace
<1>5. \A k \in DOMAIN P : PartOf(P[k], k, c)
  BY DEF IInv, PendingPartial
<1>6. \A k \in DOMAIN t : PartOf(t[k], k, c)
  BY <1>3, <1>5, CleanedTable
<1>7. D \in Seq(S) /\ delivered \in [Clients -> Seq(S)]
  BY DEF IInv, TypeOK
<1>8. Completes(t, f) => d \in S
  BY <1>3, <1>4, <1>6, CleanedTable, CompletedMessage
<1>9. PICK m \in sent : MeantFor(m, c) /\ \E i \in DOMAIN Pieces(m) : f = Fragment(m, i)
  BY <1>4 DEF Meant
<1>10. PICK i \in DOMAIN Pieces(m) : f = Fragment(m, i)
  BY <1>9
<1>11. Account(sent, P, H, X, D)
  BY DEF Accounts
<1>12. d.sender = f.sender /\ d.seq = f.seq
  OBVIOUS
<1> DEFINE u == AddFragment(t, f)
           E == IF Completes(t, f) THEN Append(D, d) ELSE D
           Y == IF full THEN X \union DOMAIN P ELSE X
<1> HIDE DEF S, d
<1>13. Account(sent, u, H \union {f}, Y, E)
  BY <1>3, <1>4, <1>5, <1>7, <1>8, <1>9, <1>10, <1>11, <1>12, FragmentAdded
<1> HIDE DEF u
<1>14. pending'[c] = u /\ \A r \in Clients : r # c => pending'[r] = pending[r]
  BY <1>1 DEF IInv, TypeOK, u
<1>15. handled'[c] = H \union {f} /\ \A r \in Clients : r # c => handled'[r] = handled[r]
  BY <1>1 DEF IInv, TypeOK
<1>16. delivered'[c] = E /\ \A r \in Clients : r # c => delivered'[r] = delivered[r]
  <2>1. CASE Completes(t, f)
    <3>1. delivered' = [delivered EXCEPT ![c] = Append(@, d)]
      BY <1>1, <2>1 DEF d
    <3> QED BY <1>7, <2>1, <3>1
  <2>2. CASE ~Completes(t, f)
    BY <1>1, <2>2
  <2> QED BY <2>1, <2>2
<1>17. excused'[c] = Y /\ \A r \in Clients : r # c => excused'[r] = excused[r]
  <2>1. excused \in [Clients -> SUBSET (Clients \X Nat)]
    BY DEF IInv, TypeOK
  <2>2. CASE full
    <3>1. excused' = [excused EXCEPT ![c] = @ \union DOMAIN pending[c]]
      BY <1>1, <2>2
    <3> QED BY <2>1, <2>2, <3>1
  <2>3. CASE ~full
    BY <1>1, <2>3
  <2> QED BY <2>2, <2>3
<1> HIDE DEF P, H, X, D, E, Y, full
<1> SUFFICES ASSUME NEW r \in Clients
             PROVE  Account(sent, pending'[r], handled'[r], excused'[r], delivered'[r])
  BY <1>2 DEF Accounts
<1>18. CASE r = c
  BY <1>13, <1>14, <1>15, <1>16, <1>17, <1>18
<1>19. CASE r # c
  BY <1>14, <1>15, <1>16, <1>17, <1>19 DEF Accounts
<1> QED BY <1>18, <1>19

LEMMA StepAccounts ==
    IInv /\ Lines /\ Accounts /\ SizesLegal /\ [Next]_vars => Accounts' /\ SizesLegal'
<1> SUFFICES ASSUME IInv, Lines, Accounts, SizesLegal, [Next]_vars
             PROVE  Accounts' /\ SizesLegal'
  OBVIOUS
<1>1. ASSUME UNCHANGED <<sent, pending, delivered, handled, excused>>
      PROVE  Accounts' /\ SizesLegal'
  BY <1>1 DEF Accounts, SizesLegal
<1>2. ASSUME NEW c \in Clients, SendFragment(c) \/ SendFails(c) \/ Leave(c) \/ Enter(c)
      PROVE  Accounts' /\ SizesLegal'
  <2>1. UNCHANGED <<sent, pending, delivered, handled, excused>>
    BY <1>2 DEF SendFragment, SendFails, Leave, Enter, sendVars, receiveVars
  <2> QED BY <1>1, <2>1
<1>3. CASE UNCHANGED vars
  <2>1. UNCHANGED <<sent, pending, delivered, handled, excused>>
    BY <1>3 DEF vars, sendVars, receiveVars
  <2> QED BY <1>1, <2>1
<1>4. ASSUME NEW c \in Clients, Relay(c) \/ Capture(c) \/ Deliver(c) \/ Tick(c) \/ Stop(c)
      PROVE  Accounts' /\ SizesLegal'
  <2>1. UNCHANGED sent
    BY <1>4 DEF Relay, Capture, Deliver, Tick, Stop, sendVars
  <2>2. SizesLegal'
    BY <2>1 DEF SizesLegal
  <2> QED
    BY <1>4, <2>2, RelayAccounts, CaptureAccounts, DeliverAccounts, TickAccounts, StopAccounts
<1> QED BY <1>2, <1>3, <1>4, StartSendAccounts DEF Next

(* The accounts of every client are kept by every run: what is in          *)
(* g_pending, what AddFragment has seen, what was delivered and what was   *)
(* missed or dropped fit together (Receive 802-944).                       *)
THEOREM AccountsAreKept == Spec => [](IInv /\ Lines /\ Accounts /\ SizesLegal)
BY InitInv, InitLines, InitAccounts, StepKeeps, StepLines, StepAccounts, PTL DEF Spec
-----------------------------------------------------------------------------
(* A sequence of deliveries with different keys has as many keys as        *)
(* deliveries.                                                             *)
LEMMA ManyKeys ==
    ASSUME NEW S, NEW D \in Seq(S),
           \A i, j \in DOMAIN D : i # j => KeyAt(D, i) # KeyAt(D, j)
    PROVE  Cardinality(KeysOf(D)) = Len(D)
<1> DEFINE n == Len(D)
           b == [i \in 1 .. n |-> KeyAt(D, i)]
<1>1. n \in Nat /\ DOMAIN D = 1 .. n
  OBVIOUS
<1>2. b \in [1 .. n -> KeysOf(D)]
  BY <1>1 DEF KeysOf, KeyAt, Range
<1>3. \A k \in KeysOf(D) : \E i \in 1 .. n : b[i] = k
  BY <1>1 DEF KeysOf, KeyAt, Range
<1>4. IsInjective(b)
  BY <1>1 DEF IsInjective
<1> HIDE DEF b, n
<1>5. ExistsBijection(1 .. n, KeysOf(D))
  BY <1>2, <1>3, <1>4 DEF ExistsBijection, Bijection, Injection, Surjection
<1> QED BY <1>1, <1>5, FS_CountingElements DEF n

(* DeliveredOnce for any number of clients, calls and messages: g_callback *)
(* gets a message at most once and the entry of a delivered message is     *)
(* gone from g_pending, because no fragment comes twice (Receive 846-866). *)
THEOREM DeliversOnce == Spec => []DeliveredOnce
<1>1. IInv /\ Lines /\ Accounts /\ SizesLegal => DeliveredOnce
  <2> SUFFICES ASSUME IInv, Accounts, NEW r \in Clients
               PROVE  /\ Cardinality(DeliveredKeys(r)) = Len(delivered[r])
                      /\ DeliveredKeys(r) \intersect DOMAIN pending[r] = {}
    BY DEF DeliveredOnce
  <2>1. DeliveredKeys(r) = KeysOf(delivered[r])
    BY DEF DeliveredKeys, KeysOf
  <2>2. Finished(sent, pending[r], handled[r], delivered[r])
    BY DEF Accounts, Account
  <2>3. delivered[r] \in Seq([sender : Clients, seq : Nat,
                              payload : Seq(PieceText \union {NoPiece})])
    BY DEF IInv, TypeOK
  <2>4. Cardinality(KeysOf(delivered[r])) = Len(delivered[r])
    BY <2>2, <2>3, ManyKeys DEF Finished
  <2> QED BY <2>1, <2>2, <2>4 DEF Finished
<1> QED BY <1>1, AccountsAreKept, PTL

(* NothingLostSilently for any number of clients, calls and messages: of a *)
(* message all of whose fragments AddFragment has seen, either g_callback  *)
(* was given it, or its entry expired, was in an overfull table or was     *)
(* cleared by Stop (Receive 802-866, 1196).                                *)
THEOREM LosesNothingSilently == Spec => []NothingLostSilently
<1>1. IInv /\ Lines /\ Accounts /\ SizesLegal => NothingLostSilently
  <2> SUFFICES ASSUME IInv, Accounts, NEW r \in Clients, NEW m \in sent,
                      Fragments(m) \subseteq handled[r],
                      Key(m) \notin DeliveredKeys(r) \union excused[r]
               PROVE  FALSE
    BY DEF NothingLostSilently
  <2>1. DeliveredKeys(r) = KeysOf(delivered[r])
    BY DEF DeliveredKeys, KeysOf
  <2>2. \A i \in DOMAIN Pieces(m) : Fragment(m, i) \in handled[r]
    BY DEF Fragments
  <2>3. 1 \in DOMAIN Pieces(m)
    <3>1. m \in Message /\ Pieces(m) # <<>>
      BY DEF IInv, TypeOK, SentApart
    <3>2. Pieces(m) \in Seq(PieceText)
      BY <3>1, PiecesTyped
    <3> QED BY <3>1, <3>2
  <2>4. Key(m) \in DOMAIN pending[r]
    BY <2>1, <2>2, <2>3 DEF Accounts, Account, NoEntry
  <2>5. /\ ~IsComplete(pending[r][Key(m)])
        /\ \A i \in DOMAIN Pieces(m) : pending[r][Key(m)].payload[i] # NoPiece
    BY <2>2, <2>4 DEF Accounts, Account, Entries
  <2>6. PICK n \in sent :
          Key(n) = Key(m) /\ DOMAIN pending[r][Key(m)].payload = DOMAIN Pieces(n)
    BY <2>4 DEF IInv, PendingPartial, PartOf
  <2>7. n = m
    BY <2>6 DEF IInv, SentApart
  <2> QED BY <2>5, <2>6, <2>7 DEF IsComplete
<1> QED BY <1>1, AccountsAreKept, PTL
=============================================================================
