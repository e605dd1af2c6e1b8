---------------------------- MODULE Fragmentation ----------------------------
(***************************************************************************)
(* BuildEnvelopes of STRPluginMessagingBridge.cpp: a payload, already      *)
(* written as hexadecimal text, is cut into pieces that fit a chat line.   *)
(* A text is its length and a piece an interval of it; the labels of an    *)
(* envelope are counted, not spelled.                                      *)
(***************************************************************************)
EXTENDS Integers, Sequences

CONSTANTS
    MaxEnvelopeChars,  \* kMaxEnvelopeChars, 3500 in the code
    OverheadReserve,   \* overheadReserve, 96 in the code
    MaxFragments       \* kMaxFragments, 64 in the code

ASSUME FragmentationAssumption ==
    /\ MaxEnvelopeChars \in Nat /\ OverheadReserve \in Nat
    /\ MaxFragments \in Nat \ {0}

(* payloadCharsPerFragment, for a prefix of the given length.              *)
Room(prefix) == MaxEnvelopeChars - prefix - OverheadReserve

(* fragmentCount: at least one, so that an empty payload is sent too.      *)
FragmentCount(size, room) ==
    IF size = 0 THEN 1 ELSE (size + room - 1) \div room

(* The characters the loop puts into the envelope of an index from 0.      *)
Piece(size, room, index) ==
    [offset |-> index * room,
     count  |-> IF size - index * room < room THEN size - index * room ELSE room]

(* The envelopes' payloads; none when the prefix leaves no room or the     *)
(* fragments would be too many.                                            *)
BuildEnvelopes(prefix, size) ==
    LET room == Room(prefix)
        n    == FragmentCount(size, room)
    IN  IF room <= 0 \/ n > MaxFragments
          THEN <<>>
          ELSE [i \in 1 .. n |-> Piece(size, room, i - 1)]

(* The length of "|part=i|parts=n|payload=" and of a whole envelope.       *)
Digits(n) == IF n < 10 THEN 1 ELSE IF n < 100 THEN 2 ELSE 3
EnvelopeChars(prefix, i, n, piece) ==
    prefix + 22 + Digits(i) + Digits(n) + piece.count

(* Pieces that lie end to end and make up the whole text.                  *)
Partition(pieces, size) ==
    /\ pieces # <<>>
    /\ pieces[1].offset = 0
    /\ \A i \in 1 .. Len(pieces) - 1 :
          pieces[i + 1].offset = pieces[i].offset + pieces[i].count
    /\ pieces[Len(pieces)].offset + pieces[Len(pieces)].count = size
=============================================================================
