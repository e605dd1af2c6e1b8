----------------------------- MODULE Reassembly -----------------------------
(***************************************************************************)
(* g_pending of STRPluginMessagingBridgeReceive.cpp: the fragments of      *)
(* messages that are not complete yet, by sender and message id.  A table  *)
(* is a function from the keys it holds to entries; every change to it is  *)
(* an operator here and happens under g_pendingLock in the code.           *)
(*                                                                         *)
(* A fragment is what the fields of an envelope say: who sent it (stamped  *)
(* by the server), the message's id, the rest of the metadata, its part    *)
(* number and a piece of the payload's text.  The age of an entry is the   *)
(* time since its lastUpdate.                                              *)
(***************************************************************************)
EXTENDS Integers, Sequences, FiniteSets, Functions

CONSTANTS
    MaxPending,       \* kMaxPendingMessages, 128 in the code
    Lifetime,         \* kPendingLifetime, 30 seconds in the code
    MaxPayloadChars,  \* twice kMaxPayloadBytes
    NoPiece           \* a part that has not been received

ASSUME ReassemblyAssumption ==
    MaxPending \in Nat /\ Lifetime \in Nat /\ MaxPayloadChars \in Nat

EmptyTable == [k \in {} |-> NoPiece]
Put(t, k, e) == [x \in DOMAIN t \union {k} |-> IF x = k THEN e ELSE t[x]]

(* A slip the checks must notice: the sender is left out of the key.       *)
KeyOfAnyone(f) == <<f.id>>
KeyOf(f)  == <<f.sender, f.id>>
MetaOf(f) == [sender |-> f.sender, channel |-> f.channel, flags |-> f.flags,
              seq |-> f.seq, parts |-> f.parts]

Alive(t) == {k \in DOMAIN t : t[k].age <= Lifetime}

(* CleanupPendingLocked.  Which entries an overfull table loses depends on *)
(* the order of a hash table; any may go.                                  *)
Cleanups(t) ==
    {Restrict(t, kept) : kept \in {s \in SUBSET Alive(t) :
        \/ s = Alive(t) /\ Cardinality(s) <= MaxPending
        \/ Cardinality(Alive(t)) > MaxPending /\ Cardinality(s) = MaxPending}}

(* try_emplace: the entry of a fragment's key, a new one if there is none. *)
EntryFor(t, f) ==
    IF KeyOf(f) \in DOMAIN t
      THEN t[KeyOf(f)]
      ELSE [meta |-> MetaOf(f), payload |-> [i \in 1 .. f.parts |-> NoPiece], age |-> 0]

(* A slip the checks must notice: pieces are kept in the order they come.  *)
FilledInTurn(t, f) ==
    LET e == EntryFor(t, f)
        i == CHOOSE j \in DOMAIN e.payload :
                /\ e.payload[j] = NoPiece
                /\ \A h \in 1 .. j - 1 : e.payload[h] # NoPiece
    IN  [e EXCEPT !.payload[i] = f.piece, !.age = 0]

(* The entry once the fragment's piece is in its place.                    *)
Filled(t, f) == [EntryFor(t, f) EXCEPT !.payload[f.part] = f.piece, !.age = 0]

IsComplete(e) == \A i \in DOMAIN e.payload : e.payload[i] # NoPiece

TotalChars(payload) ==
    LET total[i \in 0 .. Len(payload)] ==
            IF i = 0 THEN 0 ELSE total[i - 1] + payload[i].count
    IN  total[Len(payload)]

Matches(t, f) == EntryFor(t, f).meta = MetaOf(f)

(* The table after AddFragment: the entry goes when the metadata disagree  *)
(* or the last part has come, whether the text is short enough or not.     *)
AddFragmentKeeps(t, f) == Put(t, KeyOf(f), Filled(t, f))
AddFragment(t, f) ==
    IF ~Matches(t, f) \/ IsComplete(Filled(t, f))
      THEN Restrict(t, DOMAIN t \ {KeyOf(f)})
      ELSE Put(t, KeyOf(f), Filled(t, f))

(* AddFragment returns a message.                                          *)
Completes(t, f) ==
    /\ Matches(t, f) /\ IsComplete(Filled(t, f))
    /\ TotalChars(Filled(t, f).payload) <= MaxPayloadChars

(* Time passes for all entries alike.  An expired one cannot get older.    *)
Older(t) == [k \in DOMAIN t |->
    [t[k] EXCEPT !.age = IF @ > Lifetime THEN @ ELSE @ + 1]]
=============================================================================
