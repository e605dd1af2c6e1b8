----------------------- MODULE ReceiveDispatch_proofs -----------------------
(***************************************************************************)
(* Proofs about the completed-message FIFO, for any number of producers,   *)
(* any capacity, and any number of messages and sessions.                  *)
(***************************************************************************)
EXTENDS ReceiveDispatch, SequenceTheorems, TLAPS

LEMMA TypeInit == Init => TypeOK
  <1> SUFFICES ASSUME Init PROVE TypeOK
    OBVIOUS
  <1>1. queue \in Seq(Message) /\ Len(queue) <= Capacity /\ handed \in Seq(Message)
    BY CapacityAssumption DEF Init
  <1>2. running \in BOOLEAN /\ callback \in BOOLEAN
    BY DEF Init
  <1>3. /\ ppc \in [Producers -> {"idle", "push", "notify"}]
        /\ message \in [Producers -> Message \union {None}]
        /\ \A p \in Producers : ppc[p] # "idle" => message[p] # None
    BY DEF Init
  <1>4. offered \in 0 .. MaxMessages /\ starts \in Nat
    BY BoundsAssumption DEF Init
  <1>5. QED
    BY <1>1, <1>2, <1>3, <1>4 DEF Init, TypeOK

LEMMA TypeNext == TypeOK /\ [Next]_vars => TypeOK'
  <1> SUFFICES ASSUME TypeOK, [Next]_vars PROVE TypeOK'
    OBVIOUS
  <1>a. queue \in Seq(Message) /\ Len(queue) <= Capacity /\ Capacity \in Nat \ {0}
    BY CapacityAssumption DEF TypeOK
  <1>b. offered \in 0 .. MaxMessages /\ MaxMessages \in Nat
    BY BoundsAssumption DEF TypeOK
  <1>1. ASSUME NEW p \in Producers, Call(p) PROVE TypeOK'
    <2>1. offered' \in Message /\ offered' \in 0 .. MaxMessages /\ offered' # None
      BY <1>1, <1>b DEF Call, Message, None
    <2>2. /\ message' \in [Producers -> Message \union {None}]
          /\ ppc' \in [Producers -> {"idle", "push", "notify"}]
          /\ \A q \in Producers : ppc'[q] # "idle" => message'[q] # None
      BY <1>1, <2>1 DEF Call, TypeOK
    <2>3. UNCHANGED <<queue, dispatcherVars, controlVars>>
      BY <1>1 DEF Call
    <2>4. QED
      BY <2>1, <2>2, <2>3 DEF TypeOK, dispatcherVars, controlVars
  <1>2. ASSUME NEW p \in Producers, Push(p) PROVE TypeOK'
    <2>1. message[p] \in Message /\ ppc[p] = "push"
      BY <1>2 DEF Push, TypeOK
    <2>2. queue' \in Seq(Message) /\ Len(queue') <= Capacity
      <3>1. CASE running /\ Len(queue) < Capacity
        <4>1. queue' = Append(queue, message[p])
          BY <1>2, <3>1 DEF Push
        <4>2. queue' \in Seq(Message) /\ Len(queue') = Len(queue) + 1
          BY <2>1, <4>1, <1>a
        <4>3. QED
          BY <3>1, <4>2, <1>a
      <3>2. CASE ~(running /\ Len(queue) < Capacity)
        BY <1>2, <3>2, <1>a DEF Push
      <3>3. QED
        BY <3>1, <3>2
    <2>3. /\ ppc' \in [Producers -> {"idle", "push", "notify"}]
          /\ \A q \in Producers : ppc'[q] # "idle" => ppc[q] # "idle"
      BY <1>2, <2>1 DEF Push, TypeOK
    <2>4. UNCHANGED <<message, offered, dispatcherVars, controlVars>>
      BY <1>2 DEF Push
    <2>5. QED
      BY <2>2, <2>3, <2>4 DEF TypeOK, dispatcherVars, controlVars
  <1>3. ASSUME NEW p \in Producers, NotifyOne(p) PROVE TypeOK'
    <2>1. /\ ppc' \in [Producers -> {"idle", "push", "notify"}]
          /\ \A q \in Producers : ppc'[q] # "idle" => ppc[q] # "idle"
      BY <1>3 DEF NotifyOne, TypeOK
    <2>2. dpc' \in {dpc, "testing"}
      BY <1>3 DEF NotifyOne, Notified
    <2>3. UNCHANGED <<queue, message, offered, queued, handed, controlVars>>
      BY <1>3 DEF NotifyOne
    <2>4. QED
      BY <2>1, <2>2, <2>3 DEF TypeOK, controlVars
  <1>4. CASE Dispatch
    <2>1. UNCHANGED <<producerVars, controlVars>>
      BY <1>4 DEF Dispatch, TestHolds, TestFails, FallAsleep, FetchCallback, CallConsumer
    <2>2. CASE TestHolds /\ queue # <<>>
      <3>1. queue' = Tail(queue) /\ queued' = Head(queue) /\ dpc' = "holding" /\ handed' = handed
        BY <2>2 DEF TestHolds
      <3>2. Tail(queue) \in Seq(Message) /\ Head(queue) \in Message /\ Len(Tail(queue)) <= Capacity
        BY <2>2, <1>a
      <3>3. queued' # None
        BY <3>1, <3>2 DEF Message, None
      <3>4. QED
        BY <2>1, <3>1, <3>2, <3>3 DEF TypeOK, producerVars, controlVars
    <2>3. CASE TestHolds /\ queue = <<>>
      BY <2>1, <2>3 DEF TestHolds, TypeOK, producerVars, controlVars
    <2>4. CASE TestFails \/ FallAsleep \/ FetchCallback
      BY <2>1, <2>4 DEF TestFails, FallAsleep, FetchCallback, TypeOK, producerVars, controlVars
    <2>5. CASE CallConsumer
      <3>1. handed' \in Seq(Message)
        BY <2>5 DEF CallConsumer, TypeOK
      <3>2. QED
        BY <2>1, <2>5, <3>1 DEF CallConsumer, TypeOK, producerVars, controlVars
    <2>6. QED
      BY <1>4, <2>2, <2>3, <2>4, <2>5 DEF Dispatch
  <1>5. CASE SpuriousWakeup
    BY <1>5 DEF SpuriousWakeup, TypeOK, producerVars, controlVars
  <1>6. CASE Control
    <2>1. running' \in BOOLEAN /\ callback' \in BOOLEAN
      BY <1>6 DEF Control, SetCallback, StartReceiveDispatch, StartFails, StopRunning,
                  ClearQueue, NotifyAll, Join, TypeOK
    <2>2. queue' \in {queue, <<>>} /\ handed' \in {handed, <<>>}
      BY <1>6 DEF Control, SetCallback, StartReceiveDispatch, StartFails, StopRunning,
                  ClearQueue, NotifyAll, Join, dispatcherVars
    <2>3. /\ queue' \in Seq(Message) /\ Len(queue') <= Capacity
          /\ handed' \in Seq(Message)
      <3>1. <<>> \in Seq(Message) /\ Len(<<>>) = 0 /\ 0 <= Capacity
        BY <1>a
      <3>2. handed \in Seq(Message)
        BY DEF TypeOK
      <3>3. QED
        BY <2>2, <3>1, <3>2, <1>a
    <2>4. dpc' \in {dpc, "testing", "off"} /\ UNCHANGED <<producerVars, queued>>
      BY <1>6 DEF Control, SetCallback, StartReceiveDispatch, StartFails, StopRunning,
                  ClearQueue, NotifyAll, Join, Notified, dispatcherVars
    <2>7. starts' \in Nat
      <3>1. starts \in Nat
        BY DEF TypeOK
      <3>2. starts' \in {starts, starts + 1}
        BY <1>6 DEF Control, SetCallback, StartReceiveDispatch, StartFails, StopRunning,
                    ClearQueue, NotifyAll, Join
      <3>3. QED
        BY <3>1, <3>2
    <2>5. cpc' \in {"down", "starting", "up", "clearing", "notifying", "joining"}
      BY <1>6 DEF Control, SetCallback, StartReceiveDispatch, StartFails, StopRunning,
                  ClearQueue, NotifyAll, Join, TypeOK
    <2>6. QED
      BY <2>1, <2>3, <2>4, <2>5, <2>7 DEF TypeOK, producerVars
  <1>7. CASE UNCHANGED vars
    BY <1>7 DEF vars, producerVars, dispatcherVars, controlVars, TypeOK
  <1>8. QED
    BY <1>1, <1>2, <1>3, <1>4, <1>5, <1>6, <1>7 DEF Next, Produce

(* Every variable keeps its type, and the queue never exceeds its bound.   *)
THEOREM TypeCorrect == Spec => []TypeOK
  BY TypeInit, TypeNext, PTL DEF Spec
-----------------------------------------------------------------------------
LEMMA AwakeInit == Init => Awake
  BY DEF Init, Awake, Phases, NoLostWakeup

LEMMA AwakeNext == TypeOK /\ Awake /\ [Next]_vars => Awake'
  <1> SUFFICES ASSUME TypeOK, Awake, [Next]_vars PROVE Awake'
    OBVIOUS
  <1> USE DEF Awake
  <1>1. ASSUME NEW p \in Producers, Call(p) PROVE Awake'
    <2>1. cpc = "up" /\ UNCHANGED <<queue, dispatcherVars, controlVars>>
      BY <1>1 DEF Call
    <2>2. \A q \in Producers : ppc[q] = "notify" => ppc'[q] = "notify"
      BY <1>1 DEF Call, TypeOK
    <2>3. QED
      BY <2>1, <2>2 DEF Phases, NoLostWakeup, dispatcherVars, controlVars
  <1>2. ASSUME NEW p \in Producers, Push(p) PROVE Awake'
    <2>1. ppc[p] = "push" /\ dpc # "falling asleep" /\ UNCHANGED <<dispatcherVars, controlVars>>
      BY <1>2 DEF Push, LockIsFree
    <2>2. cpc = "up"
      BY <2>1 DEF Phases
    <2>3. \A q \in Producers : ppc[q] = "notify" => ppc'[q] = "notify"
      BY <1>2 DEF Push, TypeOK
    <2>4. queue' = queue \/ ppc'[p] = "notify"
      BY <1>2 DEF Push, TypeOK
    <2>5. Phases'
      BY <2>1, <2>2 DEF Phases, dispatcherVars, controlVars
    <2>6. NoLostWakeup'
      BY <2>1, <2>2, <2>3, <2>4 DEF NoLostWakeup, dispatcherVars, controlVars
    <2>7. QED
      BY <2>5, <2>6
  <1>3. ASSUME NEW p \in Producers, NotifyOne(p) PROVE Awake'
    <2>1. ppc[p] = "notify" /\ UNCHANGED <<queue, controlVars>>
      BY <1>3 DEF NotifyOne
    <2>2. cpc = "up" /\ dpc # "off"
      BY <2>1 DEF Phases
    <2>3. dpc' # "asleep" /\ dpc' # "off" /\ (dpc' = "falling asleep" => dpc = "falling asleep")
      BY <1>3, <2>2 DEF NotifyOne, Notified
    <2>4. QED
      BY <2>1, <2>2, <2>3 DEF Phases, NoLostWakeup, controlVars
  <1>4. CASE Dispatch
    <2>1. UNCHANGED <<producerVars, controlVars>> /\ dpc # "off" /\ dpc' # "off"
      BY <1>4 DEF Dispatch, TestHolds, TestFails, FallAsleep, FetchCallback, CallConsumer
    <2>2. CASE TestHolds
      <3>1. queue' = queue \/ queue # <<>>
        BY <2>2 DEF TestHolds
      <3>2. dpc' \in {"ended", "holding"}
        BY <2>2 DEF TestHolds
      <3>3. QED
        BY <2>1, <3>1, <3>2 DEF Phases, NoLostWakeup, producerVars, controlVars
    <2>3. CASE TestFails
      <3>1. dpc' = "falling asleep" /\ running /\ queue = <<>> /\ queue' = queue
        BY <2>3 DEF TestFails
      <3>2. cpc = "up"
        BY <3>1 DEF Phases
      <3>3. Phases'
        BY <2>1, <3>1, <3>2 DEF Phases, producerVars, controlVars
      <3>4. NoLostWakeup'
        BY <2>1, <3>1 DEF NoLostWakeup, controlVars
      <3>5. QED
        BY <3>3, <3>4
    <2>4. CASE FallAsleep
      <3>1. dpc = "falling asleep" /\ dpc' = "asleep" /\ queue' = queue
        BY <2>4 DEF FallAsleep
      <3>2. queue = <<>> /\ cpc \in {"up", "clearing"}
        BY <3>1 DEF Phases
      <3>3. QED
        BY <2>1, <3>1, <3>2 DEF Phases, NoLostWakeup, producerVars, controlVars
    <2>5. CASE FetchCallback \/ CallConsumer
      BY <2>1, <2>5 DEF FetchCallback, CallConsumer, Phases, NoLostWakeup, producerVars, controlVars
    <2>6. QED
      BY <1>4, <2>2, <2>3, <2>4, <2>5 DEF Dispatch
  <1>5. CASE SpuriousWakeup
    BY <1>5 DEF SpuriousWakeup, Phases, NoLostWakeup, producerVars, controlVars
  <1>6. CASE Control
    <2>1. UNCHANGED producerVars
      BY <1>6 DEF Control, SetCallback, StartReceiveDispatch, StartFails, StopRunning,
                  ClearQueue, NotifyAll, Join
    <2>2. CASE SetCallback
      BY <2>1, <2>2 DEF SetCallback, Phases, NoLostWakeup, producerVars, dispatcherVars
    <2>8. CASE StartReceiveDispatch
      BY <2>1, <2>8 DEF StartReceiveDispatch, Phases, NoLostWakeup, producerVars
    <2>9. CASE StartFails
      BY <2>1, <2>9 DEF StartFails, Phases, NoLostWakeup, producerVars, dispatcherVars
    <2>3. CASE StopRunning
      BY <2>1, <2>3 DEF StopRunning, Phases, NoLostWakeup, producerVars, dispatcherVars
    <2>4. CASE ClearQueue
      BY <2>1, <2>4 DEF ClearQueue, LockIsFree, Phases, NoLostWakeup, producerVars, dispatcherVars
    <2>5. CASE NotifyAll
      BY <2>1, <2>5 DEF NotifyAll, Notified, Phases, NoLostWakeup, producerVars
    <2>6. CASE Join
      BY <2>1, <2>6 DEF Join, Phases, NoLostWakeup, producerVars
    <2>7. QED
      BY <1>6, <2>2, <2>3, <2>4, <2>5, <2>6, <2>8, <2>9 DEF Control
  <1>7. CASE UNCHANGED vars
    BY <1>7 DEF vars, producerVars, dispatcherVars, controlVars, Phases, NoLostWakeup
  <1>8. QED
    BY <1>1, <1>2, <1>3, <1>4, <1>5, <1>6, <1>7 DEF Next, Produce

(* A dispatcher that sleeps while there is a message or an order to stop   *)
(* is about to be woken: no notification is lost.                          *)
THEOREM NoWakeupIsLost == Spec => []NoLostWakeup
  <1>1. Awake => NoLostWakeup
    BY DEF Awake
  <1>2. QED
    BY <1>1, TypeInit, TypeNext, AwakeInit, AwakeNext, PTL DEF Spec

(* The consumer is only called in a session, and when Stop has returned    *)
(* neither the dispatcher nor a message is left.                           *)
THEOREM ConsumerIsCalledInSession == Spec => []CalledInSession
  <1>1. Awake => CalledInSession
    BY DEF Awake, Phases, CalledInSession
  <1>2. QED
    BY <1>1, TypeInit, TypeNext, AwakeInit, AwakeNext, PTL DEF Spec
-----------------------------------------------------------------------------
(* The FIFO implements OrderedDelivery.  First three facts about sequences *)
(* that stand for the message in hand, if any, and the queue behind it.    *)

LEMMA InHandIsFirst ==
    ASSUME NEW S, NEW m \in S, NEW q \in Seq(S)
    PROVE  <<m>> \o q # <<>> /\ Head(<<m>> \o q) = m /\ Tail(<<m>> \o q) = q
  <1>1. <<m>> \in Seq(S) /\ Len(<<m>>) = 1 /\ <<m>>[1] = m
    OBVIOUS
  <1> DEFINE c == <<m>> \o q
  <1>2. /\ c \in Seq(S) /\ Len(c) = 1 + Len(q)
        /\ \A i \in 1 .. 1 + Len(q) : c[i] = IF i <= 1 THEN <<m>>[i] ELSE q[i - 1]
    BY <1>1, ConcatProperties
  <1>3. Len(q) \in Nat
    BY LenProperties
  <1> HIDE DEF c
  <1>4. c # <<>>
    BY <1>2, <1>3
  <1>5. Head(c) = m
    BY <1>1, <1>2, <1>3, <1>4, HeadTailProperties
  <1>6. Tail(c) \in Seq(S) /\ Len(Tail(c)) = Len(q) /\ \A i \in 1 .. Len(q) : Tail(c)[i] = q[i]
    BY <1>2, <1>3, <1>4, HeadTailProperties
  <1>7. Tail(c) = q
    BY <1>6, SeqEqual
  <1>8. QED
    BY <1>4, <1>5, <1>7 DEF c

LEMMA HeadThenTail ==
    ASSUME NEW S, NEW q \in Seq(S), q # <<>>
    PROVE  <<Head(q)>> \o Tail(q) = q
  <1>1. /\ Head(q) \in S /\ Head(q) = q[1] /\ Tail(q) \in Seq(S)
        /\ Len(q) \in Nat /\ Len(Tail(q)) = Len(q) - 1 /\ Len(q) > 0
        /\ \A i \in 1 .. Len(Tail(q)) : Tail(q)[i] = q[i + 1]
    BY HeadTailProperties, LenProperties, EmptySeq
  <1>2. <<Head(q)>> \in Seq(S) /\ Len(<<Head(q)>>) = 1 /\ <<Head(q)>>[1] = q[1]
    BY <1>1
  <1> DEFINE c == <<Head(q)>> \o Tail(q)
  <1>3. /\ c \in Seq(S) /\ Len(c) = Len(q)
        /\ \A i \in 1 .. Len(q) : c[i] = IF i <= 1 THEN <<Head(q)>>[i] ELSE Tail(q)[i - 1]
    BY <1>1, <1>2, ConcatProperties
  <1> HIDE DEF c
  <1>4. \A i \in 1 .. Len(q) : c[i] = q[i]
    BY <1>1, <1>2, <1>3
  <1>5. c = q
    BY <1>3, <1>4, SeqEqual
  <1>6. QED
    BY <1>5 DEF c

LEMMA AppendBehind ==
    ASSUME NEW S, NEW a \in Seq(S), NEW q \in Seq(S), NEW m \in S
    PROVE  a \o Append(q, m) = Append(a \o q, m)
  <1>1. Append(q, m) = q \o <<m>> /\ <<m>> \in Seq(S)
    BY AppendIsConcat
  <1>2. a \o q \in Seq(S)
    BY ConcatProperties
  <1>3. Append(a \o q, m) = (a \o q) \o <<m>>
    BY <1>2, AppendIsConcat
  <1>4. QED
    BY <1>1, <1>3, ConcatAssociative

LEMMA KeepInHand ==
    ASSUME NEW S, NEW m \in S, NEW q \in Seq(S)
    PROVE  SubSeq(<<m>> \o q, 1, 1) = <<m>> /\ SubSeq(q, 1, 0) = <<>>
  <1>1. <<m>> \in Seq(S) /\ Len(<<m>>) = 1
    OBVIOUS
  <1>2. SubSeq(<<m>> \o q, 1, 1) = SubSeq(<<m>>, 1, 1)
    BY <1>1, SubSeqOfConcat1
  <1>3. SubSeq(<<m>>, 1, 1) = <<m>>
    BY <1>1, SubSeqFull
  <1>4. SubSeq(q, 1, 0) = <<>>
    BY SubSeqEmpty
  <1>5. QED
    BY <1>2, <1>3, <1>4

LEMMA ImplementsInit == Init => Abstract!Init
  BY DEF Init, Held, Abstract!Init

LEMMA ImplementsNext ==
    TypeOK /\ Awake /\ [Next]_vars => [Abstract!Next]_(Abstract!vars)
  <1> SUFFICES ASSUME TypeOK, Awake, [Next]_vars PROVE [Abstract!Next]_(Abstract!vars)
    OBVIOUS
  <1> DEFINE channel == Held \o queue
  <1> DEFINE Stutters == channel' = channel /\ handed' = handed
  <1>s. Stutters => [Abstract!Next]_(Abstract!vars)
    BY DEF Abstract!vars
  <1>q. /\ queue \in Seq(Message) /\ <<>> \in Seq(Message)
        /\ dpc \in {"holding", "calling"} => queued \in Message
    <2>1. queue \in Seq(Message) /\ <<>> \in Seq(Message)
      BY EmptySeq DEF TypeOK
    <2>2. dpc \in {"holding", "calling"} => queued \in Message
      BY DEF TypeOK
    <2>3. QED
      BY <2>1, <2>2
  <1>1. ASSUME NEW p \in Producers, Call(p) PROVE Stutters
    BY <1>1 DEF Call, dispatcherVars, Held
  <1>2. ASSUME NEW p \in Producers, Push(p) PROVE [Abstract!Next]_(Abstract!vars)
    <2>1. Held' = Held /\ handed' = handed
      BY <1>2 DEF Push, dispatcherVars, Held
    <2>2. message[p] \in Message
      BY <1>2 DEF Push, TypeOK
    <2>3. CASE queue' = queue
      BY <1>s, <2>1, <2>3
    <2>4. CASE queue' = Append(queue, message[p])
      <3>1. Held \in Seq(Message)
        <4>1. \A m \in Message : <<m>> \in Seq(Message)
          OBVIOUS
        <4>2. QED
          BY <1>q, <4>1 DEF Held
      <3>2. channel' = Append(channel, message[p])
        BY <1>q, <2>1, <2>2, <2>4, <3>1, AppendBehind
      <3>3. QED
        BY <2>1, <2>2, <3>2 DEF Abstract!Next, Abstract!Accept
    <2>5. QED
      BY <1>2, <2>3, <2>4 DEF Push
  <1>3. ASSUME NEW p \in Producers, NotifyOne(p) PROVE Stutters
    BY <1>3 DEF NotifyOne, Notified, Held
  <1>4. CASE TestHolds
    <2>1. CASE queue = <<>>
      BY <1>s, <1>4, <2>1 DEF TestHolds, Held
    <2>2. CASE queue # <<>>
      <3>1. Held' = <<Head(queue)>> /\ queue' = Tail(queue) /\ handed' = handed /\ Held = <<>>
        BY <1>4, <2>2 DEF TestHolds, Held
      <3>2. channel = queue
        BY <1>q, <3>1, ConcatEmptySeq
      <3>3. channel' = queue
        <4>1. <<Head(queue)>> \o Tail(queue) = queue
          BY <1>q, <2>2, HeadThenTail
        <4>2. QED
          BY <3>1, <4>1
      <3>4. QED
        BY <1>s, <3>1, <3>2, <3>3
    <2>3. QED
      BY <2>1, <2>2
  <1>5. CASE TestFails \/ FallAsleep \/ SpuriousWakeup
    BY <1>s, <1>5 DEF TestFails, FallAsleep, SpuriousWakeup, Held
  <1>6. CASE FetchCallback
    <2>1. callback
      BY <1>6 DEF FetchCallback, Awake, Phases
    <2>2. QED
      BY <1>s, <1>6, <2>1 DEF FetchCallback, Held
  <1>7. CASE CallConsumer
    <2>1. Held = <<queued>> /\ Held' = <<>> /\ queue' = queue /\ handed' = Append(handed, queued)
      BY <1>7 DEF CallConsumer, Held
    <2>2. queued \in Message
      BY <1>7 DEF CallConsumer, TypeOK
    <2>3. channel # <<>> /\ Head(channel) = queued /\ Tail(channel) = queue
      BY <1>q, <2>1, <2>2, InHandIsFirst
    <2>4. channel' = queue
      BY <1>q, <2>1, ConcatEmptySeq
    <2>5. QED
      BY <2>1, <2>3, <2>4 DEF Abstract!Next, Abstract!HandOver
  <1>8. CASE SetCallback \/ StopRunning \/ NotifyAll
    <2>1. Stutters
      BY <1>8 DEF SetCallback, StopRunning, NotifyAll, Notified, dispatcherVars, Held
    <2>2. QED
      BY <1>s, <2>1
  <1>9. CASE StartReceiveDispatch
    <2>1. queue = <<>> /\ dpc = "off"
      BY <1>9 DEF StartReceiveDispatch, Awake, Phases
    <2>2. channel = <<>> /\ channel' = <<>> /\ handed' = <<>>
      BY <1>9, <1>q, <2>1, ConcatEmptySeq DEF StartReceiveDispatch, Held
    <2>3. QED
      BY <2>2 DEF Abstract!Next, Abstract!Open
  <1>10. CASE StartFails
    <2>1. queue = <<>>
      BY <1>10 DEF StartFails, Awake, Phases
    <2>2. QED
      BY <1>s, <1>10, <2>1 DEF StartFails, dispatcherVars, Held
  <1>11. CASE ClearQueue
    <2>1. Held' = Held /\ queue' = <<>> /\ handed' = handed
      BY <1>11 DEF ClearQueue, dispatcherVars, Held
    <2>2. CASE Held = <<>>
      <3>1. channel' = <<>> /\ channel = queue
        BY <1>q, <2>1, <2>2, ConcatEmptySeq
      <3>2. CASE queue = <<>>
        BY <1>s, <2>1, <3>1, <3>2
      <3>3. CASE queue # <<>>
        <4>1. channel' = SubSeq(channel, 1, 0)
          BY <3>1, SubSeqEmpty
        <4>2. QED
          BY <2>1, <3>1, <3>3, <4>1 DEF Abstract!Next, Abstract!Close
      <3>4. QED
        BY <3>2, <3>3
    <2>3. CASE Held = <<queued>> /\ dpc \in {"holding", "calling"}
      <3>1. queued \in Message /\ <<queued>> \in Seq(Message)
        <4>1. queued \in Message
          BY <1>q, <2>3
        <4>2. QED
          BY <4>1
      <3>2. channel' = <<queued>>
        BY <2>1, <2>3, <3>1, ConcatEmptySeq
      <3>3. channel # <<>> /\ SubSeq(channel, 1, 1) = <<queued>>
        BY <1>q, <2>3, <3>1, InHandIsFirst, KeepInHand
      <3>4. QED
        BY <2>1, <3>2, <3>3 DEF Abstract!Next, Abstract!Close
    <2>4. QED
      BY <2>2, <2>3 DEF Held
  <1>12. CASE Join
    <2>1. Stutters
      BY <1>12 DEF Join, Held
    <2>2. QED
      BY <1>s, <2>1
  <1>13. CASE UNCHANGED vars
    BY <1>s, <1>13 DEF vars, dispatcherVars, Held
  <1>14. QED
    BY <1>s, <1>1, <1>2, <1>3, <1>4, <1>5, <1>6, <1>7, <1>8, <1>9, <1>10, <1>11, <1>12, <1>13
    DEF Next, Produce, Dispatch, Control

(* Messages reach the consumer in the order in which the FIFO took them,   *)
(* none twice, and none is left out before the session's end.              *)
THEOREM DeliversInOrder == Spec => Abstract!Init /\ [][Abstract!Next]_(Abstract!vars)
  BY TypeInit, TypeNext, AwakeInit, AwakeNext, ImplementsInit, ImplementsNext, PTL DEF Spec
=============================================================================
