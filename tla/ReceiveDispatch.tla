--------------------------- MODULE ReceiveDispatch ---------------------------
(***************************************************************************)
(* The completed-message FIFO of STRPluginMessagingBridge.cpp: the capture *)
(* dispatcher pushes a message under g_receiveDispatchLock and notifies a  *)
(* condition variable; a second thread waits on it, takes messages out and *)
(* calls the consumer, without a lock.  A third thread runs Start and      *)
(* Stop, and waits for both others to end.                                 *)
(*                                                                         *)
(* g_receiveDispatchRunning is atomic and not guarded by the lock.  The    *)
(* dispatcher holds the lock from the test of its predicate until it is    *)
(* asleep; all other sections under the lock are a single action, which    *)
(* waits for the lock to be free.                                          *)
(***************************************************************************)
EXTENDS Integers, Sequences, FiniteSets

CONSTANTS
    Producers,    \* threads that run DeferredReceiveThunk: one in the code
    Capacity,     \* kMaxReceiveDispatchQueue, 256 in the code
    MaxMessages,  \* bound: messages offered to the thunk
    MaxStarts     \* bound: sessions

ASSUME CapacityAssumption == Capacity \in Nat \ {0}
ASSUME BoundsAssumption   == MaxMessages \in Nat /\ MaxStarts \in Nat

Message == 1 .. MaxMessages
None    == 0

VARIABLES
    queue,        \* g_receiveDispatchQueue
    running,      \* g_receiveDispatchRunning
    callback,     \* g_callback is set
    ppc,          \* where each producer is in DeferredReceiveThunk
    message,      \* the message it brings
    dpc,          \* where the dispatcher is in ReceiveDispatchLoop
    queued,       \* its local "queued"
    cpc,          \* where the controlling thread is in Start or Stop
    handed,       \* history: messages given to the consumer in this session
    offered, starts  \* bounds

producerVars == <<ppc, message, offered>>
dispatcherVars == <<dpc, queued, handed>>
controlVars == <<running, callback, cpc, starts>>
vars == <<queue, producerVars, dispatcherVars, controlVars>>

Init ==
    /\ queue = <<>> /\ running = FALSE /\ callback = FALSE
    /\ ppc = [p \in Producers |-> "idle"]
    /\ message = [p \in Producers |-> None]
    /\ dpc = "off" /\ queued = None /\ handed = <<>>
    /\ cpc = "down"
    /\ offered = 0 /\ starts = 0

(* The dispatcher keeps the lock until it is asleep.                       *)
LockIsFree == dpc # "falling asleep"

(* A notification finds the dispatcher asleep, or it is lost.              *)
Notified == IF dpc = "asleep" THEN "testing" ELSE dpc
-----------------------------------------------------------------------------
(* DeferredReceiveThunk.  The capture dispatcher only lives in a session:  *)
(* Bridge::Stop joins it before it stops this FIFO.                        *)
Call(p) ==
    /\ ppc[p] = "idle" /\ cpc = "up" /\ running
    /\ offered < MaxMessages
    /\ offered' = offered + 1
    /\ message' = [message EXCEPT ![p] = offered']
    /\ ppc' = [ppc EXCEPT ![p] = "push"]
    /\ UNCHANGED <<queue, dispatcherVars, controlVars>>

(* Slips: the oldest message makes room, and only a message that joins     *)
(* others is announced.                                                    *)
PushOverOldest(p) ==
    /\ ppc[p] = "push" /\ LockIsFree
    /\ queue' = Append(IF Len(queue) >= Capacity THEN Tail(queue) ELSE queue, message[p])
    /\ ppc' = [ppc EXCEPT ![p] = "notify"]
    /\ UNCHANGED <<message, offered, dispatcherVars, controlVars>>
PushQuietly(p) ==
    /\ ppc[p] = "push" /\ LockIsFree /\ Len(queue) < Capacity
    /\ queue' = Append(queue, message[p])
    /\ ppc' = [ppc EXCEPT ![p] = IF queue = <<>> THEN "idle" ELSE "notify"]
    /\ UNCHANGED <<message, offered, dispatcherVars, controlVars>>

(* The section under the lock: a stopped or full FIFO drops the message.   *)
Push(p) ==
    /\ ppc[p] = "push" /\ LockIsFree
    /\ IF running /\ Len(queue) < Capacity
         THEN /\ queue' = Append(queue, message[p])
              /\ ppc' = [ppc EXCEPT ![p] = "notify"]
         ELSE /\ ppc' = [ppc EXCEPT ![p] = "idle"]
              /\ UNCHANGED queue
    /\ UNCHANGED <<message, offered, dispatcherVars, controlVars>>

(* notify_one                                                              *)
NotifyOne(p) ==
    /\ ppc[p] = "notify"
    /\ ppc' = [ppc EXCEPT ![p] = "idle"]
    /\ dpc' = Notified
    /\ UNCHANGED <<queue, message, offered, queued, handed, controlVars>>

Produce(p) == Call(p) \/ Push(p) \/ NotifyOne(p)
-----------------------------------------------------------------------------
(* ReceiveDispatchLoop.                                                    *)

(* The predicate holds: leave, or take the oldest message.                 *)
TestHolds ==
    /\ dpc = "testing" /\ (~running \/ queue # <<>>)
    /\ IF queue = <<>>
         THEN dpc' = "ended" /\ UNCHANGED <<queue, queued>>
         ELSE dpc' = "holding" /\ queued' = Head(queue) /\ queue' = Tail(queue)
    /\ UNCHANGED <<producerVars, handed, controlVars>>

(* It does not: sleep.  Stop may clear "running" in between.               *)
TestFails ==
    /\ dpc = "testing" /\ running /\ queue = <<>>
    /\ dpc' = "falling asleep"
    /\ UNCHANGED <<queue, producerVars, queued, handed, controlVars>>

FallAsleep ==
    /\ dpc = "falling asleep"
    /\ dpc' = "asleep"
    /\ UNCHANGED <<queue, producerVars, queued, handed, controlVars>>

(* A condition variable may wake its waiter for no reason.                 *)
SpuriousWakeup ==
    /\ dpc = "asleep"
    /\ dpc' = "testing"
    /\ UNCHANGED <<queue, producerVars, queued, handed, controlVars>>

(* The callback is read under g_lock; without one the message is dropped.  *)
FetchCallback ==
    /\ dpc = "holding"
    /\ dpc' = IF callback THEN "calling" ELSE "testing"
    /\ UNCHANGED <<queue, producerVars, queued, handed, controlVars>>

(* The consumer returns, or throws an exception that is caught.            *)
CallConsumer ==
    /\ dpc = "calling"
    /\ handed' = Append(handed, queued)
    /\ dpc' = "testing"
    /\ UNCHANGED <<queue, producerVars, queued, controlVars>>

Dispatch == TestHolds \/ TestFails \/ FallAsleep \/ FetchCallback \/ CallConsumer
-----------------------------------------------------------------------------
(* Bridge::Start and Bridge::Stop.                                         *)

SetCallback ==
    /\ cpc = "down" /\ starts < MaxStarts
    /\ starts' = starts + 1
    /\ callback' = TRUE
    /\ cpc' = "starting"
    /\ UNCHANGED <<queue, producerVars, dispatcherVars, running>>

(* StartReceiveDispatch: a fresh queue and a thread.                       *)
StartReceiveDispatch ==
    /\ cpc = "starting"
    /\ running' = TRUE /\ queue' = <<>>
    /\ dpc' = "testing" /\ handed' = <<>>
    /\ cpc' = "up"
    /\ UNCHANGED <<producerVars, queued, callback, starts>>

(* The thread could not be created, and Start takes the callback back.     *)
StartFails ==
    /\ cpc = "starting"
    /\ queue' = <<>> /\ callback' = FALSE
    /\ cpc' = "down"
    /\ UNCHANGED <<producerVars, dispatcherVars, running, starts>>

(* Receive's Stop has joined the producers; StopReceiveDispatch follows.   *)
StopRunning ==
    /\ cpc = "up" /\ \A p \in Producers : ppc[p] = "idle"
    /\ running' = FALSE
    /\ cpc' = "clearing"
    /\ UNCHANGED <<queue, producerVars, dispatcherVars, callback, starts>>

(* A slip: the queue is cleared without the lock.                          *)
ClearQueueUnlocked ==
    /\ cpc = "clearing"
    /\ queue' = <<>>
    /\ cpc' = "notifying"
    /\ UNCHANGED <<producerVars, dispatcherVars, running, callback, starts>>

ClearQueue ==
    /\ cpc = "clearing" /\ LockIsFree
    /\ queue' = <<>>
    /\ cpc' = "notifying"
    /\ UNCHANGED <<producerVars, dispatcherVars, running, callback, starts>>

NotifyAll ==
    /\ cpc = "notifying"
    /\ dpc' = Notified
    /\ cpc' = "joining"
    /\ UNCHANGED <<queue, producerVars, queued, handed, running, callback, starts>>

(* A slip: Stop does not wait for the dispatcher.                          *)
JoinNot ==
    /\ cpc = "joining"
    /\ callback' = FALSE
    /\ cpc' = "down"
    /\ UNCHANGED <<queue, producerVars, dispatcherVars, running, starts>>

(* The dispatcher has ended; then the callback is taken back.              *)
Join ==
    /\ cpc = "joining" /\ dpc = "ended"
    /\ dpc' = "off"
    /\ callback' = FALSE
    /\ cpc' = "down"
    /\ UNCHANGED <<queue, producerVars, queued, handed, running, starts>>

Control == SetCallback \/ StartReceiveDispatch \/ StartFails
             \/ StopRunning \/ ClearQueue \/ NotifyAll \/ Join

Next == (\E p \in Producers : Produce(p)) \/ Dispatch \/ SpuriousWakeup \/ Control

(* The threads run on.  A message need not come, nor a Start or a Stop,    *)
(* and a wakeup for no reason cannot be relied on.                         *)
Fairness == /\ \A p \in Producers : WF_vars(Push(p) \/ NotifyOne(p))
            /\ WF_vars(Dispatch)
            /\ WF_vars(StartReceiveDispatch \/ ClearQueue \/ NotifyAll \/ Join)

Spec == Init /\ [][Next]_vars /\ Fairness
-----------------------------------------------------------------------------
(* Properties.                                                             *)

(* The type invariant, which ReceiveDispatch_proofs proves.                *)
TypeOK ==
    /\ queue \in Seq(Message) /\ Len(queue) <= Capacity
    /\ running \in BOOLEAN /\ callback \in BOOLEAN
    /\ ppc \in [Producers -> {"idle", "push", "notify"}]
    /\ message \in [Producers -> Message \union {None}]
    /\ \A p \in Producers : ppc[p] # "idle" => message[p] # None
    /\ dpc \in {"off", "testing", "falling asleep", "asleep", "holding", "calling", "ended"}
    /\ queued \in Message \union {None}
    /\ dpc \in {"holding", "calling"} => queued # None
    /\ cpc \in {"down", "starting", "up", "clearing", "notifying", "joining"}
    /\ handed \in Seq(Message)
    /\ offered \in 0 .. MaxMessages /\ starts \in Nat

(* A dispatcher that sleeps although there is a message, or although it    *)
(* has been told to stop, is about to be woken.                            *)
NoLostWakeup ==
    /\ dpc = "asleep" /\ queue # <<>> =>
         \/ \E p \in Producers : ppc[p] = "notify"
         \/ cpc \in {"clearing", "notifying"}
    /\ dpc \in {"falling asleep", "asleep"} /\ ~running => cpc \in {"clearing", "notifying"}

(* No consumer is called before Start or after Stop has returned, and none *)
(* of the session's threads is left behind.                                *)
CalledInSession ==
    /\ cpc = "down" => dpc = "off" /\ ~running /\ queue = <<>>
    /\ dpc = "calling" => callback

(* Stop returns, whatever the dispatcher was about to do.                  *)
StopReturns == cpc = "clearing" ~> cpc = "down"

(* The invariant behind both: which threads there are in which phase of a  *)
(* session, and what has been cleared.                                     *)
Phases ==
    /\ running <=> cpc = "up"
    /\ callback <=> cpc # "down"
    /\ dpc = "off" <=> cpc \in {"down", "starting"}
    /\ cpc # "up" => \A p \in Producers : ppc[p] = "idle"
    /\ cpc \notin {"up", "clearing"} => queue = <<>>
    /\ dpc = "falling asleep" => queue = <<>> /\ cpc \in {"up", "clearing"}
Awake == Phases /\ NoLostWakeup

(* The FIFO keeps the order, loses no message it took but at the end of a  *)
(* session, and hands every one over: it implements OrderedDelivery.       *)
Held == IF dpc \in {"holding", "calling"} THEN <<queued>> ELSE <<>>
Abstract == INSTANCE OrderedDelivery WITH channel <- Held \o queue
Implements == Abstract!Spec
=============================================================================
