---------------------------- MODULE CaptureQueue ----------------------------
(***************************************************************************)
(* The raw capture stage of STRPluginMessagingBridgeReceive.cpp: the       *)
(* threads of Skyrim Together that hit the breakpoint on                   *)
(* TransportService::OnConsume copy STRPM chat packets into a fixed array  *)
(* of slots, and one dispatcher thread takes them out.  No lock is held:   *)
(* a slot goes 0 (free) -> 1 (writing) -> 2 (ready) -> 0 by atomic         *)
(* operations alone, and an order number drawn before the slot is made     *)
(* ready tells the dispatcher which packet came first.                     *)
(*                                                                         *)
(* Every atomic access is an action: the probe of one slot, the copy, the  *)
(* draw of the order number, the publication, and on the other side each   *)
(* slot the dispatcher's scan looks at.  A third thread runs Start and     *)
(* Stop.  A packet is its arrival number; bytes and sizes are abstracted.  *)
(***************************************************************************)
EXTENDS Integers, Sequences, FiniteSets

CONSTANTS
    Producers,    \* the STR threads that call TransportService::OnConsume
    Capacity,     \* kCaptureQueueCapacity, 64 in the code
    MaxEvents     \* bound: packets that reach the breakpoint, and calls of
                  \* Start that reach StartCaptureDispatch, together

ASSUME CapacityAssumption == Capacity \in Nat \ {0}
ASSUME BoundsAssumption   == MaxEvents \in Nat

Slot   == 0 .. Capacity - 1
NoSlot == -1

Free    == 0
Writing == 1
Ready   == 2

VARIABLES
    state,          \* CapturedPacket::state of each slot of g_captureQueue
    order,          \* CapturedPacket::order
    content,        \* the packet in CapturedPacket::bytes
    captureOrder,   \* g_captureOrder: the next order number
    captureProbe,   \* g_captureProbe: where the next reservation starts
    running,        \* g_captureDispatchRunning
    armed,          \* g_breakpointArmed
    pc,             \* where each producer is in TryCaptureSTRPMPacket
    packet,         \* the packet each producer holds
    start,          \* local "start" of ReserveCaptureSlot
    offset,         \* local "offset" of ReserveCaptureSlot
    held,           \* the slot a producer reserved
    dpc,            \* where the dispatcher is in CaptureDispatchLoop
    draining,       \* it is in the second loop, after "running" was seen false
    cursor,         \* the slot FindNextReadyCapture looks at next
    selected,       \* its local "selected"
    selectedOrder,  \* its local "selectedOrder"
    cpc,            \* where the controlling thread is in Start or Stop
    arrivals,       \* history: packets that reached the breakpoint
    base,           \* history: arrivals before the current session
    starts,         \* history: calls of Start
    passed,         \* history: packets STR was left to process itself
    delivered,      \* history: <<packet, order>> handed on in this session
    seen,           \* history: slots ready when the current scan began
    accepted,       \* history: orders ready when Stop cleared "running"
    overlapped      \* history: the slots were reset under a producer

producerVars   == <<pc, packet, start, offset, held>>
dispatcherVars == <<dpc, draining, cursor, selected, selectedOrder, seen>>
controlVars    == <<running, armed, cpc, starts, base, accepted, overlapped>>
counterVars    == <<captureOrder, captureProbe>>
slotVars == <<state, order, content>>
vars == <<slotVars, counterVars, producerVars, dispatcherVars, controlVars,
          arrivals, passed, delivered>>

OwnsSlot(p) == pc[p] \in {"copy", "number", "publish"}

Init ==
    /\ state = [s \in Slot |-> Free]
    /\ order = [s \in Slot |-> 0] /\ content = [s \in Slot |-> 0]
    /\ captureOrder = 1 /\ captureProbe = 0
    /\ running = FALSE /\ armed = FALSE
    /\ pc = [p \in Producers |-> "idle"]
    /\ packet = [p \in Producers |-> 0]
    /\ start = [p \in Producers |-> 0]
    /\ offset = [p \in Producers |-> 0]
    /\ held = [p \in Producers |-> NoSlot]
    /\ dpc = "off" /\ draining = FALSE
    /\ cursor = 0 /\ selected = NoSlot /\ selectedOrder = 0
    /\ cpc = "down"
    /\ arrivals = 0 /\ base = 0 /\ starts = 0
    /\ passed = {} /\ delivered = <<>>
    /\ seen = {} /\ accepted = {} /\ overlapped = FALSE
-----------------------------------------------------------------------------
(* ReceiveExceptionHandler on a producer's thread.                         *)

(* The breakpoint is hit.  A packet of another opcode goes on to STR at    *)
(* once; a chat broadcast draws its probe number in ReserveCaptureSlot.    *)
Arrive(p) ==
    /\ pc[p] = "idle" /\ armed
    /\ arrivals + starts < MaxEvents
    /\ arrivals' = arrivals + 1
    /\ \/ /\ passed' = passed \union {arrivals'}
          /\ UNCHANGED <<producerVars, captureProbe>>
       \/ /\ pc' = [pc EXCEPT ![p] = "probe"]
          /\ packet' = [packet EXCEPT ![p] = arrivals']
          /\ start' = [start EXCEPT ![p] = captureProbe]
          /\ offset' = [offset EXCEPT ![p] = 0]
          /\ captureProbe' = captureProbe + 1
          /\ UNCHANGED <<held, passed>>
    /\ UNCHANGED <<slotVars, captureOrder, dispatcherVars, controlVars, delivered>>

(* Slip: a reservation that keeps clear of ready slots only.               *)
ProbeSlotWriting(p) ==
    LET s == (start[p] + offset[p]) % Capacity IN
    /\ pc[p] = "probe" /\ offset[p] < Capacity
    /\ state[s] # Ready
    /\ state' = [state EXCEPT ![s] = Writing]
    /\ held' = [held EXCEPT ![p] = s]
    /\ pc' = [pc EXCEPT ![p] = "copy"]
    /\ UNCHANGED <<order, content, offset, packet, start, counterVars, dispatcherVars,
                   controlVars, arrivals, passed, delivered>>

(* One compare_exchange of the reservation loop.                           *)
ProbeSlot(p) ==
    LET s == (start[p] + offset[p]) % Capacity IN
    /\ pc[p] = "probe" /\ offset[p] < Capacity
    /\ \/ /\ state[s] = Free
          /\ state' = [state EXCEPT ![s] = Writing]
          /\ held' = [held EXCEPT ![p] = s]
          /\ pc' = [pc EXCEPT ![p] = "copy"]
          /\ UNCHANGED offset
       \/ /\ state[s] # Free
          /\ offset' = [offset EXCEPT ![p] = @ + 1]
          /\ UNCHANGED <<state, held, pc>>
    /\ UNCHANGED <<order, content, packet, start, counterVars, dispatcherVars, controlVars,
                   arrivals, passed, delivered>>

(* A slip: the packet is suppressed although no slot holds it.             *)
SaturatedDrops(p) ==
    /\ pc[p] = "probe" /\ offset[p] = Capacity
    /\ pc' = [pc EXCEPT ![p] = "idle"]
    /\ UNCHANGED <<slotVars, counterVars, packet, start, offset, held, passed,
                   dispatcherVars, controlVars, arrivals, delivered>>

(* Every slot was taken: the packet is not suppressed.                     *)
Saturated(p) ==
    /\ pc[p] = "probe" /\ offset[p] = Capacity
    /\ pc' = [pc EXCEPT ![p] = "idle"]
    /\ passed' = passed \union {packet[p]}
    /\ UNCHANGED <<slotVars, counterVars, packet, start, offset, held,
                   dispatcherVars, controlVars, arrivals, delivered>>

(* The bytes are copied; an unreadable packet, or a chat line without the  *)
(* STRPM prefix, gives the slot back and goes on to STR.                   *)
CopyPacket(p) ==
    /\ pc[p] = "copy"
    /\ order' = [order EXCEPT ![held[p]] = 0]
    /\ content' = [content EXCEPT ![held[p]] = packet[p]]
    /\ \/ /\ pc' = [pc EXCEPT ![p] = "number"]
          /\ UNCHANGED <<state, held, passed>>
       \/ /\ state' = [state EXCEPT ![held[p]] = Free]
          /\ pc' = [pc EXCEPT ![p] = "idle"]
          /\ held' = [held EXCEPT ![p] = NoSlot]
          /\ passed' = passed \union {packet[p]}
    /\ UNCHANGED <<counterVars, packet, start, offset, dispatcherVars,
                   controlVars, arrivals, delivered>>

(* slot->order = g_captureOrder.fetch_add(1)                               *)
TakeNumber(p) ==
    /\ pc[p] = "number"
    /\ order' = [order EXCEPT ![held[p]] = captureOrder]
    /\ captureOrder' = captureOrder + 1
    /\ pc' = [pc EXCEPT ![p] = "publish"]
    /\ UNCHANGED <<state, content, captureProbe, packet, start, offset, held,
                   dispatcherVars,
                   controlVars, arrivals, passed, delivered>>

(* slot->state.store(2); the handler then returns to OnConsume's caller    *)
(* without running it.  (The return address it reads lies on the stack of  *)
(* the running thread, so that read does not fail.)                        *)
Publish(p) ==
    /\ pc[p] = "publish"
    /\ state' = [state EXCEPT ![held[p]] = Ready]
    /\ pc' = [pc EXCEPT ![p] = "idle"]
    /\ held' = [held EXCEPT ![p] = NoSlot]
    /\ UNCHANGED <<order, content, counterVars, packet, start, offset, dispatcherVars,
                   controlVars, arrivals, passed, delivered>>

Produce(p) == ProbeSlot(p) \/ Saturated(p) \/ CopyPacket(p) \/ TakeNumber(p)
                \/ Publish(p)
-----------------------------------------------------------------------------
(* CaptureDispatchLoop.                                                    *)

IsReady(s) == state[s] = Ready
ReadySlots == {s \in Slot : IsReady(s)}

(* A slip: the loop ends with "running", with nothing drained.             *)
BeginScanNoDrain ==
    /\ dpc = "top"
    /\ dpc' = IF running THEN "scan" ELSE "exited"
    /\ cursor' = 0 /\ selected' = NoSlot /\ selectedOrder' = 0
    /\ seen' = ReadySlots
    /\ UNCHANGED <<slotVars, counterVars, producerVars, draining, controlVars,
                   arrivals, passed, delivered>>

(* The head of either loop: "running" is read, and a scan begins.          *)
BeginScan ==
    /\ dpc = "top"
    /\ dpc' = "scan"
    /\ draining' = (draining \/ ~running)
    /\ cursor' = 0 /\ selected' = NoSlot /\ selectedOrder' = 0
    /\ seen' = ReadySlots
    /\ UNCHANGED <<slotVars, counterVars, producerVars, controlVars, arrivals,
                   passed, delivered>>

(* A slip: the last ready slot is taken, whatever its order.               *)
ScanSlotLast ==
    /\ dpc = "scan" /\ cursor < Capacity
    /\ cursor' = cursor + 1
    /\ IF IsReady(cursor)
         THEN selected' = cursor /\ selectedOrder' = order[cursor]
         ELSE UNCHANGED <<selected, selectedOrder>>
    /\ UNCHANGED <<slotVars, counterVars, producerVars, dpc, draining, seen,
                   controlVars, arrivals, passed, delivered>>

(* One slot of FindNextReadyCapture.                                       *)
ScanSlot ==
    /\ dpc = "scan" /\ cursor < Capacity
    /\ cursor' = cursor + 1
    /\ IF IsReady(cursor) /\ (selected = NoSlot \/ order[cursor] < selectedOrder)
         THEN selected' = cursor /\ selectedOrder' = order[cursor]
         ELSE UNCHANGED <<selected, selectedOrder>>
    /\ UNCHANGED <<slotVars, counterVars, producerVars, dpc, draining, seen,
                   controlVars, arrivals, passed, delivered>>

(* Slips: break where the first loop has continue, and the reverse.        *)
ScanEmptyBreaks ==
    /\ dpc = "scan" /\ cursor = Capacity /\ selected = NoSlot
    /\ dpc' = "exited"
    /\ UNCHANGED <<slotVars, counterVars, producerVars, draining, cursor, selected,
                   selectedOrder, seen, controlVars, arrivals, passed, delivered>>

ScanEmptyContinues ==
    /\ dpc = "scan" /\ cursor = Capacity /\ selected = NoSlot
    /\ dpc' = "top"
    /\ UNCHANGED <<slotVars, counterVars, producerVars, draining, cursor, selected,
                   selectedOrder, seen, controlVars, arrivals, passed, delivered>>

(* Nothing was ready: sleep and look again, or leave the draining loop.    *)
ScanEmpty ==
    /\ dpc = "scan" /\ cursor = Capacity /\ selected = NoSlot
    /\ dpc' = IF draining THEN "exited" ELSE "top"
    /\ UNCHANGED <<slotVars, counterVars, producerVars, draining, cursor, selected,
                   selectedOrder, seen, controlVars, arrivals, passed, delivered>>

(* PeekRawChatEnvelope and DeliverEnvelope, run on the slot's bytes.       *)
Deliver ==
    /\ dpc = "scan" /\ cursor = Capacity /\ selected # NoSlot
    /\ dpc' = "release"
    /\ delivered' = Append(delivered, <<content[selected], order[selected]>>)
    /\ UNCHANGED <<slotVars, counterVars, producerVars, draining, cursor, selected,
                   selectedOrder, seen, controlVars, arrivals, passed>>

(* The slot is given back.                                                 *)
Release ==
    /\ dpc = "release"
    /\ state' = [state EXCEPT ![selected] = Free]
    /\ order' = [order EXCEPT ![selected] = 0]
    /\ dpc' = "top" /\ selected' = NoSlot
    /\ UNCHANGED <<content, counterVars, producerVars, draining, cursor, selectedOrder,
                   seen, controlVars, arrivals, passed, delivered>>

Dispatch == BeginScan \/ ScanSlot \/ ScanEmpty \/ Deliver \/ Release
-----------------------------------------------------------------------------
(* Start and Stop, on the thread of the bridge's bootstrap or owner.       *)

(* StartCaptureDispatch: counters and slots are reset and the thread is    *)
(* created, or could not be.  The history of the session starts over.      *)
StartCaptureDispatch ==
    /\ cpc = "down" /\ arrivals + starts < MaxEvents
    /\ starts' = starts + 1
    /\ captureOrder' = 1 /\ captureProbe' = 0
    /\ state' = [s \in Slot |-> Free] /\ order' = [s \in Slot |-> 0]
    /\ overlapped' = (overlapped \/ \E p \in Producers : pc[p] # "idle")
    /\ delivered' = <<>> /\ accepted' = {} /\ base' = arrivals
    /\ \/ /\ running' = TRUE /\ cpc' = "starting"
          /\ dpc' = "top" /\ draining' = FALSE
       \/ UNCHANGED <<running, cpc, dpc, draining>>
    /\ UNCHANGED <<content, producerVars, cursor, selected, selectedOrder, seen, armed,
                   arrivals, passed>>

(* ResolveOnConsumeAddress and ArmBreakpoint succeed.                      *)
Arm ==
    /\ cpc = "starting"
    /\ armed' = TRUE /\ cpc' = "up"
    /\ UNCHANGED <<slotVars, counterVars, producerVars, dispatcherVars, running,
                   starts, base, accepted, overlapped, arrivals, passed, delivered>>

(* One of them fails and Start takes the dispatcher down again.            *)
AbortStart ==
    /\ cpc = "starting"
    /\ running' = FALSE /\ cpc' = "aborting"
    /\ UNCHANGED <<slotVars, counterVars, producerVars, dispatcherVars, armed,
                   starts, base, accepted, overlapped, arrivals, passed, delivered>>

(* Stop: the original byte is restored and the handler removed, which does *)
(* not wait for a thread that is already inside it.                        *)
Disarm ==
    /\ cpc = "up"
    /\ armed' = FALSE /\ cpc' = "stopping"
    /\ UNCHANGED <<slotVars, counterVars, producerVars, dispatcherVars, running,
                   starts, base, accepted, overlapped, arrivals, passed, delivered>>

(* StopCaptureDispatch: running.exchange(false) ...                        *)
SignalStop ==
    /\ cpc = "stopping"
    /\ running' = FALSE /\ cpc' = "joining"
    /\ accepted' = {order[s] : s \in ReadySlots}
    /\ UNCHANGED <<slotVars, counterVars, producerVars, dispatcherVars, armed,
                   starts, base, overlapped, arrivals, passed, delivered>>

(* ... and join.                                                           *)
JoinDispatch ==
    /\ cpc \in {"joining", "aborting"} /\ dpc = "exited"
    /\ dpc' = "off"
    /\ cpc' = IF cpc = "joining" THEN "clearing" ELSE "down"
    /\ UNCHANGED <<slotVars, counterVars, producerVars, draining, cursor, selected,
                   selectedOrder, seen, running, armed, starts, base,
                   accepted, overlapped, arrivals, passed, delivered>>

(* The rest of Stop: every slot is made free, whoever is writing to it.    *)
ClearSlots ==
    /\ cpc = "clearing"
    /\ state' = [s \in Slot |-> Free] /\ order' = [s \in Slot |-> 0]
    /\ overlapped' = (overlapped \/ \E p \in Producers : pc[p] # "idle")
    /\ cpc' = "down"
    /\ UNCHANGED <<content, counterVars, producerVars, dispatcherVars, running, armed,
                   starts, base, accepted, arrivals, passed, delivered>>

Control == StartCaptureDispatch \/ Arm \/ AbortStart \/ Disarm \/ SignalStop
             \/ JoinDispatch \/ ClearSlots
-----------------------------------------------------------------------------
Next == \/ \E p \in Producers : Arrive(p) \/ Produce(p)
        \/ Dispatch
        \/ Control

(* The handler and the dispatcher are ordinary threads that keep running;  *)
(* so does a Stop once called.  Packets, Start and Stop need not happen.   *)
Fairness == /\ \A p \in Producers : WF_vars(Produce(p))
            /\ WF_vars(Dispatch)
            /\ WF_vars(SignalStop \/ JoinDispatch \/ ClearSlots)

Spec == Init /\ [][Next]_vars /\ Fairness
-----------------------------------------------------------------------------
(* Properties.  "overlapped" is excluded from those about the slots: a     *)
(* handler that is still running when the slots are reset breaks them all, *)
(* and nothing in the code prevents it (see the README's hazards).         *)

FlagsOK == /\ running \in BOOLEAN /\ armed \in BOOLEAN
           /\ draining \in BOOLEAN /\ overlapped \in BOOLEAN

SlotsOK == /\ state \in [Slot -> {Free, Writing, Ready}]
           /\ order \in [Slot -> Nat] /\ content \in [Slot -> Nat]

ProducersOK ==
    /\ pc \in [Producers -> {"idle", "probe", "copy", "number", "publish"}]
    /\ packet \in [Producers -> Nat]
    /\ start \in [Producers -> Nat] /\ offset \in [Producers -> 0 .. Capacity]
    /\ held \in [Producers -> Slot \union {NoSlot}]
    /\ \A p \in Producers : OwnsSlot(p) <=> held[p] \in Slot

DispatcherOK ==
    /\ dpc \in {"off", "top", "scan", "release", "exited"}
    /\ cursor \in 0 .. Capacity
    /\ selected \in Slot \union {NoSlot} /\ selectedOrder \in Nat
    /\ (dpc = "release" => selected \in Slot)
    /\ seen \subseteq Slot

ControlOK ==
    /\ cpc \in {"down", "starting", "aborting", "up", "stopping", "joining", "clearing"}
    /\ base \in Nat /\ starts \in Nat
    /\ captureOrder \in Nat /\ captureProbe \in Nat /\ arrivals \in Nat

HistoryOK == /\ passed \subseteq Nat /\ accepted \subseteq Nat
             /\ delivered \in Seq(Nat \X Nat)

(* The type invariant, which CaptureQueue_proofs proves.                   *)
TypeOK == FlagsOK /\ SlotsOK /\ ProducersOK /\ DispatcherOK /\ ControlOK /\ HistoryOK

(* A slot has at most one writer and the writer has it to itself: two STR  *)
(* threads never copy into the same slot, and the dispatcher never reads,  *)
(* delivers or frees a slot that is being written.                         *)
SlotsOwned ==
    ~overlapped =>
        /\ \A p \in Producers : OwnsSlot(p) => state[held[p]] = Writing
        /\ \A p, q \in Producers : p # q /\ OwnsSlot(p) /\ OwnsSlot(q) => held[p] # held[q]
        /\ selected # NoSlot => /\ IsReady(selected)
                                /\ order[selected] = selectedOrder

(* A packet that reached the breakpoint is in exactly one place: with the  *)
(* thread that captures it, left to STR, in a ready slot, or delivered.    *)
(* None is lost when the queue is full, none is delivered twice, and none  *)
(* is both delivered and shown by STR, from Start to the end of the drain. *)
InHand(n)      == {p \in Producers : pc[p] # "idle" /\ packet[p] = n}
Waiting(n)     == {s \in ReadySlots : content[s] = n
                                        /\ ~(dpc = "release" /\ s = selected)}
DeliveredAt(n) == {i \in DOMAIN delivered : delivered[i][1] = n}
OneDestination ==
    ~overlapped /\ cpc # "down" =>
        \A n \in base + 1 .. arrivals :
            Cardinality(InHand(n)) + Cardinality(Waiting(n)) + Cardinality(DeliveredAt(n))
                + Cardinality(passed \intersect {n}) = 1

(* What the order numbers do guarantee: the dispatcher never delivers a    *)
(* packet while one with a smaller order number, ready since before the    *)
(* scan began, waits.  So once it is ready, a packet is overtaken by at    *)
(* most the one delivery whose scan was under way.                         *)
SelectsOldestSeen ==
    ~overlapped /\ dpc = "scan" /\ cursor = Capacity =>
        \A s \in seen : selected # NoSlot /\ order[selected] <= order[s]

(* The drain: every packet that was ready when Stop cleared "running" has  *)
(* been delivered when the join returns, before the slots are cleared.     *)
DrainComplete ==
    ~overlapped /\ cpc = "clearing" =>
        \A o \in accepted : \E i \in DOMAIN delivered : delivered[i][2] = o

(* A captured packet is never starved by later ones: it is delivered, or   *)
(* the session ends.                                                       *)
ReadyIsDelivered ==
    \A o \in 1 .. MaxEvents - 1 :
        (~overlapped /\ cpc = "up" /\ \E s \in ReadySlots : order[s] = o)
            ~> (overlapped \/ cpc = "down" \/ \E i \in DOMAIN delivered : delivered[i][2] = o)

(* Stop returns: the drain ends although handlers may still be publishing. *)
StopReturns == cpc = "stopping" ~> cpc = "down"
-----------------------------------------------------------------------------
(* The inductive invariant behind SlotsOwned, SelectsOldestSeen and        *)
(* DrainComplete (proved in CaptureQueue_proofs).                          *)

(* How the control thread, "running" and the dispatcher go together.       *)
Phases ==
    /\ running <=> cpc \in {"starting", "up", "stopping"}
    /\ dpc = "off" <=> cpc \in {"down", "clearing"}
    /\ selected # NoSlot => dpc \in {"scan", "release"}
    /\ running /\ dpc # "off" => ~draining
    /\ dpc = "exited" => draining

Owned ==
    /\ \A p \in Producers : OwnsSlot(p) => state[held[p]] = Writing
    /\ \A p, q \in Producers : p # q /\ OwnsSlot(p) /\ OwnsSlot(q) => held[p] # held[q]
    /\ selected # NoSlot => state[selected] = Ready /\ order[selected] = selectedOrder

(* A slot of "seen" stays ready during the scan, and once the scan has     *)
(* passed it the selection is at least as old.                             *)
Scanned ==
    dpc = "scan" => \A s \in seen :
        /\ state[s] = Ready
        /\ s < cursor => selected # NoSlot /\ selectedOrder <= order[s]

WasDelivered(o) == \E i \in DOMAIN delivered : delivered[i][2] = o

(* An accepted packet is delivered or waits in a slot; a draining scan has *)
(* seen that slot, and the dispatcher leaves only when none is left.       *)
Drained ==
    /\ dpc = "release" => WasDelivered(order[selected])
    /\ cpc \in {"joining", "clearing"} => \A o \in accepted :
         \/ WasDelivered(o)
         \/ /\ cpc = "joining" /\ dpc # "exited"
            /\ \E s \in Slot : /\ state[s] = Ready /\ order[s] = o
                               /\ dpc = "scan" /\ draining => s \in seen

IInv == Phases /\ (~overlapped => Owned /\ Scanned /\ Drained)

(* What is behind OneDestination.  Packets are numbered as they arrive,    *)
(* and a slot whose copy is finished holds its owner's packet.             *)
Busy  == {p \in Producers : pc[p] # "idle"}
Waits == {s \in Slot : state[s] = Ready /\ ~(dpc = "release" /\ s = selected)}
Got   == [i \in DOMAIN delivered |-> delivered[i][1]]

Numbered ==
    /\ base <= arrivals
    /\ \A p \in Producers : packet[p] <= arrivals
    /\ \A s \in Slot : content[s] <= arrivals
    /\ \A i \in DOMAIN Got : Got[i] <= arrivals
    /\ \A n \in passed : n <= arrivals

Written == \A p \in Producers : pc[p] \in {"number", "publish"} =>
               content[held[p]] = packet[p]

(* No two threads, slots or deliveries have the same packet, nor have two  *)
(* of different kinds, nor is one of theirs left to STR; and each packet   *)
(* of the session is with one of them.                                     *)
Distinct ==
    /\ \A p, q \in Busy : p # q => packet[p] # packet[q]
    /\ \A s, t \in Waits : s # t => content[s] # content[t]
    /\ \A i, j \in DOMAIN Got : i # j => Got[i] # Got[j]

Apart ==
    /\ \A p \in Busy, s \in Waits : packet[p] # content[s]
    /\ \A p \in Busy, i \in DOMAIN Got : packet[p] # Got[i]
    /\ \A s \in Waits, i \in DOMAIN Got : content[s] # Got[i]

NotPassed ==
    /\ \A p \in Busy : packet[p] \notin passed
    /\ \A s \in Waits : content[s] \notin passed
    /\ \A i \in DOMAIN Got : Got[i] \notin passed

Somewhere ==
    \A n \in base + 1 .. arrivals :
        \/ n \in passed
        \/ \E p \in Busy : packet[p] = n
        \/ \E s \in Waits : content[s] = n
        \/ \E i \in DOMAIN Got : Got[i] = n

Places == Distinct /\ Apart /\ NotPassed /\ Somewhere

Located ==
    /\ Numbered
    /\ ~overlapped => Written
    /\ ~overlapped /\ cpc # "down" => Places
=============================================================================
