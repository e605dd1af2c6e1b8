------------------------ MODULE CaptureQueue_proofs ------------------------
(* Proofs about CaptureQueue, for any set of receive threads, any number   *)
(* of slots and any number of packets and sessions.                        *)
EXTENDS CaptureQueue, FiniteSetTheorems, TLAPS

USE CapacityAssumption, BoundsAssumption
USE DEF Slot, NoSlot, Free, Writing, Ready

(* The flags, apart from the rest: the solvers treat Booleans badly.       *)
LEMMA FlagsInit == Init => FlagsOK
  BY DEF Init, FlagsOK

LEMMA FlagsNext == ASSUME FlagsOK, [Next]_vars PROVE FlagsOK'
  <1> USE DEF FlagsOK, controlVars, dispatcherVars
  <1>1. ASSUME NEW p \in Producers, Arrive(p) PROVE FlagsOK'
    BY <1>1 DEF Arrive
  <1>2. ASSUME NEW p \in Producers, Produce(p) PROVE FlagsOK'
    BY <1>2 DEF Produce, ProbeSlot, Saturated, CopyPacket, TakeNumber, Publish
  <1>3. CASE Dispatch
    BY <1>3 DEF Dispatch, BeginScan, ScanSlot, ScanEmpty, Deliver, Release
  <1>4. CASE StartCaptureDispatch
    BY <1>4 DEF StartCaptureDispatch
  <1>5. CASE ClearSlots
    BY <1>5 DEF ClearSlots
  <1>6. CASE Arm \/ AbortStart \/ Disarm \/ SignalStop \/ JoinDispatch
    BY <1>6 DEF Arm, AbortStart, Disarm, SignalStop, JoinDispatch
  <1>7. CASE UNCHANGED vars
    BY <1>7 DEF vars
  <1>8. QED
    BY <1>1, <1>2, <1>3, <1>4, <1>5, <1>6, <1>7 DEF Next, Control

LEMMA TypeInit == Init => TypeOK
  BY FlagsInit DEF Init, TypeOK, OwnsSlot, SlotsOK, ProducersOK, DispatcherOK,
     ControlOK, HistoryOK

(* The slot a reservation looks at exists.                                 *)
LEMMA ProbedSlot ==
    ASSUME NEW a \in Nat, NEW b \in Nat PROVE (a + b) % Capacity \in Slot
  OBVIOUS

LEMMA SlotsNext == ASSUME TypeOK, [Next]_vars PROVE SlotsOK'
  <1> USE DEF TypeOK, SlotsOK, slotVars
  <1>1. ASSUME NEW p \in Producers, ProbeSlot(p) PROVE SlotsOK'
    <2>1. start[p] \in Nat /\ offset[p] \in Nat
      BY DEF ProducersOK
    <2>2. (start[p] + offset[p]) % Capacity \in Slot
      BY <2>1, ProbedSlot
    <2>3. QED
      BY <1>1, <2>2 DEF ProbeSlot
  <1>2. ASSUME NEW p \in Producers, CopyPacket(p) \/ TakeNumber(p) \/ Publish(p)
        PROVE  SlotsOK'
    <2>1. held[p] \in Slot /\ packet[p] \in Nat /\ captureOrder \in Nat
      BY <1>2 DEF ProducersOK, ControlOK, CopyPacket, TakeNumber, Publish, OwnsSlot
    <2>2. CASE CopyPacket(p)
      BY <2>1, <2>2 DEF CopyPacket
    <2>3. CASE TakeNumber(p)
      BY <2>1, <2>3 DEF TakeNumber
    <2>4. CASE Publish(p)
      BY <2>1, <2>4 DEF Publish
    <2>5. QED
      BY <1>2, <2>2, <2>3, <2>4
  <1>3. CASE Release
    BY <1>3 DEF Release, DispatcherOK
  <1>4. CASE StartCaptureDispatch \/ ClearSlots
    BY <1>4 DEF StartCaptureDispatch, ClearSlots
  <1>5. ASSUME UNCHANGED slotVars PROVE SlotsOK'
    BY <1>5
  <1>6. QED
    BY <1>1, <1>2, <1>3, <1>4, <1>5
    DEF Next, Produce, Dispatch, Control, vars, Arrive, Saturated, BeginScan, ScanSlot,
        ScanEmpty, Deliver, Arm, AbortStart, Disarm, SignalStop, JoinDispatch

LEMMA ProducersNext == ASSUME TypeOK, [Next]_vars PROVE ProducersOK'
  <1> USE DEF TypeOK, ProducersOK, OwnsSlot
  <1>1. ASSUME NEW p \in Producers, Arrive(p) PROVE ProducersOK'
    BY <1>1 DEF Arrive, producerVars, ControlOK
  <1>2. ASSUME NEW p \in Producers, ProbeSlot(p) PROVE ProducersOK'
    <2>1. start[p] \in Nat /\ offset[p] \in Nat
      OBVIOUS
    <2>2. (start[p] + offset[p]) % Capacity \in Slot
      BY <2>1, ProbedSlot
    <2>3. QED
      BY <1>2, <2>2 DEF ProbeSlot
  <1>3. ASSUME NEW p \in Producers, Saturated(p) PROVE ProducersOK'
    BY <1>3 DEF Saturated
  <1>4. ASSUME NEW p \in Producers, CopyPacket(p) PROVE ProducersOK'
    BY <1>4 DEF CopyPacket
  <1>5. ASSUME NEW p \in Producers, TakeNumber(p) PROVE ProducersOK'
    BY <1>5 DEF TakeNumber
  <1>6. ASSUME NEW p \in Producers, Publish(p) PROVE ProducersOK'
    BY <1>6 DEF Publish
  <1>7. ASSUME UNCHANGED producerVars PROVE ProducersOK'
    BY <1>7 DEF producerVars
  <1>8. QED
    BY <1>1, <1>2, <1>3, <1>4, <1>5, <1>6, <1>7
    DEF Next, Produce, Dispatch, Control, vars, BeginScan, ScanSlot, ScanEmpty, Deliver,
        Release, StartCaptureDispatch, Arm, AbortStart, Disarm, SignalStop, JoinDispatch,
        ClearSlots

LEMMA DispatcherNext == ASSUME TypeOK, [Next]_vars PROVE DispatcherOK'
  <1> USE DEF TypeOK, DispatcherOK
  <1>1. CASE BeginScan
    BY <1>1 DEF BeginScan, ReadySlots
  <1>2. CASE ScanSlot
    <2>1. cursor \in Slot /\ cursor + 1 \in 0 .. Capacity
      BY <1>2, CapacityAssumption DEF ScanSlot, Slot
    <2>2. order[cursor] \in Nat
      BY <2>1 DEF SlotsOK
    <2>3. cursor' \in 0 .. Capacity
      BY <1>2, <2>1 DEF ScanSlot
    <2>4. selected' \in Slot \union {NoSlot} /\ selectedOrder' \in Nat
      BY <1>2, <2>1, <2>2 DEF ScanSlot
    <2>5. seen' = seen /\ dpc' = dpc /\ dpc = "scan"
      BY <1>2 DEF ScanSlot
    <2>6. QED
      BY <2>3, <2>4, <2>5
  <1>3. CASE ScanEmpty
    BY <1>3 DEF ScanEmpty
  <1>4. CASE Deliver
    BY <1>4 DEF Deliver
  <1>5. CASE Release
    BY <1>5 DEF Release
  <1>6. CASE StartCaptureDispatch
    BY <1>6 DEF StartCaptureDispatch
  <1>7. CASE JoinDispatch
    BY <1>7 DEF JoinDispatch
  <1>8. ASSUME UNCHANGED dispatcherVars PROVE DispatcherOK'
    BY <1>8 DEF dispatcherVars
  <1>9. QED
    BY <1>1, <1>2, <1>3, <1>4, <1>5, <1>6, <1>7, <1>8
    DEF Next, Produce, Dispatch, Control, vars, Arrive, ProbeSlot, Saturated, CopyPacket,
        TakeNumber, Publish, Arm, AbortStart, Disarm, SignalStop, ClearSlots

LEMMA ControlNext == ASSUME TypeOK, [Next]_vars PROVE ControlOK'
  <1> USE DEF TypeOK, ControlOK, controlVars, counterVars
  <1>1. ASSUME NEW p \in Producers, Arrive(p) PROVE ControlOK'
    BY <1>1 DEF Arrive
  <1>2. ASSUME NEW p \in Producers, Produce(p) PROVE ControlOK'
    BY <1>2 DEF Produce, ProbeSlot, Saturated, CopyPacket, TakeNumber, Publish
  <1>3. CASE Dispatch
    BY <1>3 DEF Dispatch, BeginScan, ScanSlot, ScanEmpty, Deliver, Release
  <1>4. CASE StartCaptureDispatch
    BY <1>4 DEF StartCaptureDispatch
  <1>5. CASE Arm \/ AbortStart \/ Disarm \/ SignalStop \/ JoinDispatch \/ ClearSlots
    BY <1>5 DEF Arm, AbortStart, Disarm, SignalStop, JoinDispatch, ClearSlots
  <1>6. CASE UNCHANGED vars
    BY <1>6 DEF vars
  <1>7. QED
    BY <1>1, <1>2, <1>3, <1>4, <1>5, <1>6 DEF Next, Control

LEMMA HistoryNext == ASSUME TypeOK, [Next]_vars PROVE HistoryOK'
  <1> USE DEF TypeOK, HistoryOK, controlVars
  <1>1. ASSUME NEW p \in Producers, Arrive(p) PROVE HistoryOK'
    <2>1. arrivals' \in Nat
      BY <1>1 DEF Arrive, ControlOK
    <2>2. UNCHANGED <<accepted, delivered>> /\ passed' \subseteq passed \union {arrivals'}
      BY <1>1 DEF Arrive
    <2>3. QED
      BY <2>1, <2>2
  <1>2. ASSUME NEW p \in Producers, Produce(p) PROVE HistoryOK'
    BY <1>2
    DEF Produce, ProbeSlot, Saturated, CopyPacket, TakeNumber, Publish, ProducersOK
  <1>3. CASE Deliver
    <2>1. <<content[selected], order[selected]>> \in Nat \X Nat
      BY <1>3 DEF Deliver, DispatcherOK, SlotsOK
    <2>2. QED
      BY <1>3, <2>1 DEF Deliver
  <1>4. CASE SignalStop
    BY <1>4 DEF SignalStop, ReadySlots, IsReady, SlotsOK
  <1>5. CASE StartCaptureDispatch
    BY <1>5 DEF StartCaptureDispatch
  <1>6. ASSUME UNCHANGED <<passed, accepted, delivered>> PROVE HistoryOK'
    BY <1>6
  <1>7. QED
    BY <1>1, <1>2, <1>3, <1>4, <1>5, <1>6
    DEF Next, Dispatch, Control, vars, BeginScan, ScanSlot, ScanEmpty, Release, Arm,
        AbortStart, Disarm, JoinDispatch, ClearSlots

LEMMA TypeNext == TypeOK /\ [Next]_vars => TypeOK'
  BY FlagsNext, SlotsNext, ProducersNext, DispatcherNext, ControlNext, HistoryNext DEF TypeOK

(* Every variable keeps its type; a thread holds a slot exactly while it   *)
(* is between its reservation and its publication.                         *)
THEOREM TypeCorrect == Spec => []TypeOK
  BY TypeInit, TypeNext, PTL DEF Spec
-----------------------------------------------------------------------------
(* The inductive invariant, part by part.                                  *)

LEMMA IInvInit == Init => IInv
  BY DEF Init, IInv, Phases, Owned, Scanned, Drained, OwnsSlot

LEMMA OverlappedStays == ASSUME TypeOK, [Next]_vars, ~overlapped' PROVE ~overlapped
  <1> USE DEF controlVars
  <1>1. ASSUME NEW p \in Producers, Arrive(p) \/ Produce(p) PROVE ~overlapped
    BY <1>1 DEF Arrive, Produce, ProbeSlot, Saturated, CopyPacket, TakeNumber, Publish
  <1>2. CASE Dispatch
    BY <1>2 DEF Dispatch, BeginScan, ScanSlot, ScanEmpty, Deliver, Release
  <1>3. CASE StartCaptureDispatch
    BY <1>3 DEF StartCaptureDispatch
  <1>4. CASE ClearSlots
    BY <1>4 DEF ClearSlots
  <1>5. CASE Arm \/ AbortStart \/ Disarm \/ SignalStop \/ JoinDispatch
    BY <1>5 DEF Arm, AbortStart, Disarm, SignalStop, JoinDispatch
  <1>6. CASE UNCHANGED vars
    BY <1>6 DEF vars
  <1>7. QED
    BY <1>1, <1>2, <1>3, <1>4, <1>5, <1>6 DEF Next, Control

LEMMA PhasesNext == ASSUME TypeOK, Phases, [Next]_vars PROVE Phases'
  <1> USE DEF Phases, dispatcherVars, controlVars, TypeOK, FlagsOK
  <1>1. ASSUME NEW p \in Producers, Arrive(p) \/ Produce(p) PROVE Phases'
    BY <1>1 DEF Arrive, Produce, ProbeSlot, Saturated, CopyPacket, TakeNumber, Publish
  <1>2. CASE BeginScan
    BY <1>2 DEF BeginScan
  <1>3. CASE ScanSlot
    BY <1>3 DEF ScanSlot
  <1>4. CASE ScanEmpty
    BY <1>4 DEF ScanEmpty
  <1>5. CASE Deliver \/ Release
    BY <1>5 DEF Deliver, Release
  <1>6. CASE StartCaptureDispatch
    BY <1>6 DEF StartCaptureDispatch
  <1>7. CASE Arm
    BY <1>7 DEF Arm
  <1>8. CASE AbortStart
    BY <1>8 DEF AbortStart
  <1>9. CASE Disarm
    BY <1>9 DEF Disarm
  <1>10. CASE SignalStop
    BY <1>10 DEF SignalStop
  <1>11. CASE JoinDispatch
    BY <1>11 DEF JoinDispatch
  <1>12. CASE ClearSlots
    BY <1>12 DEF ClearSlots
  <1>13. CASE UNCHANGED vars
    BY <1>13 DEF vars
  <1>14. QED
    BY <1>1, <1>2, <1>3, <1>4, <1>5, <1>6, <1>7, <1>8, <1>9, <1>10, <1>11, <1>12, <1>13
    DEF Next, Dispatch, Control

(* A step that leaves the owners their slots and the selection alone keeps *)
(* Owned.                                                                  *)
LEMMA StillOwned ==
    ASSUME Owned, UNCHANGED <<selected, selectedOrder>>,
           selected # NoSlot => order'[selected] = order[selected],
           selected # NoSlot => state'[selected] = state[selected],
           \A q \in Producers : OwnsSlot(q)' =>
               OwnsSlot(q) /\ held'[q] = held[q] /\ state'[held[q]] = state[held[q]]
    PROVE  Owned'
  <1>1. \A q \in Producers : OwnsSlot(q)' => state'[held'[q]] = Writing
    BY DEF Owned
  <1>2. \A q, r \in Producers : q # r /\ OwnsSlot(q)' /\ OwnsSlot(r)' => held'[q] # held'[r]
    BY DEF Owned
  <1>3. selected' # NoSlot => state'[selected'] = Ready /\ order'[selected'] = selectedOrder'
    BY DEF Owned
  <1>4. QED
    BY <1>1, <1>2, <1>3 DEF Owned

LEMMA OwnedNext ==
    ASSUME TypeOK, Phases, Owned, [Next]_vars, ~overlapped'
    PROVE  Owned'
  <1> USE DEF TypeOK, SlotsOK, ProducersOK, DispatcherOK, Phases, Owned, OwnsSlot
  <1>1. ASSUME NEW p \in Producers, Arrive(p) PROVE Owned'
    <2>1. UNCHANGED <<state, order, held, selected, selectedOrder>>
      BY <1>1 DEF Arrive, slotVars, dispatcherVars, producerVars
    <2>2. \A q \in Producers : OwnsSlot(q)' => OwnsSlot(q)
      BY <1>1 DEF Arrive, producerVars
    <2>3. QED
      BY <2>1, <2>2
  <1>2. ASSUME NEW p \in Producers, ProbeSlot(p) PROVE Owned'
    <2> DEFINE s == (start[p] + offset[p]) % Capacity
    <2>1. s \in Slot
      <3>1. start[p] \in Nat /\ offset[p] \in Nat
        OBVIOUS
      <3>2. QED
        BY <3>1, ProbedSlot
    <2>2. UNCHANGED <<order, selected, selectedOrder>>
      BY <1>2 DEF ProbeSlot, dispatcherVars
    <2>3. CASE state[s] = Free
      <3>1. /\ state' = [state EXCEPT ![s] = Writing]
            /\ held' = [held EXCEPT ![p] = s]
            /\ pc' = [pc EXCEPT ![p] = "copy"]
        BY <1>2, <2>3 DEF ProbeSlot
      <3> HIDE DEF s
      <3>2. \A q \in Producers : q # p /\ OwnsSlot(q)' =>
               OwnsSlot(q) /\ held'[q] = held[q] /\ held[q] # s /\ held[q] \in Slot
        BY <2>3, <3>1
      <3>3. held'[p] = s /\ state'[s] = Writing
        BY <2>1, <3>1
      <3>4. \A t \in Slot : t # s => state'[t] = state[t]
        BY <3>1
      <3>5. ASSUME NEW q \in Producers, OwnsSlot(q)' PROVE state'[held'[q]] = Writing
        <4>1. CASE q = p
          BY <3>3, <4>1
        <4>2. CASE q # p
          <5>1. /\ held'[q] = held[q] /\ held[q] # s /\ held[q] \in Slot
                /\ state[held[q]] = Writing
            BY <3>2, <3>5, <4>2
          <5>2. QED
            BY <3>4, <5>1
        <4>3. QED
          BY <4>1, <4>2
      <3>6. ASSUME NEW q \in Producers, NEW r \in Producers, q # r,
                   OwnsSlot(q)', OwnsSlot(r)'
            PROVE  held'[q] # held'[r]
        <4>1. CASE q = p
          BY <3>2, <3>3, <3>6, <4>1
        <4>2. CASE r = p
          BY <3>2, <3>3, <3>6, <4>2
        <4>3. CASE q # p /\ r # p
          <5>1. held'[q] = held[q] /\ held'[r] = held[r] /\ OwnsSlot(q) /\ OwnsSlot(r)
            BY <3>2, <3>6, <4>3
          <5>2. QED
            BY <3>6, <5>1
        <4>4. QED
          BY <4>1, <4>2, <4>3
      <3>7. selected # NoSlot => selected \in Slot /\ selected # s
        BY <2>3
      <3>8. selected' # NoSlot => state'[selected'] = Ready /\ order'[selected'] = selectedOrder'
        BY <2>2, <3>4, <3>7
      <3>9. QED
        BY <3>5, <3>6, <3>8
    <2>4. CASE state[s] # Free
      <3>1. UNCHANGED <<state, held, pc>>
        BY <1>2, <2>4 DEF ProbeSlot
      <3>2. QED
        BY <2>2, <3>1
    <2>5. QED
      BY <2>3, <2>4
  <1>3. ASSUME NEW p \in Producers, Saturated(p) PROVE Owned'
    BY <1>3 DEF Saturated, slotVars, dispatcherVars
  <1>4. ASSUME NEW p \in Producers, CopyPacket(p) PROVE Owned'
    <2>1. held[p] \in Slot /\ held[p] # selected
      BY <1>4 DEF CopyPacket
    <2>2. UNCHANGED <<selected, selectedOrder>>
      BY <1>4 DEF CopyPacket, dispatcherVars
    <2>3. selected # NoSlot => order'[selected] = order[selected]
      BY <1>4, <2>1 DEF CopyPacket
    <2>4. selected # NoSlot => state'[selected] = state[selected]
      BY <1>4, <2>1 DEF CopyPacket
    <2>5. \A q \in Producers : OwnsSlot(q)' =>
             OwnsSlot(q) /\ held'[q] = held[q] /\ state'[held[q]] = state[held[q]]
      <3>1. ASSUME NEW q \in Producers, q # p, OwnsSlot(q)
            PROVE  held'[q] = held[q] /\ state'[held[q]] = state[held[q]]
        BY <1>4, <3>1 DEF CopyPacket
      <3>2. OwnsSlot(p)' => held'[p] = held[p] /\ state'[held[p]] = state[held[p]] /\ OwnsSlot(p)
        BY <1>4 DEF CopyPacket
      <3>3. \A q \in Producers : q # p => pc'[q] = pc[q]
        BY <1>4 DEF CopyPacket
      <3>4. QED
        BY <3>1, <3>2, <3>3
    <2>6. Owned
      OBVIOUS
    <2> HIDE DEF TypeOK, SlotsOK, ProducersOK, DispatcherOK, Phases, Owned, OwnsSlot
    <2>7. QED
      BY <2>2, <2>3, <2>4, <2>5, <2>6, StillOwned
  <1>5. ASSUME NEW p \in Producers, TakeNumber(p) PROVE Owned'
    <2>1. held[p] \in Slot /\ held[p] # selected
      BY <1>5 DEF TakeNumber
    <2>2. UNCHANGED <<selected, selectedOrder>>
      BY <1>5 DEF TakeNumber, dispatcherVars
    <2>3. selected # NoSlot => order'[selected] = order[selected]
      BY <1>5, <2>1 DEF TakeNumber
    <2>4. selected # NoSlot => state'[selected] = state[selected]
      BY <1>5, <2>1 DEF TakeNumber
    <2>5. \A q \in Producers : OwnsSlot(q)' =>
             OwnsSlot(q) /\ held'[q] = held[q] /\ state'[held[q]] = state[held[q]]
      BY <1>5 DEF TakeNumber
    <2>6. Owned
      OBVIOUS
    <2> HIDE DEF TypeOK, SlotsOK, ProducersOK, DispatcherOK, Phases, Owned, OwnsSlot
    <2>7. QED
      BY <2>2, <2>3, <2>4, <2>5, <2>6, StillOwned
  <1>6. ASSUME NEW p \in Producers, Publish(p) PROVE Owned'
    BY <1>6 DEF Publish, dispatcherVars
  <1>7. CASE BeginScan
    BY <1>7 DEF BeginScan, slotVars, producerVars
  <1>8. CASE ScanSlot
    BY <1>8 DEF ScanSlot, IsReady, slotVars, producerVars
  <1>9. CASE ScanEmpty \/ Deliver
    BY <1>9 DEF ScanEmpty, Deliver, slotVars, producerVars
  <1>10. CASE Release
    BY <1>10 DEF Release, producerVars
  <1>11. CASE StartCaptureDispatch
    BY <1>11 DEF StartCaptureDispatch, producerVars
  <1>12. CASE ClearSlots
    BY <1>12 DEF ClearSlots, producerVars, dispatcherVars
  <1>13. ASSUME UNCHANGED <<slotVars, producerVars, selected, selectedOrder>> PROVE Owned'
    BY <1>13 DEF slotVars, producerVars
  <1>14. QED
    BY <1>1, <1>2, <1>3, <1>4, <1>5, <1>6, <1>7, <1>8, <1>9, <1>10, <1>11, <1>12, <1>13
    DEF Next, Produce, Dispatch, Control, vars, dispatcherVars, Arm, AbortStart, Disarm,
        SignalStop, JoinDispatch

\* A slot that is not ready is reserved or given back: which slots are ready stays the same.
LEMMA ReadyStays ==
    ASSUME SlotsOK, NEW t \in Slot, state[t] # Ready,
           \/ state' = state
           \/ state' = [state EXCEPT ![t] = Writing]
           \/ state' = [state EXCEPT ![t] = Free]
    PROVE  \A u \in Slot : state'[u] = Ready <=> state[u] = Ready
  BY DEF SlotsOK

LEMMA CopyKeepsReady ==
    ASSUME TypeOK, Owned, NEW p \in Producers, CopyPacket(p)
    PROVE  \A s \in Slot : state[s] = Ready => state'[s] = Ready /\ order'[s] = order[s]
  <1> DEFINE t == held[p]
  <1>1. t \in Slot /\ state[t] = Writing
    BY DEF CopyPacket, TypeOK, ProducersOK, Owned, OwnsSlot
  <1>2. SlotsOK
    BY DEF TypeOK
  <1>3. /\ order' = [order EXCEPT ![t] = 0]
        /\ state' = state \/ state' = [state EXCEPT ![t] = Free]
    BY DEF CopyPacket
  <1> HIDE DEF t
  <1>4. \A s \in Slot : state[s] = Ready => s # t
    BY <1>1
  <1>5. \A u \in Slot : state'[u] = Ready <=> state[u] = Ready
    BY ONLY <1>1, <1>2, <1>3, ReadyStays
  <1>6. QED
    BY <1>2, <1>3, <1>4, <1>5 DEF SlotsOK

LEMMA ScannedNext ==
    ASSUME TypeOK, Phases, Owned, Scanned, [Next]_vars, ~overlapped'
    PROVE  Scanned'
  <1> USE DEF TypeOK, SlotsOK, ProducersOK, DispatcherOK, Phases, Owned, Scanned, OwnsSlot
  <1>1. ASSUME NEW p \in Producers, ProbeSlot(p) PROVE Scanned'
    <2>1. UNCHANGED <<order, dispatcherVars>>
      BY <1>1 DEF ProbeSlot
    <2>2. ASSUME NEW s \in Slot, state[s] = Ready PROVE state'[s] = Ready
      <3> DEFINE t == (start[p] + offset[p]) % Capacity
      <3>1. state' = state \/ (state[t] = Free /\ state' = [state EXCEPT ![t] = Writing])
        BY <1>1 DEF ProbeSlot
      <3> HIDE DEF t
      <3>2. QED
        BY <2>2, <3>1
    <2>3. QED
      BY <2>1, <2>2 DEF dispatcherVars
  <1>2. ASSUME NEW p \in Producers, CopyPacket(p) PROVE Scanned'
    <2>1. UNCHANGED dispatcherVars
      BY <1>2 DEF CopyPacket
    <2>2. \A s \in Slot : state[s] = Ready => state'[s] = Ready /\ order'[s] = order[s]
      BY <1>2, CopyKeepsReady
    <2>3. QED
      BY <2>1, <2>2 DEF dispatcherVars
  <1>3. ASSUME NEW p \in Producers, TakeNumber(p) PROVE Scanned'
    BY <1>3 DEF TakeNumber, dispatcherVars
  <1>4. ASSUME NEW p \in Producers, Publish(p) PROVE Scanned'
    BY <1>4 DEF Publish, dispatcherVars
  <1>5. CASE BeginScan
    BY <1>5 DEF BeginScan, ReadySlots, IsReady, slotVars
  <1>6. CASE ScanSlot
    <2>1. /\ dpc = "scan" /\ cursor \in Slot /\ cursor' = cursor + 1
          /\ UNCHANGED <<state, order, seen>>
      BY <1>6 DEF ScanSlot, slotVars
    <2>2. ASSUME NEW s \in seen, s < cursor PROVE selected' # NoSlot /\ selectedOrder' <= order[s]
      BY <1>6, <2>1, <2>2 DEF ScanSlot, IsReady
    <2>3. cursor \in seen => selected' # NoSlot /\ selectedOrder' <= order[cursor]
      BY <1>6, <2>1 DEF ScanSlot, IsReady
    <2>4. \A s \in seen : s < cursor' => s < cursor \/ s = cursor
      BY <2>1
    <2>5. QED
      BY <2>1, <2>2, <2>3, <2>4
  <1>7. CASE ScanEmpty \/ Deliver \/ Release \/ StartCaptureDispatch \/ ClearSlots
                \/ JoinDispatch
    BY <1>7
    DEF ScanEmpty, Deliver, Release, StartCaptureDispatch, ClearSlots, JoinDispatch,
        dispatcherVars
  <1>8. ASSUME UNCHANGED <<slotVars, dispatcherVars>> PROVE Scanned'
    BY <1>8 DEF slotVars, dispatcherVars
  <1>9. QED
    BY <1>1, <1>2, <1>3, <1>4, <1>5, <1>6, <1>7, <1>8
    DEF Next, Produce, Dispatch, Control, vars, Arrive, Saturated, Arm, AbortStart,
        Disarm, SignalStop

(* What has been delivered stays delivered within the session.             *)
LEMMA DeliveredStays ==
    ASSUME TypeOK, delivered' = Append(delivered, <<content[selected], order[selected]>>),
           NEW o, WasDelivered(o)
    PROVE  WasDelivered(o)'
  <1>1. PICK i \in DOMAIN delivered : delivered[i][2] = o
    BY DEF WasDelivered
  <1>2. delivered \in Seq(Nat \X Nat)
    BY DEF TypeOK, HistoryOK
  <1>3. i \in DOMAIN delivered' /\ delivered'[i] = delivered[i]
    BY <1>1, <1>2
  <1>4. QED
    BY <1>1, <1>3 DEF WasDelivered

LEMMA DeliveredNow ==
    ASSUME TypeOK, delivered' = Append(delivered, <<content[selected], order[selected]>>)
    PROVE  \E i \in DOMAIN delivered' : delivered'[i][2] = order[selected]
  <1>1. delivered \in Seq(Nat \X Nat)
    BY DEF TypeOK, HistoryOK
  <1>2. Len(delivered) + 1 \in DOMAIN delivered'
    BY <1>1
  <1>3. delivered'[Len(delivered) + 1] = <<content[selected], order[selected]>>
    BY <1>1
  <1>4. QED
    BY <1>2, <1>3

LEMMA DrainedNext ==
    ASSUME TypeOK, Phases, Owned, Scanned, Drained, [Next]_vars, ~overlapped'
    PROVE  Drained'
  <1> USE DEF TypeOK, SlotsOK, ProducersOK, DispatcherOK, Phases, Owned, Drained, OwnsSlot
  <1>1. ASSUME NEW p \in Producers, Arrive(p) \/ Produce(p) PROVE Drained'
    <2>1. UNCHANGED <<dispatcherVars, cpc, accepted, delivered>>
      BY <1>1
      DEF Arrive, Produce, ProbeSlot, Saturated, CopyPacket, TakeNumber, Publish,
          controlVars
    <2>2. ASSUME NEW s \in Slot, state[s] = Ready
          PROVE  state'[s] = Ready /\ order'[s] = order[s]
      <3>1. CASE ProbeSlot(p)
        <4> DEFINE t == (start[p] + offset[p]) % Capacity
        <4>1. /\ UNCHANGED order
              /\ state' = state \/ (state[t] = Free /\ state' = [state EXCEPT ![t] = Writing])
          BY <3>1 DEF ProbeSlot
        <4>2. state \in [Slot -> {Free, Writing, Ready}]
          OBVIOUS
        <4> HIDE DEF t, TypeOK, SlotsOK, ProducersOK, DispatcherOK, Phases, Owned, Drained, OwnsSlot
        <4>3. CASE state' = state
          BY <2>2, <4>1, <4>3
        <4>4. CASE state[t] = Free /\ state' = [state EXCEPT ![t] = Writing]
          <5>1. s # t
            BY <2>2, <4>4
          <5>2. QED
            BY <2>2, <4>1, <4>2, <4>4, <5>1
        <4>5. QED
          BY <4>1, <4>3, <4>4
      <3>2. CASE CopyPacket(p)
        BY <2>2, <3>2, CopyKeepsReady
      <3>3. CASE TakeNumber(p)
        BY <2>2, <3>3 DEF TakeNumber
      <3>4. CASE Publish(p)
        BY <2>2, <3>4 DEF Publish
      <3>5. CASE Arrive(p) \/ Saturated(p)
        BY <2>2, <3>5 DEF Arrive, Saturated, slotVars
      <3>6. QED
        BY <1>1, <3>1, <3>2, <3>3, <3>4, <3>5 DEF Produce
    <2>3. dpc = "release" => order'[selected] = order[selected]
      BY <2>2
    <2>4. dpc' = "release" => WasDelivered(order[selected])'
      BY <2>1, <2>3 DEF dispatcherVars, WasDelivered
    <2>5. ASSUME cpc' \in {"joining", "clearing"}, NEW o \in accepted', ~WasDelivered(o)'
          PROVE  /\ cpc' = "joining" /\ dpc' # "exited"
                 /\ \E s \in Slot : /\ state'[s] = Ready /\ order'[s] = o
                                    /\ dpc' = "scan" /\ draining' => s \in seen'
      <3>1. o \in accepted /\ ~WasDelivered(o) /\ cpc \in {"joining", "clearing"}
        BY <2>1, <2>5 DEF WasDelivered
      <3>2. /\ cpc = "joining" /\ dpc # "exited"
            /\ \E s \in Slot : /\ state[s] = Ready /\ order[s] = o
                               /\ dpc = "scan" /\ draining => s \in seen
        BY <3>1
      <3>3. PICK s \in Slot : /\ state[s] = Ready /\ order[s] = o
                              /\ dpc = "scan" /\ draining => s \in seen
        BY <3>2
      <3>4. state'[s] = Ready /\ order'[s] = o
        BY <2>2, <3>3
      <3>5. UNCHANGED <<dpc, draining, seen, cpc>>
        BY <2>1 DEF dispatcherVars
      <3>6. QED
        BY <3>2, <3>3, <3>4, <3>5
    <2>6. QED
      BY <2>4, <2>5
  <1>2. CASE BeginScan
    <2>1. UNCHANGED <<state, order, cpc, accepted, delivered>> /\ seen' = ReadySlots
      BY <1>2 DEF BeginScan, slotVars, controlVars
    <2>2. dpc = "top" /\ dpc' = "scan"
      BY <1>2 DEF BeginScan
    <2>3. QED
      BY <2>1, <2>2 DEF WasDelivered, ReadySlots, IsReady
  <1>3. CASE ScanSlot
    BY <1>3 DEF ScanSlot, slotVars, controlVars, WasDelivered
  <1>4. CASE ScanEmpty
    <2>1. UNCHANGED <<state, order, cpc, accepted, delivered, seen, draining>>
      BY <1>4 DEF ScanEmpty, slotVars, controlVars
    <2>2. /\ dpc = "scan" /\ cursor = Capacity /\ selected = NoSlot
          /\ dpc' = IF draining THEN "exited" ELSE "top"
      BY <1>4 DEF ScanEmpty
    <2>3. seen = {}
      BY <2>2 DEF Scanned
    <2>4. QED
      BY <2>1, <2>2, <2>3 DEF WasDelivered
  <1>5. CASE Deliver
    <2>1. /\ UNCHANGED <<state, order, cpc, accepted, selected>>
          /\ delivered' = Append(delivered, <<content[selected], order[selected]>>)
          /\ dpc = "scan" /\ dpc' = "release"
      BY <1>5 DEF Deliver, slotVars, controlVars
    <2>2. WasDelivered(order[selected])'
      BY <2>1, DeliveredNow DEF WasDelivered
    <2>3. ASSUME NEW o \in accepted, WasDelivered(o) PROVE WasDelivered(o)'
      BY <2>1, <2>3, DeliveredStays
    <2>4. QED
      BY <2>1, <2>2, <2>3
  <1>6. CASE Release
    <2>1. /\ UNCHANGED <<cpc, accepted, delivered>>
          /\ state' = [state EXCEPT ![selected] = Free]
          /\ order' = [order EXCEPT ![selected] = 0]
          /\ dpc = "release" /\ dpc' = "top" /\ selected \in Slot
      BY <1>6 DEF Release, controlVars
    <2>2. WasDelivered(order[selected])
      BY <2>1
    <2>3. ASSUME NEW o \in accepted, ~WasDelivered(o), cpc = "joining"
          PROVE  \E s \in Slot : state'[s] = Ready /\ order'[s] = o
      <3>1. PICK s \in Slot : state[s] = Ready /\ order[s] = o
        BY <2>3, <2>1
      <3>2. s # selected
        BY <3>1, <2>2, <2>3
      <3>3. QED
        BY <3>1, <3>2, <2>1
    <2>4. QED
      BY <2>1, <2>3 DEF WasDelivered
  <1>7. CASE StartCaptureDispatch
    BY <1>7 DEF StartCaptureDispatch
  <1>8. CASE SignalStop
    <2>1. /\ UNCHANGED <<state, order, dispatcherVars, delivered>>
          /\ cpc = "stopping" /\ cpc' = "joining"
          /\ accepted' = {order[s] : s \in ReadySlots}
      BY <1>8 DEF SignalStop, slotVars
    <2>2. dpc # "exited" /\ ~draining
      BY <2>1
    <2>3. QED
      BY <2>1, <2>2 DEF dispatcherVars, WasDelivered, ReadySlots, IsReady
  <1>9. CASE JoinDispatch
    BY <1>9 DEF JoinDispatch, slotVars, WasDelivered
  <1>10. CASE ClearSlots
    BY <1>10 DEF ClearSlots, dispatcherVars, WasDelivered
  <1>11. CASE Arm \/ AbortStart \/ Disarm
    BY <1>11 DEF Arm, AbortStart, Disarm, slotVars, dispatcherVars, WasDelivered
  <1>12. CASE UNCHANGED vars
    BY <1>12 DEF vars, slotVars, dispatcherVars, controlVars, WasDelivered
  <1>13. QED
    BY <1>1, <1>2, <1>3, <1>4, <1>5, <1>6, <1>7, <1>8, <1>9, <1>10, <1>11, <1>12
    DEF Next, Dispatch, Control

LEMMA IInvNext == TypeOK /\ IInv /\ [Next]_vars => IInv'
  <1> SUFFICES ASSUME TypeOK, IInv, [Next]_vars PROVE IInv'
    OBVIOUS
  <1>1. Phases'
    BY PhasesNext DEF IInv
  <1>2. ASSUME ~overlapped' PROVE Owned' /\ Scanned' /\ Drained'
    BY <1>2, OverlappedStays, OwnedNext, ScannedNext, DrainedNext DEF IInv
  <1>3. QED
    BY <1>1, <1>2 DEF IInv

LEMMA Invariance == Spec => [](TypeOK /\ IInv)
  BY TypeInit, TypeNext, IInvInit, IInvNext, PTL DEF Spec

(* A slot being written belongs to one thread, and the dispatcher only     *)
(* reads and frees slots that are complete.                                *)
THEOREM SlotsAreOwned == Spec => []SlotsOwned
  <1>1. TypeOK /\ IInv => SlotsOwned
    BY DEF IInv, Owned, SlotsOwned, IsReady
  <1>2. QED
    BY <1>1, Invariance, PTL

(* A delivery never passes over an older packet its scan could see.        *)
THEOREM OldestSeenIsSelected == Spec => []SelectsOldestSeen
  <1>1. TypeOK /\ IInv => SelectsOldestSeen
    BY DEF IInv, Owned, Scanned, SelectsOldestSeen, TypeOK, DispatcherOK
  <1>2. QED
    BY <1>1, Invariance, PTL

(* When the join of Stop returns, every packet that was ready when Stop    *)
(* cleared "running" has been delivered.                                   *)
THEOREM StopDrains == Spec => []DrainComplete
  <1>1. TypeOK /\ IInv => DrainComplete
    BY DEF IInv, Drained, DrainComplete, WasDelivered
  <1>2. QED
    BY <1>1, Invariance, PTL
-----------------------------------------------------------------------------
(* Where the packets are: the invariant behind OneDestination.             *)

LEMMA LocatedInit == Init => Located
  BY DEF Init, Located, Numbered, Written, Got

(* What has been delivered, and what a delivery adds.                      *)
LEMMA GotTyped ==
    ASSUME TypeOK
    PROVE  /\ Len(delivered) \in Nat
           /\ Got \in [1 .. Len(delivered) -> Nat]
  <1>1. delivered \in Seq(Nat \X Nat)
    BY DEF TypeOK, HistoryOK
  <1>2. Len(delivered) \in Nat /\ DOMAIN delivered = 1 .. Len(delivered)
    BY <1>1
  <1>3. \A i \in DOMAIN delivered : delivered[i] \in Nat \X Nat
    BY <1>1
  <1>4. \A i \in DOMAIN delivered : delivered[i][1] \in Nat
    BY <1>3
  <1>5. Got \in [DOMAIN delivered -> Nat]
    BY <1>4 DEF Got
  <1>6. QED
    BY <1>2, <1>5

LEMMA GotNow ==
    ASSUME TypeOK, selected \in Slot,
           delivered' = Append(delivered, <<content[selected], order[selected]>>)
    PROVE  /\ DOMAIN Got' = 1 .. Len(delivered) + 1
           /\ \A i \in DOMAIN Got : Got'[i] = Got[i]
           /\ Got'[Len(delivered) + 1] = content[selected]
  <1>1. delivered \in Seq(Nat \X Nat)
    BY DEF TypeOK, HistoryOK
  <1> DEFINE e == <<content[selected], order[selected]>>
  <1>2. delivered' = Append(delivered, e) /\ e[1] = content[selected] /\ e \in Nat \X Nat
    BY DEF TypeOK, SlotsOK
  <1> HIDE DEF e
  <1>3. /\ Len(delivered) \in Nat /\ DOMAIN delivered = 1 .. Len(delivered)
        /\ DOMAIN delivered' = 1 .. Len(delivered) + 1
    BY <1>1, <1>2
  <1>4. \A i \in DOMAIN delivered : delivered'[i] = delivered[i]
    BY <1>1, <1>2
  <1>5. delivered'[Len(delivered) + 1] = e
    BY <1>1, <1>2
  <1>6. QED
    BY <1>2, <1>3, <1>4, <1>5 DEF Got

LEMMA GotSame == delivered' = delivered => Got' = Got
  BY DEF Got

LEMMA NumberedNext == ASSUME TypeOK, Numbered, [Next]_vars PROVE Numbered'
  <1> USE DEF Numbered
  <1>0. /\ arrivals \in Nat /\ base \in Nat /\ passed \subseteq Nat
        /\ packet \in [Producers -> Nat] /\ content \in [Slot -> Nat]
        /\ Len(delivered) \in Nat /\ Got \in [1 .. Len(delivered) -> Nat]
    BY GotTyped DEF TypeOK, ControlOK, HistoryOK, ProducersOK, SlotsOK
  <1>1. ASSUME NEW p \in Producers, Arrive(p) PROVE Numbered'
    <2>1. /\ arrivals' = arrivals + 1 /\ UNCHANGED <<base, content, Got>>
          /\ passed' \subseteq passed \union {arrivals'}
          /\ packet' = packet \/ packet' = [packet EXCEPT ![p] = arrivals']
      BY <1>1, GotSame DEF Arrive, producerVars, slotVars, controlVars
    <2>2. ASSUME NEW q \in Producers PROVE packet'[q] <= arrivals'
      <3>1. packet'[q] = packet[q] \/ packet'[q] = arrivals'
        BY <1>0, <2>1
      <3>2. packet[q] \in Nat /\ packet[q] <= arrivals
        BY <1>0
      <3>3. QED
        BY <1>0, <2>1, <3>1, <3>2
    <2>3. /\ \A s \in Slot : content'[s] <= arrivals'
          /\ \A n \in passed' : n <= arrivals'
          /\ base' <= arrivals'
      BY <1>0, <2>1
    <2>4. ASSUME NEW i \in DOMAIN Got' PROVE Got'[i] <= arrivals'
      <3>1. Got'[i] = Got[i] /\ Got[i] <= arrivals /\ Got[i] \in Nat
        BY <1>0, <2>1
      <3>2. QED
        BY <1>0, <2>1, <3>1
    <2>5. QED
      BY <2>2, <2>3, <2>4
  <1>2. ASSUME NEW p \in Producers, Saturated(p) PROVE Numbered'
    BY <1>0, <1>2, GotSame DEF Saturated, slotVars, controlVars
  <1>3. ASSUME NEW p \in Producers, CopyPacket(p) PROVE Numbered'
    <2>1. held[p] \in Slot
      BY <1>3 DEF CopyPacket, TypeOK, ProducersOK, OwnsSlot
    <2>2. /\ UNCHANGED <<arrivals, base, packet, Got>>
          /\ content' = [content EXCEPT ![held[p]] = packet[p]]
          /\ passed' \subseteq passed \union {packet[p]}
      BY <1>3, GotSame DEF CopyPacket, controlVars
    <2>3. QED
      BY <1>0, <2>1, <2>2
  <1>4. CASE Deliver
    <2>1. /\ selected \in Slot /\ UNCHANGED <<arrivals, base, packet, content, passed>>
          /\ delivered' = Append(delivered, <<content[selected], order[selected]>>)
      BY <1>4 DEF Deliver, TypeOK, DispatcherOK, producerVars, slotVars, controlVars
    <2>2. ASSUME NEW i \in DOMAIN Got' PROVE Got'[i] <= arrivals
      <3>1. i \in DOMAIN Got \/ i = Len(delivered) + 1
        BY <1>0, <2>1, GotNow
      <3>2. (Got'[i] = Got[i] /\ i \in DOMAIN Got) \/ Got'[i] = content[selected]
        BY <2>1, <3>1, GotNow
      <3>3. QED
        BY <2>1, <3>2
    <2>3. QED
      BY <2>1, <2>2
  <1>5. CASE StartCaptureDispatch
    <2>1. /\ base' = arrivals /\ UNCHANGED <<arrivals, packet, content, passed>>
          /\ DOMAIN Got' = {}
      BY <1>5 DEF StartCaptureDispatch, producerVars, Got
    <2>2. QED
      BY <1>0, <2>1
  <1>6. ASSUME UNCHANGED <<arrivals, base, packet, content, passed, delivered>>
        PROVE  Numbered'
    BY <1>6, GotSame
  <1>7. QED
    BY <1>1, <1>2, <1>3, <1>4, <1>5, <1>6
    DEF Next, Produce, Dispatch, Control, vars, slotVars, producerVars, controlVars,
        ProbeSlot, TakeNumber, Publish, BeginScan, ScanSlot, ScanEmpty, Release, Arm,
        AbortStart, Disarm, SignalStop, JoinDispatch, ClearSlots

LEMMA WrittenNext ==
    ASSUME TypeOK, Owned, Written, [Next]_vars, ~overlapped'
    PROVE  Written'
  <1> USE DEF TypeOK, ProducersOK, SlotsOK, OwnsSlot, Owned, Written
  <1>1. ASSUME NEW p \in Producers, Arrive(p) PROVE Written'
    BY <1>1 DEF Arrive, slotVars, producerVars
  <1>2. ASSUME NEW p \in Producers, ProbeSlot(p) PROVE Written'
    BY <1>2 DEF ProbeSlot
  <1>3. ASSUME NEW p \in Producers, Saturated(p) PROVE Written'
    BY <1>3 DEF Saturated, slotVars
  <1>4. ASSUME NEW p \in Producers, CopyPacket(p) PROVE Written'
    <2>1. /\ held[p] \in Slot /\ UNCHANGED packet
          /\ content' = [content EXCEPT ![held[p]] = packet[p]]
          /\ pc' = [pc EXCEPT ![p] = "idle"] \/ (pc' = [pc EXCEPT ![p] = "number"] /\ UNCHANGED held)
          /\ \A q \in Producers : q # p => held'[q] = held[q]
      BY <1>4 DEF CopyPacket
    <2>2. ASSUME NEW q \in Producers, pc'[q] \in {"number", "publish"}
          PROVE  content'[held'[q]] = packet'[q]
      <3>1. CASE q = p
        BY <2>1, <2>2, <3>1
      <3>2. CASE q # p
        <4>1. OwnsSlot(q) /\ OwnsSlot(p) /\ pc'[q] = pc[q]
          BY <1>4, <2>1, <2>2, <3>2 DEF CopyPacket
        <4>2. held[q] # held[p] /\ held[q] \in Slot
          BY <3>2, <4>1
        <4>3. QED
          BY <2>1, <2>2, <3>2, <4>1, <4>2
      <3>3. QED
        BY <3>1, <3>2
    <2>3. QED
      BY <2>2
  <1>5. ASSUME NEW p \in Producers, TakeNumber(p) PROVE Written'
    BY <1>5 DEF TakeNumber
  <1>6. ASSUME NEW p \in Producers, Publish(p) PROVE Written'
    BY <1>6 DEF Publish
  <1>7. ASSUME UNCHANGED <<pc, held, packet, content>> PROVE Written'
    BY <1>7
  <1>8. QED
    BY <1>1, <1>2, <1>3, <1>4, <1>5, <1>6, <1>7
    DEF Next, Produce, Dispatch, Control, vars, slotVars, producerVars,
        BeginScan, ScanSlot, ScanEmpty, Deliver, Release, StartCaptureDispatch, Arm,
        AbortStart, Disarm, SignalStop, JoinDispatch, ClearSlots

(* The moves of a packet, one lemma for each kind.                         *)
LEMMA Unmoved ==
    ASSUME Places, UNCHANGED <<Busy, Waits, Got, passed, base, arrivals, packet>>,
           \A s \in Waits : content'[s] = content[s]
    PROVE  Places'
  BY DEF Places, Distinct, Apart, NotPassed, Somewhere

(* A new packet is taken by a thread, or left to STR.                      *)
LEMMA MovedIn ==
    ASSUME Places, Numbered, TypeOK, UNCHANGED <<Waits, Got, passed, base, content>>,
           arrivals' = arrivals + 1, NEW p \in Producers, p \notin Busy,
           Busy' = Busy \union {p}, packet'[p] = arrivals',
           \A q \in Busy : packet'[q] = packet[q]
    PROVE  Places'
  <1>0. /\ arrivals \in Nat /\ base \in Nat /\ passed \subseteq Nat
        /\ packet \in [Producers -> Nat] /\ content \in [Slot -> Nat]
        /\ Busy \subseteq Producers /\ Waits \subseteq Slot
        /\ Len(delivered) \in Nat /\ Got \in [1 .. Len(delivered) -> Nat]
    BY GotTyped DEF TypeOK, ControlOK, HistoryOK, ProducersOK, SlotsOK, Busy, Waits
  <1>1. /\ \A q \in Busy : packet[q] # arrivals'
        /\ \A s \in Waits : content[s] # arrivals'
        /\ \A i \in DOMAIN Got : Got[i] # arrivals'
        /\ arrivals' \notin passed
    BY <1>0 DEF Numbered
  <1>2. Distinct' /\ Apart' /\ NotPassed'
    BY <1>1 DEF Places, Distinct, Apart, NotPassed
  <1>3. \A n \in base' + 1 .. arrivals' : n = arrivals' \/ n \in base + 1 .. arrivals
    BY <1>0
  <1>4. Somewhere'
    BY <1>3 DEF Places, Somewhere
  <1>5. QED
    BY <1>2, <1>4 DEF Places

LEMMA LeftToSTR ==
    ASSUME Places, Numbered, TypeOK,
           UNCHANGED <<Busy, Waits, Got, packet, base, content>>,
           arrivals' = arrivals + 1, passed' = passed \union {arrivals'}
    PROVE  Places'
  <1>0. /\ arrivals \in Nat /\ base \in Nat /\ passed \subseteq Nat
        /\ packet \in [Producers -> Nat] /\ content \in [Slot -> Nat]
        /\ Busy \subseteq Producers /\ Waits \subseteq Slot
        /\ Len(delivered) \in Nat /\ Got \in [1 .. Len(delivered) -> Nat]
    BY GotTyped DEF TypeOK, ControlOK, HistoryOK, ProducersOK, SlotsOK, Busy, Waits
  <1>1. /\ \A q \in Busy : packet[q] # arrivals'
        /\ \A s \in Waits : content[s] # arrivals'
        /\ \A i \in DOMAIN Got : Got[i] # arrivals'
    BY <1>0 DEF Numbered
  <1>2. Distinct' /\ Apart' /\ NotPassed'
    BY <1>1 DEF Places, Distinct, Apart, NotPassed
  <1>3. \A n \in base' + 1 .. arrivals' : n = arrivals' \/ n \in base + 1 .. arrivals
    BY <1>0
  <1>4. Somewhere'
    BY <1>3 DEF Places, Somewhere
  <1>5. QED
    BY <1>2, <1>4 DEF Places

(* A thread leaves its packet to STR.                                      *)
LEMMA HandedBack ==
    ASSUME Places, UNCHANGED <<Waits, Got, packet, base, arrivals>>,
           NEW p \in Busy, Busy' = Busy \ {p}, passed' = passed \union {packet[p]},
           \A s \in Waits : content'[s] = content[s]
    PROVE  Places'
  <1>1. Distinct' /\ Apart' /\ NotPassed'
    BY DEF Places, Distinct, Apart, NotPassed
  <1>2. Somewhere'
    BY DEF Places, Somewhere
  <1>3. QED
    BY <1>1, <1>2 DEF Places

(* A thread makes a slot ready.                                            *)
LEMMA MadeReady ==
    ASSUME Places, UNCHANGED <<Got, packet, base, arrivals, passed, content>>,
           NEW p \in Busy, Busy' = Busy \ {p},
           NEW h, h \notin Waits, Waits' = Waits \union {h}, content[h] = packet[p]
    PROVE  Places'
  <1>1. Distinct' /\ Apart' /\ NotPassed'
    BY DEF Places, Distinct, Apart, NotPassed
  <1>2. Somewhere'
    BY DEF Places, Somewhere
  <1>3. QED
    BY <1>1, <1>2 DEF Places

(* The dispatcher hands on what is in a slot.                              *)
LEMMA HandedOn ==
    ASSUME Places, UNCHANGED <<Busy, packet, base, arrivals, passed, content>>,
           NEW h \in Waits, Waits' = Waits \ {h},
           NEW k, k \notin DOMAIN Got, DOMAIN Got' = DOMAIN Got \union {k},
           \A i \in DOMAIN Got : Got'[i] = Got[i], Got'[k] = content[h]
    PROVE  Places'
  <1>1. Distinct'
    BY DEF Places, Distinct, Apart
  <1>2. Apart'
    BY DEF Places, Distinct, Apart
  <1>3. NotPassed'
    BY DEF Places, NotPassed
  <1>4. Somewhere'
    BY DEF Places, Somewhere
  <1>5. QED
    BY <1>1, <1>2, <1>3, <1>4 DEF Places

LEMMA PlacesArrive ==
    ASSUME TypeOK, Places, Numbered, NEW p \in Producers, Arrive(p)
    PROVE  Places'
  <1>1. /\ arrivals' = arrivals + 1 /\ pc[p] = "idle"
        /\ UNCHANGED <<Waits, Got, base, content>>
    BY GotSame DEF Arrive, Waits, slotVars, dispatcherVars, controlVars
  <1>2. CASE passed' = passed \union {arrivals'} /\ UNCHANGED producerVars
    <2>1. UNCHANGED <<Busy, packet>>
      BY <1>2 DEF producerVars, Busy
    <2>2. QED
      BY <1>1, <1>2, <2>1, LeftToSTR
  <1>3. CASE /\ pc' = [pc EXCEPT ![p] = "probe"]
             /\ packet' = [packet EXCEPT ![p] = arrivals']
             /\ UNCHANGED passed
    <2>1. p \notin Busy /\ Busy' = Busy \union {p}
      BY <1>1, <1>3 DEF Busy, TypeOK, ProducersOK
    <2>2. packet'[p] = arrivals' /\ \A q \in Busy : packet'[q] = packet[q]
      BY <1>3, <2>1 DEF Busy, TypeOK, ProducersOK
    <2>3. QED
      BY <1>1, <1>3, <2>1, <2>2, MovedIn
  <1>4. QED
    BY <1>2, <1>3 DEF Arrive

\* The slots that wait depend on which slots are ready and on the slot the dispatcher holds, and on nothing else.
LEMMA WaitsSame ==
    ASSUME dpc' = dpc, selected' = selected,
           \A u \in Slot : state'[u] = Ready <=> state[u] = Ready
    PROVE  Waits' = Waits
  <1>1. \A u : u \in Waits' <=> u \in Waits
    BY DEF Waits
  <1>2. QED
    BY <1>1

LEMMA PlacesProduce ==
    ASSUME TypeOK, Owned, Written, Places, NEW p \in Producers, Produce(p)
    PROVE  Places'
  <1> USE DEF TypeOK, ProducersOK, SlotsOK
  <1>0. UNCHANGED <<Got, base, arrivals, packet, dispatcherVars>>
    BY GotSame
    DEF Produce, ProbeSlot, Saturated, CopyPacket, TakeNumber, Publish, controlVars
  <1>1. CASE ProbeSlot(p)
    <2>1. UNCHANGED <<passed, content>>
      BY <1>1 DEF ProbeSlot
    <2>2. Busy' = Busy
      BY <1>1 DEF ProbeSlot, Busy
    <2>3. Waits' = Waits
      <3> DEFINE t == (start[p] + offset[p]) % Capacity
      <3>1. state' = state \/ (state[t] = Free /\ state' = [state EXCEPT ![t] = Writing])
        BY <1>1 DEF ProbeSlot
      <3> HIDE DEF t
      <3>2. \A u \in Slot : state'[u] = Ready <=> state[u] = Ready
        <4>1. CASE state' = state
          BY <4>1
        <4>2. CASE state[t] = Free /\ state' = [state EXCEPT ![t] = Writing]
          BY <4>2 DEF SlotsOK
        <4>3. QED
          BY <3>1, <4>1, <4>2
      <3>3. dpc' = dpc /\ selected' = selected
        BY <1>0 DEF dispatcherVars
      <3>4. QED
        BY <3>2, <3>3, WaitsSame
    <2>4. QED
      BY <1>0, <2>1, <2>2, <2>3, Unmoved
  <1>2. CASE Saturated(p)
    <2>1. p \in Busy /\ Busy' = Busy \ {p} /\ passed' = passed \union {packet[p]}
      BY <1>2 DEF Saturated, Busy
    <2>2. UNCHANGED <<Waits, content>>
      BY <1>2 DEF Saturated, Waits, slotVars, dispatcherVars
    <2>3. QED
      BY <1>0, <2>1, <2>2, HandedBack
  <1>3. CASE CopyPacket(p)
    <2>1. /\ p \in Busy /\ held[p] \in Slot /\ state[held[p]] = Writing
          /\ content' = [content EXCEPT ![held[p]] = packet[p]]
      BY <1>3 DEF CopyPacket, Busy, Owned, OwnsSlot
    <2>2. state' = state \/ state' = [state EXCEPT ![held[p]] = Free]
      BY <1>3 DEF CopyPacket
    <2>3. \A u \in Slot : state'[u] = Ready <=> state[u] = Ready
      <3> DEFINE t == held[p]
      <3>1. SlotsOK /\ t \in Slot /\ state[t] # Ready
        BY <2>1
      <3>2. state' = state \/ state' = [state EXCEPT ![t] = Free]
        BY <2>2
      <3> HIDE DEF t
      <3>3. QED
        BY ONLY <3>1, <3>2, ReadyStays
    <2>4. Waits' = Waits
      BY <1>0, <2>3, WaitsSame DEF dispatcherVars
    <2>5. \A u \in Waits : content'[u] = content[u]
      BY <2>1 DEF Waits
    <2>6. CASE pc' = [pc EXCEPT ![p] = "number"] /\ UNCHANGED passed
      <3>1. Busy' = Busy
        BY <2>1, <2>6 DEF Busy
      <3>2. QED
        BY <1>0, <2>4, <2>5, <2>6, <3>1, Unmoved
    <2>7. CASE pc' = [pc EXCEPT ![p] = "idle"] /\ passed' = passed \union {packet[p]}
      <3>1. Busy' = Busy \ {p}
        BY <2>7 DEF Busy
      <3>2. p \in Busy /\ passed' = passed \union {packet[p]}
        BY <2>1, <2>7
      <3>3. UNCHANGED <<Waits, Got, packet, base, arrivals>>
        BY <1>0, <2>4
      <3>4. QED
        BY <2>5, <3>1, <3>2, <3>3, HandedBack
    <2>8. QED
      BY <1>3, <2>6, <2>7 DEF CopyPacket
  <1>4. CASE TakeNumber(p)
    <2>1. UNCHANGED <<passed, content, state>>
      BY <1>4 DEF TakeNumber
    <2>2. Busy' = Busy
      BY <1>4 DEF TakeNumber, Busy
    <2>3. Waits' = Waits
      BY <1>0, <2>1 DEF Waits, dispatcherVars
    <2>4. QED
      BY <1>0, <2>1, <2>2, <2>3, Unmoved
  <1>5. CASE Publish(p)
    <2>1. /\ held[p] \in Slot /\ state[held[p]] = Writing /\ content[held[p]] = packet[p]
          /\ state' = [state EXCEPT ![held[p]] = Ready]
          /\ UNCHANGED <<passed, content>>
      BY <1>5 DEF Publish, Owned, Written, OwnsSlot
    <2>2. p \in Busy /\ Busy' = Busy \ {p}
      BY <1>5 DEF Publish, Busy
    <2>3. held[p] # selected
      BY <2>1 DEF Owned
    <2>4. held[p] \notin Waits /\ Waits' = Waits \union {held[p]}
      BY <1>0, <2>1, <2>3 DEF Waits, dispatcherVars
    <2>5. QED
      BY <1>0, <2>1, <2>2, <2>4, MadeReady
  <1>6. QED
    BY <1>1, <1>2, <1>3, <1>4, <1>5 DEF Produce

LEMMA PlacesDispatch ==
    ASSUME TypeOK, Owned, Places, Dispatch
    PROVE  Places'
  <1> USE DEF TypeOK, SlotsOK
  <1>0. UNCHANGED <<Busy, packet, base, arrivals, passed, content>>
    BY DEF Dispatch, BeginScan, ScanSlot, ScanEmpty, Deliver, Release, slotVars,
           producerVars, controlVars, Busy
  <1>1. CASE BeginScan \/ ScanSlot \/ ScanEmpty
    <2>1. UNCHANGED <<Waits, delivered>>
      BY <1>1 DEF BeginScan, ScanSlot, ScanEmpty, slotVars, Waits
    <2>2. QED
      BY <1>0, <2>1, GotSame, Unmoved
  <1>2. CASE Deliver
    <2>1. /\ selected \in Slot /\ state[selected] = Ready /\ UNCHANGED <<state, selected>>
          /\ dpc = "scan" /\ dpc' = "release"
          /\ delivered' = Append(delivered, <<content[selected], order[selected]>>)
      BY <1>2 DEF Deliver, DispatcherOK, Owned, slotVars
    <2>2. selected \in Waits /\ Waits' = Waits \ {selected}
      BY <2>1 DEF Waits
    <2> DEFINE k == Len(delivered) + 1
    <2>3. k \notin DOMAIN Got /\ DOMAIN Got' = DOMAIN Got \union {k}
      <3>1. /\ Len(delivered) \in Nat /\ DOMAIN Got = 1 .. Len(delivered)
            /\ DOMAIN Got' = 1 .. k
        BY <2>1, GotNow, GotTyped
      <3>2. \A m \in Nat : m + 1 \notin 1 .. m /\ 1 .. m + 1 = (1 .. m) \union {m + 1}
        OBVIOUS
      <3>3. QED
        BY <3>1, <3>2
    <2>4. (\A i \in DOMAIN Got : Got'[i] = Got[i]) /\ Got'[k] = content[selected]
      BY <2>1, GotNow
    <2> HIDE DEF k
    <2>5. QED
      BY <1>0, <2>2, <2>3, <2>4, HandedOn
  <1>3. CASE Release
    <2>1. /\ selected \in Slot /\ dpc = "release" /\ dpc' = "top"
          /\ state' = [state EXCEPT ![selected] = Free] /\ UNCHANGED delivered
      BY <1>3 DEF Release, DispatcherOK
    <2>2. Waits' = Waits
      BY <2>1 DEF Waits
    <2>3. QED
      BY <1>0, <2>1, <2>2, GotSame, Unmoved
  <1>4. QED
    BY <1>1, <1>2, <1>3 DEF Dispatch

(* A session begins with nothing in hand, in a slot or delivered.          *)
LEMMA PlacesControl ==
    ASSUME TypeOK, cpc # "down" => Places, Control, ~overlapped', cpc' # "down"
    PROVE  Places'
  <1>1. CASE StartCaptureDispatch
    <2>1. /\ Busy' = {} /\ Waits' = {} /\ DOMAIN Got' = {} /\ base' = arrivals'
          /\ arrivals \in Nat
      BY <1>1 DEF StartCaptureDispatch, Busy, Waits, Got, producerVars, TypeOK, ControlOK
    <2>2. base' + 1 .. arrivals' = {}
      BY <1>1, <2>1 DEF StartCaptureDispatch
    <2>3. QED
      BY <2>1, <2>2 DEF Places, Distinct, Apart, NotPassed, Somewhere
  <1>2. CASE Arm \/ AbortStart \/ Disarm \/ SignalStop \/ JoinDispatch
    <2>1. UNCHANGED <<Busy, Waits, delivered, passed, base, arrivals, packet, content>>
      BY <1>2 DEF Arm, AbortStart, Disarm, SignalStop, JoinDispatch, slotVars, producerVars,
                  dispatcherVars, Busy, Waits
    <2>2. cpc # "down"
      BY <1>2 DEF Arm, AbortStart, Disarm, SignalStop, JoinDispatch
    <2>3. QED
      BY <2>1, <2>2, GotSame, Unmoved
  <1>3. CASE ClearSlots
    BY <1>3 DEF ClearSlots
  <1>4. QED
    BY <1>1, <1>2, <1>3 DEF Control

LEMMA LocatedNext ==
    ASSUME TypeOK, IInv, Located, [Next]_vars
    PROVE  Located'
  <1>1. Numbered'
    BY NumberedNext DEF Located
  <1>2. ASSUME ~overlapped' PROVE Written' /\ (cpc' # "down" => Places')
    <2>1. Owned /\ Written /\ Numbered /\ (cpc # "down" => Places)
      BY <1>2, OverlappedStays DEF IInv, Located
    <2>2. Written'
      BY <1>2, <2>1, WrittenNext
    <2>3. ASSUME cpc' # "down" PROVE Places'
      <3>1. ASSUME NEW p \in Producers, Arrive(p) \/ Produce(p) PROVE Places'
        <4>1. cpc = cpc'
          BY <3>1 DEF Arrive, Produce, ProbeSlot, Saturated, CopyPacket, TakeNumber,
                      Publish, controlVars
        <4>2. QED
          BY <2>1, <2>3, <3>1, <4>1, PlacesArrive, PlacesProduce
      <3>2. CASE Dispatch
        <4>1. cpc = cpc'
          BY <3>2 DEF Dispatch, BeginScan, ScanSlot, ScanEmpty, Deliver, Release,
                      controlVars
        <4>2. QED
          BY <2>1, <2>3, <3>2, <4>1, PlacesDispatch
      <3>3. CASE Control
        BY <1>2, <2>1, <2>3, <3>3, PlacesControl
      <3>4. CASE UNCHANGED vars
        <4>1. UNCHANGED <<Busy, Waits, delivered, passed, base, arrivals, packet, content, cpc>>
          BY <3>4 DEF vars, slotVars, producerVars, dispatcherVars, controlVars, Busy, Waits
        <4>2. QED
          BY <2>1, <2>3, <4>1, GotSame, Unmoved
      <3>5. QED
        BY <3>1, <3>2, <3>3, <3>4 DEF Next
    <2>4. QED
      BY <2>2, <2>3
  <1>3. QED
    BY <1>1, <1>2 DEF Located

(* The four places of a packet, counted.                                   *)
LEMMA CountedOne ==
    ASSUME NEW S, \A x, y \in S : x = y
    PROVE  Cardinality(S) = IF S = {} THEN 0 ELSE 1
  <1>1. CASE S = {}
    BY <1>1, FS_EmptySet
  <1>2. CASE S # {}
    <2>1. PICK x : S = {x}
      BY <1>2
    <2>2. QED
      BY <1>2, <2>1, FS_Singleton
  <1>3. QED
    BY <1>1, <1>2

LEMMA CountedFour ==
    ASSUME NEW A, NEW B, NEW C, NEW D,
           \A x, y \in A : x = y, \A x, y \in B : x = y,
           \A x, y \in C : x = y, \A x, y \in D : x = y,
           A # {} => B = {} /\ C = {} /\ D = {},
           B # {} => C = {} /\ D = {}, C # {} => D = {},
           A # {} \/ B # {} \/ C # {} \/ D # {}
    PROVE  Cardinality(A) + Cardinality(B) + Cardinality(C) + Cardinality(D) = 1
  <1>1. /\ Cardinality(A) = IF A = {} THEN 0 ELSE 1
        /\ Cardinality(B) = IF B = {} THEN 0 ELSE 1
        /\ Cardinality(C) = IF C = {} THEN 0 ELSE 1
        /\ Cardinality(D) = IF D = {} THEN 0 ELSE 1
    BY CountedOne
  <1>2. QED
    BY <1>1

LEMMA Counted ==
    ASSUME TypeOK, Places, NEW n \in base + 1 .. arrivals
    PROVE  Cardinality(InHand(n)) + Cardinality(Waiting(n)) + Cardinality(DeliveredAt(n))
             + Cardinality(passed \intersect {n}) = 1
  <1>1. /\ InHand(n) = {p \in Busy : packet[p] = n}
        /\ Waiting(n) = {s \in Waits : content[s] = n}
        /\ DeliveredAt(n) = {i \in DOMAIN Got : Got[i] = n}
    BY DEF InHand, Waiting, DeliveredAt, ReadySlots, IsReady, Busy, Waits, Got
  <1>2. /\ \A p, q \in InHand(n) : p = q
        /\ \A s, t \in Waiting(n) : s = t
        /\ \A i, j \in DeliveredAt(n) : i = j
        /\ \A m, k \in passed \intersect {n} : m = k
    BY <1>1 DEF Places, Distinct
  <1>3. /\ InHand(n) # {} =>
             Waiting(n) = {} /\ DeliveredAt(n) = {} /\ passed \intersect {n} = {}
        /\ Waiting(n) # {} => DeliveredAt(n) = {} /\ passed \intersect {n} = {}
        /\ DeliveredAt(n) # {} => passed \intersect {n} = {}
    BY <1>1 DEF Places, Apart, NotPassed
  <1>4. \/ InHand(n) # {} \/ Waiting(n) # {} \/ DeliveredAt(n) # {}
        \/ passed \intersect {n} # {}
    BY <1>1 DEF Places, Somewhere
  <1>5. QED
    BY <1>2, <1>3, <1>4, CountedFour

(* A packet that reached the breakpoint is in exactly one place: none is   *)
(* lost, none is delivered twice, none is both delivered and left to STR.  *)
THEOREM OneDestinationHolds == Spec => []OneDestination
  <1>1. Spec => []Located
    BY LocatedInit, LocatedNext, Invariance, PTL DEF Spec
  <1>2. TypeOK /\ Located => OneDestination
    BY Counted DEF Located, OneDestination
  <1>3. QED
    BY <1>1, <1>2, TypeCorrect, PTL
=============================================================================
