------------------------ MODULE OnConsumeHook_proofs ------------------------
(***************************************************************************)
(* Proofs about the breakpoint on OnConsume, for any number of receivers,  *)
(* packets and sessions, and for Start and Stop at any time.               *)
(***************************************************************************)
EXTENDS OnConsumeHook, TLAPS

(* A thread that moves to a label of its own side, and changes nothing     *)
(* else that TypeOK is about but its patch state, keeps the labels apart.  *)
LEMMA ReceiverMoves ==
    ASSUME TypeOK, NEW r \in Receivers, NEW label \in ReceiverLabels, Goto(r, label)
    PROVE  /\ pc' \in [Patchers -> ReceiverLabels \union ControllerLabels]
           /\ \A q \in Receivers : pc'[q] \in ReceiverLabels
           /\ pc'[Controller] = pc[Controller]
           /\ pc'[r] = label
           /\ \A t \in Patchers : t # r => pc'[t] = pc[t]
  BY ControllerAssumption DEF TypeOK, Goto, Patchers

LEMMA ControllerMoves ==
    ASSUME TypeOK, NEW label \in ControllerLabels, Goto(Controller, label)
    PROVE  /\ pc' \in [Patchers -> ReceiverLabels \union ControllerLabels]
           /\ \A q \in Receivers : pc'[q] = pc[q]
           /\ pc'[Controller] = label
  BY ControllerAssumption DEF TypeOK, Goto, Patchers

(* Who is patching, and where that leads.                                  *)
LEMMA PatcherLabels ==
    ASSUME TypeOK, NEW t \in Patchers
    PROVE  /\ t \in Receivers /\ Patching(t) => pc[t] \in {"restoring", "rearming"}
           /\ t = Controller /\ Patching(t) => pc[t] \in {"arming", "disarming"}
           /\ t \in Receivers /\ Patching(t) => AfterPatch(t) \in {"stepping", "fault", "outside"}
           /\ t = Controller /\ Patching(t) => AfterPatch(t) \in {"started", "removing"}
           /\ t \in Receivers \/ t = Controller
  BY DEF TypeOK, Patching, AfterPatch, ReceiverLabels, ControllerLabels, Patchers
-----------------------------------------------------------------------------
LEMMA TypeInit == Init => TypeOK
  <1> SUFFICES ASSUME Init PROVE TypeOK
    OBVIOUS
  <1>1. /\ pc \in [Patchers -> ReceiverLabels \union ControllerLabels]
        /\ \A r \in Receivers : pc[r] \in ReceiverLabels
        /\ pc[Controller] \in ControllerLabels
    BY ControllerAssumption DEF Init, Patchers, ReceiverLabels, ControllerLabels
  <1>2. /\ packet \in [Receivers -> {"chat", "strpm"}]
        /\ patch \in [Patchers -> {"none", "unprotected", "written"}]
        /\ saved \in [Patchers -> BOOLEAN]
        /\ \A t \in Patchers : patch[t] = "none"
    BY DEF Init
  <1>3. QED
    BY <1>1, <1>2 DEF Init, TypeOK, Byte

LEMMA TypeNext == TypeOK /\ [Next]_vars => TypeOK'
  <1> SUFFICES ASSUME TypeOK, [Next]_vars PROVE TypeOK'
    OBVIOUS
  <1>1. ASSUME NEW r \in Receivers, NEW kind \in {"chat", "strpm"}, OnConsume(r, kind)
        PROVE  TypeOK'
    <2>1. PICK label \in {"trapped", "outside"} : Goto(r, label)
      BY <1>1 DEF OnConsume
    <2>2. /\ pc' \in [Patchers -> ReceiverLabels \union ControllerLabels]
          /\ \A q \in Receivers : pc'[q] \in ReceiverLabels
          /\ pc'[Controller] = pc[Controller]
          /\ \A t \in Patchers : t # r => pc'[t] = pc[t]
      BY <2>1, ReceiverMoves DEF ReceiverLabels
    <2>3. pc[r] = "outside" /\ r \in Patchers
      BY <1>1 DEF OnConsume, Patchers
    <2>4. \A t \in Patchers : patch'[t] # "none" => Patching(t)' \/ pc'[t] = "fault"
      BY <1>1, <2>2, <2>3 DEF OnConsume, TypeOK, Patching
    <2>5. disturbed' \in BOOLEAN
      BY <1>1 DEF OnConsume, TypeOK
    <2>6. /\ packet' \in [Receivers -> {"chat", "strpm"}]
          /\ UNCHANGED <<byte, writable, hook, patch, saved, starts>>
      BY <1>1 DEF OnConsume, TypeOK
    <2>7. QED
      BY <2>2, <2>4, <2>5, <2>6 DEF TypeOK, hook
  <1>2. ASSUME NEW r \in Receivers, Receive(r) PROVE TypeOK'
    <2>1. PICK label \in ReceiverLabels : Goto(r, label)
      BY <1>2 DEF Receive, Trapped, Unhandled, Suppress, StepOver, Execute, SingleStep,
                  UnprotectFails, ReceiverLabels
    <2>2. /\ pc' \in [Patchers -> ReceiverLabels \union ControllerLabels]
          /\ \A q \in Receivers : pc'[q] \in ReceiverLabels
          /\ pc'[Controller] = pc[Controller]
          /\ \A t \in Patchers : t # r => pc'[t] = pc[t]
      BY <2>1, ReceiverMoves
    <2>3. /\ pc[r] \in {"trapped", "retrapped", "stepping", "stepped"} \/ patch[r] = "none"
          /\ r \in Patchers
      BY <1>2 DEF Receive, Trapped, Unhandled, Suppress, StepOver, Execute, SingleStep,
                  UnprotectFails, Patchers
    <2>4. UNCHANGED <<byte, writable, hook, packet, patch, saved, disturbed, starts>>
      BY <1>2 DEF Receive, Trapped, Unhandled, Suppress, StepOver, Execute, SingleStep, UnprotectFails
    <2>5. \A t \in Patchers : patch'[t] # "none" => Patching(t)' \/ pc'[t] = "fault"
      BY <2>2, <2>3, <2>4 DEF TypeOK, Patching
    <2>6. QED
      BY <2>2, <2>4, <2>5 DEF TypeOK, hook
  <1>3. ASSUME Alive, NEW t \in Patchers, PatchByte(t) PROVE TypeOK'
    <2>1. CASE Unprotect(t)
      <3>1. /\ patch' = [patch EXCEPT ![t] = "unprotected"]
            /\ Patching(t)
            /\ saved' = [saved EXCEPT ![t] = writable] /\ writable' = TRUE
            /\ UNCHANGED <<byte, hook, pc, packet, disturbed, starts>>
        BY <2>1 DEF Unprotect
      <3>2. saved' \in [Patchers -> BOOLEAN]
        BY <3>1 DEF TypeOK
      <3>3. /\ patch' \in [Patchers -> {"none", "unprotected", "written"}]
            /\ \A q \in Patchers : patch'[q] # "none" => Patching(q)' \/ pc'[q] = "fault"
        BY <3>1 DEF TypeOK, Patching
      <3>4. QED
        BY <3>1, <3>2, <3>3 DEF TypeOK, hook
    <2>2. CASE WriteByte(t)
      <3>1. CASE writable
        <4>1. /\ byte' = Value(t)
              /\ patch' = [patch EXCEPT ![t] = "written"]
              /\ patch[t] # "none"
              /\ UNCHANGED <<writable, hook, pc, packet, saved, disturbed, starts>>
          BY <2>2, <3>1 DEF WriteByte
        <4>2. byte' \in Byte
          BY <4>1 DEF Value, TypeOK, Byte
        <4>3. /\ patch' \in [Patchers -> {"none", "unprotected", "written"}]
              /\ \A q \in Patchers : patch'[q] # "none" => Patching(q)' \/ pc'[q] = "fault"
          BY <4>1 DEF TypeOK, Patching
        <4>4. QED
          BY <4>1, <4>2, <4>3 DEF TypeOK, hook
      <3>2. CASE ~writable
        <4>1. /\ Goto(t, "fault")
              /\ UNCHANGED <<byte, writable, hook, packet, patch, saved, disturbed,
                             starts>>
          BY <2>2, <3>2 DEF WriteByte
        <4>2. /\ pc' \in [Patchers -> ReceiverLabels \union ControllerLabels]
              /\ \A q \in Receivers : pc'[q] \in ReceiverLabels
              /\ pc'[Controller] \in ControllerLabels
              /\ \A q \in Patchers : q # t => pc'[q] = pc[q]
              /\ pc'[t] = "fault"
          BY <4>1, ControllerAssumption
          DEF TypeOK, Goto, Patchers, ReceiverLabels, ControllerLabels
        <4>3. \A q \in Patchers : patch'[q] # "none" => Patching(q)' \/ pc'[q] = "fault"
          BY <4>1, <4>2 DEF TypeOK, Patching
        <4>4. QED
          BY <4>1, <4>2, <4>3 DEF TypeOK, hook
      <3>3. QED
        BY <3>1, <3>2
    <2>3. CASE Protect(t)
      <3>1. /\ patch[t] = "written"
            /\ writable' = saved[t]
            /\ patch' = [patch EXCEPT ![t] = "none"]
            /\ Goto(t, AfterPatch(t))
            /\ UNCHANGED <<byte, hook, packet, saved, disturbed, starts>>
        BY <2>3 DEF Protect
      <3>2. Patching(t)
        BY <1>3, <3>1 DEF Alive, TypeOK
      <3>3. AfterPatch(t) \in IF t = Controller THEN {"started", "removing"}
                              ELSE {"stepping", "fault", "outside"}
        BY <3>2, PatcherLabels, ControllerAssumption
      <3>4. /\ pc' \in [Patchers -> ReceiverLabels \union ControllerLabels]
            /\ \A q \in Receivers : pc'[q] \in ReceiverLabels
            /\ pc'[Controller] \in ControllerLabels
            /\ \A q \in Patchers : q # t => pc'[q] = pc[q]
        BY <3>1, <3>3, ControllerAssumption
        DEF TypeOK, Goto, Patchers, ReceiverLabels, ControllerLabels
      <3>5. /\ patch' \in [Patchers -> {"none", "unprotected", "written"}]
            /\ \A q \in Patchers : patch'[q] # "none" => Patching(q)' \/ pc'[q] = "fault"
        BY <3>1, <3>4 DEF TypeOK, Patching
      <3>6. writable' \in BOOLEAN
        BY <3>1 DEF TypeOK
      <3>7. QED
        BY <3>1, <3>4, <3>5, <3>6 DEF TypeOK, hook
    <2>4. QED
      BY <1>3, <2>1, <2>2, <2>3 DEF PatchByte
  <1>4. CASE Control
    <2>1. PICK label \in ControllerLabels :
             Goto(Controller, label) \/ (pc' = pc /\ label = pc[Controller])
      BY <1>4 DEF Control, Start, Stop, RemoveHandler, Reset, ControllerLabels, TypeOK
    <2>2. /\ pc' \in [Patchers -> ReceiverLabels \union ControllerLabels]
          /\ \A q \in Receivers : pc'[q] = pc[q]
          /\ pc'[Controller] = label
      BY <2>1, ControllerMoves DEF TypeOK
    <2>3. /\ disturbed' \in BOOLEAN
          /\ UNCHANGED <<byte, writable, packet, patch, saved>>
          /\ patch[Controller] = "none"
          /\ originalByte' \in Byte /\ starts' \in Nat
      <3>1. pc[Controller] \in {"stopped", "started", "removing"}
        BY <1>4 DEF Control, Start, Stop, RemoveHandler, Reset
      <3>2. patch[Controller] = "none"
        BY <3>1 DEF TypeOK, Patching, Patchers
      <3>3. disturbed' \in BOOLEAN
        BY <1>4 DEF Control, Start, Stop, RemoveHandler, Reset, TypeOK
      <3>4. UNCHANGED <<byte, writable, packet, patch, saved>>
        BY <1>4 DEF Control, Start, Stop, RemoveHandler, Reset
      <3>5. originalByte' \in Byte /\ starts' \in Nat
        BY <1>4 DEF Control, Start, Stop, RemoveHandler, Reset, TypeOK
      <3>6. QED
        BY <3>2, <3>3, <3>4, <3>5
    <2>4. armed' \in BOOLEAN /\ handler' \in BOOLEAN /\ resolved' \in BOOLEAN
      BY <1>4 DEF Control, Start, Stop, RemoveHandler, Reset, TypeOK
    <2>5. \A t \in Patchers : patch'[t] # "none" => Patching(t)' \/ pc'[t] = "fault"
      BY <2>2, <2>3 DEF TypeOK, Patching, Patchers
    <2>6. QED
      BY <2>2, <2>3, <2>4, <2>5 DEF TypeOK
  <1>5. CASE UNCHANGED vars
    BY <1>5 DEF vars, hook, TypeOK, Patching
  <1>6. QED
    BY <1>1, <1>2, <1>3, <1>4, <1>5 DEF Next

(* Every variable keeps its type, and only a thread inside PatchByte has   *)
(* the page's protection open.                                             *)
THEOREM TypeCorrect == Spec => []TypeOK
  BY TypeInit, TypeNext, PTL DEF Spec
-----------------------------------------------------------------------------
LEMMA KeptInit == Init => HookKept
  BY ControllerAssumption DEF Init, HookKept, Patchers, InSession

LEMMA KeptNext == TypeOK /\ HookKept /\ [Next]_vars => HookKept'
  <1> SUFFICES ASSUME TypeOK, HookKept, [Next]_vars PROVE HookKept'
    OBVIOUS
  <1> DEFINE Installed == InSession \/ (pc[Controller] = "arming" /\ patch[Controller] = "written")
  <1>1. ASSUME Alive, NEW r \in Receivers, NEW kind \in {"chat", "strpm"}, OnConsume(r, kind)
        PROVE  HookKept'
    <2>1. PICK label \in {"trapped", "outside"} : Goto(r, label)
      BY <1>1 DEF OnConsume
    <2>2. /\ pc'[Controller] = pc[Controller]
          /\ \A q \in Receivers : q # r => pc'[q] = pc[q]
      BY <2>1, ReceiverMoves DEF ReceiverLabels, Patchers
    <2>3. pc[r] = "outside" /\ UNCHANGED <<byte, hook, patch>>
      BY <1>1 DEF OnConsume
    <2>4. \A q \in Receivers : WillRearm(q) => WillRearm(q)'
      BY <2>2, <2>3 DEF WillRearm
    <2>5. QED
      BY <1>1, <2>2, <2>3, <2>4 DEF HookKept, InSession, hook
  <1>2. ASSUME Alive, NEW r \in Receivers, Receive(r) PROVE HookKept'
    <2>1. PICK label \in ReceiverLabels : Goto(r, label)
      BY <1>2 DEF Receive, Trapped, Unhandled, Suppress, StepOver, Execute, SingleStep,
                  UnprotectFails, ReceiverLabels
    <2>2. /\ pc'[Controller] = pc[Controller] /\ pc'[r] = label
          /\ \A q \in Receivers : q # r => pc'[q] = pc[q]
      BY <2>1, ReceiverMoves DEF Patchers
    <2>3. UNCHANGED <<byte, hook, patch>>
      BY <1>2 DEF Receive, Trapped, Unhandled, Suppress, StepOver, Execute, SingleStep, UnprotectFails
    <2>4. \A q \in Receivers : q # r /\ WillRearm(q) => WillRearm(q)'
      BY <2>2, <2>3 DEF WillRearm
    <2>5. Installed /\ Alive' /\ WillRearm(r) => byte = "int3" \/ WillRearm(r)'
      <3>1. SUFFICES ASSUME Installed, Alive', WillRearm(r), byte # "int3" PROVE WillRearm(r)'
        OBVIOUS
      <3>2. armed /\ handler /\ resolved
        BY <3>1 DEF HookKept, InSession
      <3>3. patch[r] = "none" \/ pc[r] \in {"restoring", "rearming"}
        BY <3>1 DEF WillRearm, TypeOK, Patchers, Patching, ReceiverLabels
      <3>4. CASE Execute(r)
        BY <2>2, <2>3, <3>1, <3>4 DEF Execute, WillRearm, Goto, TypeOK, Patchers
      <3>5. CASE SingleStep(r)
        <4>1. pc'[r] = "rearming" /\ patch'[r] = "none"
          BY <2>2, <2>3, <3>2, <3>3, <3>5 DEF SingleStep, Goto, TypeOK, Patchers
        <4>2. QED
          BY <4>1 DEF WillRearm
      <3>6. QED
        BY <1>2, <3>1, <3>2, <3>4, <3>5
        DEF Receive, Trapped, Unhandled, Suppress, StepOver, UnprotectFails, WillRearm
    <2>6. QED
      BY <1>2, <2>2, <2>3, <2>4, <2>5 DEF HookKept, InSession, hook
  <1>3. ASSUME Alive, NEW t \in Patchers, PatchByte(t) PROVE HookKept'
    <2>1. CASE Unprotect(t)
      <3>1. /\ patch[t] = "none" /\ patch' = [patch EXCEPT ![t] = "unprotected"]
            /\ UNCHANGED <<byte, hook, pc>>
        BY <2>1 DEF Unprotect
      <3>2. patch'[Controller] = "written" => patch[Controller] = "written"
        BY <3>1 DEF TypeOK, Patchers
      <3>3. \A q \in Receivers : WillRearm(q) => WillRearm(q)'
        BY <3>1 DEF WillRearm, TypeOK, Patchers
      <3>4. QED
        BY <1>3, <3>1, <3>2, <3>3 DEF HookKept, InSession, hook
    <2>2. CASE WriteByte(t)
      <3>1. CASE ~writable
        <4>1. pc'[t] = "fault" /\ UNCHANGED hook
          BY <2>2, <3>1 DEF WriteByte, Goto, TypeOK
        <4>2. ~Alive'
          BY <4>1 DEF Alive
        <4>3. pc'[Controller] \in {"arming", "started"} => pc'[Controller] = pc[Controller]
          BY <2>2, <3>1 DEF WriteByte, Goto, TypeOK, Patchers
        <4>4. QED
          BY <4>1, <4>2, <4>3 DEF HookKept, hook
      <3>2. CASE writable
        <4>1. /\ patch[t] = "unprotected" /\ patch' = [patch EXCEPT ![t] = "written"]
              /\ byte' = Value(t)
              /\ UNCHANGED <<hook, pc>>
          BY <2>2, <3>2 DEF WriteByte
        <4>2. Patching(t)
          BY <1>3, <4>1 DEF Alive, TypeOK
        <4>3. CASE pc[t] \in {"rearming", "arming"}
          <5>1. byte' = "int3"
            BY <4>1, <4>3 DEF Value
          <5>2. QED
            BY <4>1, <5>1 DEF HookKept, hook
        <4>4. CASE pc[t] = "restoring"
          <5>1. t \in Receivers
            BY <4>4 DEF TypeOK, ControllerLabels, Patchers
          <5>2. WillRearm(t)'
            BY <4>1, <4>4 DEF WillRearm, TypeOK
          <5>3. QED
            BY <4>1, <5>1, <5>2 DEF HookKept, hook
        <4>5. CASE pc[t] = "disarming"
          <5>1. t = Controller
            BY <4>5 DEF TypeOK, ReceiverLabels, Patchers
          <5>2. QED
            BY <4>1, <4>5, <5>1 DEF HookKept, InSession
        <4>6. QED
          BY <4>2, <4>3, <4>4, <4>5 DEF Patching
      <3>3. QED
        BY <3>1, <3>2
    <2>3. CASE Protect(t)
      <3>1. /\ patch[t] = "written" /\ patch' = [patch EXCEPT ![t] = "none"]
            /\ pc' = [pc EXCEPT ![t] = AfterPatch(t)]
            /\ UNCHANGED <<byte, hook>>
        BY <2>3 DEF Protect, Goto
      <3>2. Patching(t)
        BY <1>3, <3>1 DEF Alive, TypeOK
      <3>3. CASE t \in Receivers
        <4>1. pc'[Controller] = pc[Controller] /\ patch'[Controller] = patch[Controller]
          BY <3>1, <3>3, ControllerAssumption DEF TypeOK, Patchers
        <4>2. \A q \in Receivers : q # t /\ WillRearm(q) => WillRearm(q)'
          BY <3>1 DEF WillRearm, TypeOK, Patchers
        <4>3. WillRearm(t) /\ resolved => WillRearm(t)'
          <5>1. WillRearm(t) => pc[t] = "restoring"
            BY <3>1, <3>2 DEF WillRearm, Patching
          <5>2. pc[t] = "restoring" /\ resolved => pc'[t] = "stepping"
            BY <3>1 DEF AfterPatch, TypeOK
          <5>3. QED
            BY <5>1, <5>2 DEF WillRearm
        <4>4. Installed => resolved
          BY DEF HookKept, InSession
        <4>5. QED
          BY <1>3, <3>1, <4>1, <4>2, <4>3, <4>4 DEF HookKept, InSession, hook
      <3>4. CASE t = Controller
        <4>1. \A q \in Receivers : WillRearm(q) => WillRearm(q)'
          BY <3>1, <3>4, ControllerAssumption DEF WillRearm, TypeOK, Patchers
        <4>2. (pc[t] = "arming" /\ pc'[t] = "started") \/ pc'[t] = "removing"
          BY <3>1, <3>2, <3>4, PatcherLabels DEF AfterPatch, TypeOK
        <4>3. QED
          BY <1>3, <3>1, <3>4, <4>1, <4>2 DEF HookKept, InSession, hook
      <3>5. QED
        BY <3>3, <3>4 DEF Patchers
    <2>4. QED
      BY <1>3, <2>1, <2>2, <2>3 DEF PatchByte
  <1>4. ASSUME Alive, Control PROVE HookKept'
    <2>1. patch[Controller] = "none" /\ patch' = patch
      BY <1>4 DEF Control, Start, Stop, RemoveHandler, Reset, TypeOK, Patching, Patchers
    <2>2. pc'[Controller] # "started"
      BY <1>4 DEF Control, Start, Stop, RemoveHandler, Reset, Goto, TypeOK, Patchers
    <2>3. pc'[Controller] = "arming" => armed' /\ handler' /\ resolved'
      BY <1>4 DEF Control, Start, Stop, RemoveHandler, Reset, Goto, TypeOK, Patchers
    <2>4. QED
      BY <2>1, <2>2, <2>3 DEF HookKept, InSession
  <1>5. CASE UNCHANGED vars
    BY <1>5 DEF vars, hook, HookKept, InSession, Alive, WillRearm
  <1>6. QED
    BY <1>1, <1>2, <1>3, <1>4, <1>5 DEF Next

(* While a session lasts and no receiver is in OnConsume, the breakpoint   *)
(* is in place, whatever the receivers' steps interleaved with.            *)
THEOREM HookIsKept == Spec => []HookSurvives
  <1>1. TypeOK /\ HookKept => HookSurvives
    BY DEF HookKept, HookSurvives, WillRearm, Outside
  <1>2. QED
    BY <1>1, TypeInit, TypeNext, KeptInit, KeptNext, PTL DEF Spec
-----------------------------------------------------------------------------
(* The invariant behind StopRestores: while Start and Stop run between     *)
(* packets, nobody but the controller is about to write the byte then.     *)
Restored ==
    ~disturbed =>
        /\ originalByte = "original"
        /\ Alive => /\ pc[Controller] # "started" => Outside
                    /\ pc[Controller] \in {"stopped", "removing"} => byte = "original"
                    /\ pc[Controller] = "disarming" /\ patch[Controller] = "written"
                         => byte = "original"

LEMMA RestoredInit == Init => Restored
  BY ControllerAssumption DEF Init, Restored, Outside, Patchers

LEMMA RestoredNext == TypeOK /\ Restored /\ [Next]_vars => Restored'
  <1> SUFFICES ASSUME TypeOK, Restored, [Next]_vars, ~disturbed' PROVE Restored'
    BY DEF Restored
  <1>0. ~disturbed
    BY DEF Next, vars, OnConsume, Receive, Trapped, Unhandled, Suppress, StepOver, Execute, SingleStep,
           UnprotectFails, PatchByte, Unprotect, WriteByte, Protect, Control, Start, Stop,
           RemoveHandler, Reset
  <1>1. ASSUME Alive, NEW r \in Receivers, NEW kind \in {"chat", "strpm"}, OnConsume(r, kind)
        PROVE  Restored'
    <2>1. PICK label \in {"trapped", "outside"} :
             Goto(r, label) /\ (byte # "int3" => label = "outside")
      BY <1>1 DEF OnConsume
    <2>2. /\ pc'[Controller] = pc[Controller] /\ pc'[r] = label
          /\ \A q \in Receivers : q # r => pc'[q] = pc[q]
      BY <2>1, ReceiverMoves DEF ReceiverLabels, Patchers
    <2>3. pc[Controller] \in {"started", "stopped"} /\ UNCHANGED <<byte, hook, patch>>
      BY <1>1 DEF OnConsume
    <2>4. QED
      BY <1>0, <1>1, <2>1, <2>2, <2>3 DEF Restored, Outside, hook
  <1>2. ASSUME Alive, NEW r \in Receivers, Receive(r) PROVE Restored'
    <2>1. PICK label \in ReceiverLabels : Goto(r, label)
      BY <1>2 DEF Receive, Trapped, Unhandled, Suppress, StepOver, Execute, SingleStep,
                  UnprotectFails, ReceiverLabels
    <2>2. pc'[Controller] = pc[Controller]
      BY <2>1, ReceiverMoves
    <2>3. pc[r] # "outside" /\ UNCHANGED <<byte, hook, patch>>
      BY <1>2 DEF Receive, Trapped, Unhandled, Suppress, StepOver, Execute, SingleStep, UnprotectFails,
                  Patching
    <2>4. pc[Controller] = "started" /\ originalByte = "original"
      BY <1>0, <1>2, <2>3 DEF Restored, Outside
    <2>5. QED
      BY <2>2, <2>3, <2>4 DEF Restored, hook
  <1>3. ASSUME Alive, NEW t \in Patchers, PatchByte(t) PROVE Restored'
    <2>1. UNCHANGED hook /\ originalByte = "original" /\ originalByte' = "original"
      BY <1>0, <1>3 DEF PatchByte, Unprotect, WriteByte, Protect, Restored, hook
    <2>2. CASE ~Alive'
      BY <2>1, <2>2 DEF Restored
    <2>3. CASE Alive' /\ t \in Receivers
      <3>1. Patching(t)
        BY <1>3 DEF Alive, TypeOK, PatchByte, Unprotect, WriteByte, Protect
      <3>2. pc[t] # "outside"
        BY <3>1 DEF Patching
      <3>3. pc[Controller] = "started"
        BY <1>0, <1>3, <2>3, <3>2 DEF Restored, Outside
      <3>4. pc' = pc \/ \E label : pc' = [pc EXCEPT ![t] = label]
        BY <1>3 DEF PatchByte, Unprotect, WriteByte, Protect, Goto
      <3>5. pc'[Controller] = "started"
        BY <2>3, <3>3, <3>4, ControllerAssumption DEF TypeOK, Patchers
      <3>6. QED
        BY <2>1, <3>5 DEF Restored
    <2>4. CASE Alive' /\ t = Controller
      <3>1. Patching(t) /\ pc[t] \in {"arming", "disarming"}
        BY <1>3, <2>4, PatcherLabels DEF Alive, TypeOK, PatchByte, Unprotect, WriteByte, Protect
      <3>2. Outside
        BY <1>0, <1>3, <2>4, <3>1 DEF Restored
      <3>3. CASE Unprotect(t)
        BY <1>0, <1>3, <2>1, <2>4, <3>1, <3>2, <3>3 DEF Unprotect, Restored, Outside, TypeOK
      <3>4. CASE WriteByte(t)
        <4>1. byte' = Value(t) /\ UNCHANGED pc
          BY <2>4, <3>4, <1>3 DEF WriteByte, Goto, Alive, TypeOK
        <4>2. pc[t] = "disarming" => byte' = "original"
          BY <2>1, <4>1 DEF Value
        <4>3. QED
          BY <2>1, <2>4, <3>1, <3>2, <4>1, <4>2 DEF Restored, Outside
      <3>5. CASE Protect(t)
        <4>1. pc' = [pc EXCEPT ![t] = AfterPatch(t)] /\ patch[t] = "written" /\ byte' = byte
          BY <3>5 DEF Protect, Goto
        <4>2. /\ pc'[t] = AfterPatch(t)
              /\ \A q \in Receivers : pc'[q] = pc[q]
          BY <2>4, <4>1, ControllerAssumption DEF TypeOK, Patchers
        <4>3. (pc[t] = "arming" /\ pc'[t] = "started") \/ (pc[t] = "disarming" /\ pc'[t] = "removing")
          BY <3>1, <4>2 DEF AfterPatch
        <4>4. QED
          BY <1>0, <1>3, <2>1, <2>4, <3>2, <4>1, <4>2, <4>3 DEF Restored, Outside
      <3>6. QED
        BY <1>3, <3>3, <3>4, <3>5 DEF PatchByte
    <2>5. QED
      BY <2>2, <2>3, <2>4 DEF Patchers
  <1>4. ASSUME Alive, Control PROVE Restored'
    <2>1. UNCHANGED byte
      BY <1>4 DEF Control, Start, Stop, RemoveHandler, Reset
    <2>2. \A q \in Receivers : pc'[q] = pc[q]
      BY <1>4, ControllerAssumption
      DEF Control, Start, Stop, RemoveHandler, Reset, Goto, TypeOK, Patchers
    <2>3. Outside /\ patch' = patch /\ patch[Controller] = "none"
      BY <1>0, <1>4 DEF Control, Start, Stop, RemoveHandler, Reset, TypeOK, Patching, Patchers,
                        Restored
    <2>4. /\ pc'[Controller] \in {"stopped", "removing"} => byte = "original"
          /\ originalByte' = "original"
      BY <1>0, <1>4 DEF Control, Start, Stop, RemoveHandler, Reset, Goto, TypeOK, Patchers,
                        Restored
    <2>5. QED
      BY <2>1, <2>2, <2>3, <2>4 DEF Restored, Outside
  <1>5. CASE UNCHANGED vars
    BY <1>5 DEF vars, hook, Restored, Outside, Alive
  <1>6. QED
    BY <1>1, <1>2, <1>3, <1>4, <1>5 DEF Next

(* As long as Start and Stop run between packets, Stop leaves STR's byte   *)
(* as it was found, and what Start saves is STR's byte.                    *)
THEOREM StopIsRestoring == Spec => []StopRestores
  <1>1. Restored => StopRestores
    BY DEF Restored, StopRestores
  <1>2. QED
    BY <1>1, TypeInit, TypeNext, RestoredInit, RestoredNext, PTL DEF Spec
=============================================================================
