---------------------------- MODULE OnConsumeHook ----------------------------
(***************************************************************************)
(* The software breakpoint on TransportService::OnConsume                  *)
(* (STRPluginMessagingBridgeReceive.cpp): Start writes INT3 over the first *)
(* byte of the function; the vectored handler swallows an STRPM packet by  *)
(* returning to the caller, and steps any other packet over the patch: it  *)
(* puts the original byte back, lets the processor run one instruction,    *)
(* and writes INT3 again on the single-step exception.  A packet that met  *)
(* another thread's INT3 while it was stepped over traps again, with the   *)
(* single step still pending ("retrapped"): if it is swallowed then, the   *)
(* single step comes in the caller's code.  Packets arrive without end.    *)
(*                                                                         *)
(* The byte and the protection of its page belong to the whole process,    *)
(* and PatchByte is three steps of the system: make the page writable and  *)
(* save its protection, write, put the saved protection back.  A fault     *)
(* ends the process; the thread that raised it stops in "fault".           *)
(***************************************************************************)
EXTENDS Integers, FiniteSets

CONSTANTS
    Receivers,    \* the STR threads that call OnConsume
    Controller,   \* the thread that runs Start and Stop
    MaxStarts     \* bound: calls of Start

ASSUME ControllerAssumption == Controller \notin Receivers
ASSUME BoundsAssumption     == MaxStarts \in Nat

Patchers == Receivers \union {Controller}
Byte == {"original", "int3"}

VARIABLES
    byte,          \* the first byte of OnConsume, as the processor sees it
    writable,      \* its page may be written
    originalByte,  \* g_originalByte
    armed,         \* g_breakpointArmed
    handler,       \* g_vectoredHandler is registered
    resolved,      \* g_onConsumeAddress is not 0
    pc,            \* what each thread is doing
    packet,        \* the kind of packet each receiver was called with
    patch,         \* how far each thread is in PatchByte
    saved,         \* the protection its VirtualProtect saved
    disturbed,     \* history: a receiver was in OnConsume during Start or Stop
    starts         \* bound

hook == <<originalByte, armed, handler, resolved>>
vars == <<byte, writable, hook, pc, packet, patch, saved, disturbed, starts>>

Init ==
    /\ byte = "original" /\ writable = FALSE
    /\ originalByte = "original"
    /\ armed = FALSE /\ handler = FALSE /\ resolved = FALSE
    /\ pc = [t \in Patchers |-> IF t = Controller THEN "stopped" ELSE "outside"]
    /\ packet = [r \in Receivers |-> "chat"]
    /\ patch = [t \in Patchers |-> "none"]
    /\ saved = [t \in Patchers |-> FALSE]
    /\ disturbed = FALSE /\ starts = 0

Goto(t, label) == pc' = [pc EXCEPT ![t] = label]
Outside == \A r \in Receivers : pc[r] = "outside"
-----------------------------------------------------------------------------
(* PatchByte, by a thread whose pc says what it writes.                    *)

Patching(t) == pc[t] \in {"restoring", "rearming", "arming", "disarming"}
Value(t) == IF pc[t] \in {"rearming", "arming"} THEN "int3" ELSE originalByte

(* What the thread does when PatchByte has returned.                       *)
AfterPatch(t) ==
    CASE pc[t] = "restoring" -> IF resolved THEN "stepping" ELSE "fault"
      [] pc[t] = "rearming"      -> "outside"
      [] pc[t] = "arming"        -> "started"
      [] pc[t] = "disarming"     -> "removing"

Unprotect(t) ==
    /\ Patching(t) /\ patch[t] = "none" /\ resolved
    /\ saved' = [saved EXCEPT ![t] = writable]
    /\ writable' = TRUE
    /\ patch' = [patch EXCEPT ![t] = "unprotected"]
    /\ UNCHANGED <<byte, hook, pc, packet, disturbed, starts>>

(* The write faults when another thread has put the protection back.       *)
WriteByte(t) ==
    /\ patch[t] = "unprotected"
    /\ IF writable
         THEN /\ byte' = Value(t)
              /\ patch' = [patch EXCEPT ![t] = "written"]
              /\ UNCHANGED pc
         ELSE /\ Goto(t, "fault")
              /\ UNCHANGED <<byte, patch>>
    /\ UNCHANGED <<writable, hook, packet, saved, disturbed, starts>>

Protect(t) ==
    /\ patch[t] = "written"
    /\ writable' = saved[t]
    /\ patch' = [patch EXCEPT ![t] = "none"]
    /\ Goto(t, AfterPatch(t))
    /\ UNCHANGED <<byte, hook, packet, saved, disturbed, starts>>

PatchByte(t) == Unprotect(t) \/ WriteByte(t) \/ Protect(t)
-----------------------------------------------------------------------------
(* A receiver: OnConsume, and ReceiveExceptionHandler on its thread.       *)

InSession == pc[Controller] = "started"

(* STR receives a packet and calls OnConsume.                              *)
OnConsume(r, kind) ==
    /\ pc[r] = "outside"
    /\ packet' = [packet EXCEPT ![r] = kind]
    /\ Goto(r, IF byte = "int3" THEN "trapped" ELSE "outside")
    /\ disturbed' = (disturbed \/ pc[Controller] \notin {"started", "stopped"})
    /\ UNCHANGED <<byte, writable, hook, patch, saved, starts>>

(* The breakpoint exception: no handler of this plugin, no rescue.         *)
Trapped(r) == pc[r] \in {"trapped", "retrapped"}

Unhandled(r) ==
    /\ Trapped(r) /\ ~(handler /\ armed)
    /\ Goto(r, "fault")
    /\ UNCHANGED <<byte, writable, hook, packet, patch, saved, disturbed, starts>>

(* An STRPM packet that found a slot: return to OnConsume's caller, where  *)
(* a single step that is pending comes after the next instruction.         *)
Suppress(r) ==
    /\ Trapped(r) /\ handler /\ armed /\ packet[r] = "strpm"
    /\ Goto(r, IF pc[r] = "retrapped" THEN "stepped" ELSE "outside")
    /\ UNCHANGED <<byte, writable, hook, packet, patch, saved, disturbed, starts>>

(* A slip: the original byte is not put back.                              *)
StepOverInPlace(r) ==
    /\ Trapped(r) /\ handler /\ armed
    /\ Goto(r, "stepping")
    /\ UNCHANGED <<byte, writable, hook, packet, patch, saved, disturbed, starts>>

(* Any other packet, and an STRPM packet when the slots are all taken.     *)
StepOver(r) ==
    /\ Trapped(r) /\ handler /\ armed
    /\ Goto(r, "restoring")
    /\ UNCHANGED <<byte, writable, hook, packet, patch, saved, disturbed, starts>>

(* The processor runs the instruction, or meets an INT3 that another       *)
(* thread has written meanwhile.                                           *)
Execute(r) ==
    /\ pc[r] = "stepping"
    /\ Goto(r, IF byte = "int3" THEN "retrapped" ELSE "stepped")
    /\ UNCHANGED <<byte, writable, hook, packet, patch, saved, disturbed, starts>>

(* A slip: the breakpoint is left to another thread that is stepping over  *)
(* it now.                                                                 *)
SingleStepLeaves(r) ==
    /\ pc[r] = "stepped" /\ handler
    /\ Goto(r, IF armed /\ \A q \in Receivers \ {r} : pc[q] \notin {"stepping", "rearming"}
               THEN "rearming" ELSE "outside")
    /\ UNCHANGED <<byte, writable, hook, packet, patch, saved, disturbed, starts>>

(* The single-step exception.                                              *)
SingleStep(r) ==
    /\ pc[r] = "stepped"
    /\ Goto(r, IF ~handler THEN "fault" ELSE IF armed THEN "rearming" ELSE "outside")
    /\ UNCHANGED <<byte, writable, hook, packet, patch, saved, disturbed, starts>>

(* Stop has set the address to 0: the handler's PatchByte fails.           *)
UnprotectFails(r) ==
    /\ Patching(r) /\ patch[r] = "none" /\ ~resolved
    /\ Goto(r, IF pc[r] = "restoring" THEN "fault" ELSE "outside")
    /\ UNCHANGED <<byte, writable, hook, packet, patch, saved, disturbed, starts>>

Receive(r) == Unhandled(r) \/ Suppress(r) \/ StepOver(r) \/ Execute(r) \/ SingleStep(r)
                \/ UnprotectFails(r)
-----------------------------------------------------------------------------
(* The controller: Start (ArmBreakpoint) and Stop.                         *)

Start ==
    /\ pc[Controller] = "stopped" /\ starts < MaxStarts
    /\ starts' = starts + 1
    /\ resolved' = TRUE /\ handler' = TRUE
    /\ originalByte' = byte
    /\ armed' = TRUE
    /\ Goto(Controller, "arming")
    /\ disturbed' = (disturbed \/ ~Outside)
    /\ UNCHANGED <<byte, writable, packet, patch, saved>>

(* A slip: the breakpoint is disarmed, but stays in the code.              *)
StopLeavesByte ==
    /\ pc[Controller] = "started"
    /\ armed' = FALSE
    /\ disturbed' = (disturbed \/ ~Outside)
    /\ Goto(Controller, "removing")
    /\ UNCHANGED <<byte, writable, originalByte, handler, resolved, packet, patch, saved,
                   starts>>

Stop ==
    /\ pc[Controller] = "started"
    /\ armed' = FALSE
    /\ disturbed' = (disturbed \/ ~Outside)
    /\ Goto(Controller, "disarming")
    /\ UNCHANGED <<byte, writable, originalByte, handler, resolved, packet, patch, saved,
                   starts>>

RemoveHandler ==
    /\ pc[Controller] = "removing" /\ handler
    /\ handler' = FALSE
    /\ UNCHANGED <<byte, writable, originalByte, armed, resolved, pc, packet, patch, saved,
                   disturbed, starts>>

Reset ==
    /\ pc[Controller] = "removing" /\ ~handler
    /\ resolved' = FALSE
    /\ Goto(Controller, "stopped")
    /\ UNCHANGED <<byte, writable, originalByte, armed, handler, packet, patch, saved,
                   disturbed, starts>>

Control == Start \/ Stop \/ RemoveHandler \/ Reset

(* A fault ends the process.                                               *)
Alive == \A t \in Patchers : pc[t] # "fault"

Next ==
    /\ Alive
    /\ \/ \E r \in Receivers, kind \in {"chat", "strpm"} : OnConsume(r, kind)
       \/ \E r \in Receivers : Receive(r)
       \/ \E t \in Patchers : PatchByte(t)
       \/ Control

(* The system runs every thread that is not waiting for a packet.          *)
Runs(r) == Alive /\ (Receive(r) \/ PatchByte(r))
Fairness == /\ \A r \in Receivers : WF_vars(Runs(r))
            /\ WF_vars(Alive /\ PatchByte(Controller))

Spec == Init /\ [][Next]_vars /\ Fairness
-----------------------------------------------------------------------------
(* Properties.                                                             *)

ReceiverLabels == {"outside", "trapped", "retrapped", "restoring", "stepping", "stepped",
                   "rearming", "fault"}
ControllerLabels == {"stopped", "arming", "started", "disarming", "removing", "fault"}

(* The type invariant, which OnConsumeHook_proofs proves.                  *)
TypeOK ==
    /\ byte \in Byte /\ writable \in BOOLEAN
    /\ originalByte \in Byte
    /\ armed \in BOOLEAN /\ handler \in BOOLEAN /\ resolved \in BOOLEAN
    /\ pc \in [Patchers -> ReceiverLabels \union ControllerLabels]
    /\ \A r \in Receivers : pc[r] \in ReceiverLabels
    /\ pc[Controller] \in ControllerLabels
    /\ packet \in [Receivers -> {"chat", "strpm"}]
    /\ patch \in [Patchers -> {"none", "unprotected", "written"}]
    /\ saved \in [Patchers -> BOOLEAN]
    /\ disturbed \in BOOLEAN /\ starts \in Nat
    /\ \A t \in Patchers : patch[t] # "none" => Patching(t) \/ pc[t] = "fault"

(* The hook survives every packet that is stepped over, however the        *)
(* receivers' steps interleave: in a session, when no receiver is in       *)
(* OnConsume, the breakpoint is in place.                                  *)
HookSurvives == Alive /\ InSession /\ Outside => byte = "int3"

(* Stop takes the breakpoint out and leaves STR's code as it was found,    *)
(* so that a later Start saves the byte of STR and not its own INT3, as    *)
(* long as Start and Stop run between packets.                             *)
StopRestores ==
    ~disturbed =>
        /\ Alive /\ pc[Controller] = "stopped" /\ Outside => byte = "original"
        /\ originalByte = "original"

(* The receivers cannot trap one another for ever: calls go on returning   *)
(* from OnConsume, or in the end nobody is in it, as long as Start and     *)
(* Stop run between packets.  One packet alone may be trapped again and    *)
(* again, each time another that has been stepped over writes INT3 before  *)
(* it.  (A Start that saves an INT3 left behind by a Stop during a packet  *)
(* would make all of them trap for ever.)                                  *)
Returns == \E r \in Receivers : pc[r] # "outside" /\ pc'[r] = "outside"
CallsGoThrough == []<>(Outside \/ ~Alive \/ disturbed) \/ []<><<Returns>>_vars

(* The invariant behind HookSurvives: whoever has put the original byte    *)
(* back is on its way to write INT3 again.                                 *)
WillRearm(r) ==
    \/ pc[r] = "restoring" /\ patch[r] = "written"
    \/ pc[r] \in {"stepping", "stepped"}
    \/ pc[r] = "rearming" /\ patch[r] # "written"
HookKept ==
    /\ pc[Controller] \in {"arming", "started"} => armed /\ handler /\ resolved
    /\ Alive /\ (InSession \/ (pc[Controller] = "arming" /\ patch[Controller] = "written"))
         => byte = "int3" \/ \E r \in Receivers : WillRearm(r)
=============================================================================
