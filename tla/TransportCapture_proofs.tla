----------------------- MODULE TransportCapture_proofs -----------------------
(* The bridge's one-shot breakpoint, for every number of STR's threads, of *)
(* sessions and of failures.                                               *)
EXTENDS TransportCapture, TLAPS

CallerPlaces == {"away", "sending", "trapped", "disarm", "load", "restore", "write", "protect",
                 "resume"}
BootstrapPlaces == {"off", "top", "search", "arm", "patch", "write", "protect", "receive",
                    "ready"}
ControlPlaces == {"down", "up", "join", "unhook", "disarm", "restore", "write", "protect",
                  "remove", "forget", "clear"}

Typed ==
    /\ byte \in {"code", "int3"} /\ saved \in {"code", "int3"} /\ armed \in BOOLEAN
    /\ pc \in [Callers -> CallerPlaces] /\ bpc \in BootstrapPlaces /\ cpc \in ControlPlaces
    /\ writable \in BOOLEAN
    /\ held \in [Patchers -> [page : BOOLEAN, byte : {"code", "int3"}]]

(* How far Start and Stop have got says which of the bridge's facts may    *)
(* still hold.                                                             *)
Running == cpc \in {"up", "join"}
Phases ==
    /\ ~Running => bpc = "off"
    /\ sendReady => address
    /\ armed => sendReady /\ address /\ handler
    /\ Running \/ cpc = "unhook" \/ ~receiving
    /\ Running \/ cpc \in {"unhook", "disarm"} \/ ~armed
    /\ cpc \in {"forget", "clear", "down"} => ~handler
    /\ cpc \in {"clear", "down"} => ~instance
    /\ cpc = "down" => ~address /\ ~sendReady /\ ~receiveReady

(* As long as no two PatchBytes overlapped, whoever is about to write may. *)
Writing ==
    \/ \E t \in Callers : pc[t] = "write"
    \/ bpc = "write" \/ cpc = "write"
Paged == ~overlapped => (\A p, q \in Patching : p = q) /\ (Writing => writable)

(* Whose step puts the byte back, while no caller was overtaken by Stop.   *)
Outside == \A t \in Callers : pc[t] \in {"away", "sending"}
Restoring == \E t \in Callers : pc[t] \in {"load", "restore", "write"}
Patched ==
    /\ saved = "code"
    /\ ~Running => Outside
    /\ byte = "int3" => armed \/ Restoring \/ cpc \in {"restore", "write"}
    /\ armed => byte = "int3" \/ bpc \in {"patch", "write"}
    /\ bpc \in {"patch", "write"} => armed /\ ~instance /\ byte = "code" /\ Outside
    /\ cpc \in {"protect", "remove", "forget", "clear", "down"} => byte = "code"
    /\ bpc = "write" => held[Worker].byte = "int3"
    /\ cpc = "write" => held[Controller].byte = "code"
    /\ \A t \in Callers : pc[t] = "write" => held[t].byte = "code"

(* What each caller in the handler knows.                                  *)
Handled ==
    /\ ~Outside => (byte = "int3" /\ armed) \/ instance
    /\ \A t \in Callers : pc[t] \in {"disarm", "load", "restore", "write", "protect", "resume"}
                              => instance
    /\ Restoring => ~armed
    /\ \A t \in Callers : pc[t] = "load" => sendReady

(* A caller alone in the breakpoint is never left with an INT3 that        *)
(* nobody handles.                                                         *)
Alone ==
    /\ \A s, t \in Callers : s = t \/ pc[s] \in {"away", "sending"} \/ pc[t] \in {"away", "sending"}
    /\ ~crashed /\ ~failed
    /\ \A t \in Callers : pc[t] = "trapped" => armed

Kept == Carried => Patched /\ Handled /\ (~met /\ ~overlapped => Alone)
Accounted == Typed /\ Phases /\ Paged /\ Kept

-----------------------------------------------------------------------------
(* The history variables in terms of the callers.                          *)
LEMMA InsideOutside ==
    ASSUME Typed
    PROVE  Inside = {} <=> Outside
BY DEF Typed, Inside, Outside, CallerPlaces

LEMMA HistoryStep ==
    ASSUME Typed', History
    PROVE  /\ ~disturbed' => ~disturbed /\ (~Running' => Outside')
           /\ ~overlapped' => ~overlapped /\ \A x, y \in Patching' : x = y
           /\ ~met' => /\ ~met
                       /\ \A s, t \in Callers : s = t \/ pc'[s] \in {"away", "sending"}
                                                     \/ pc'[t] \in {"away", "sending"}
BY DEF Typed, History, Inside, Outside, CallerPlaces, Running

(* The other histories only ever come to be true.                          *)
LEMMA CarriedBefore ==
    ASSUME Next, Carried'
    PROVE  Carried
<1>1. (refused => refused') /\ (failed => failed')
  <2>1. CASE Call
    BY <2>1 DEF Call, Send, CallSend
  <2>2. CASE \E t \in Callers : Handle(t)
    BY <2>2 DEF Handle, Capture, Unhandled, Disarm, LoadAddress, RestoreByte, RestoreRefused, Resume
  <2>3. CASE Bootstrap
    BY <2>3 DEF Bootstrap
  <2>4. CASE Control
    BY <2>4 DEF Control, Start, Stop, StopBootstrap, StopReceive, RestoreCaptureBreakpoint,
                StopRefused, StopFaults, Clear
  <2> QED BY <2>1, <2>2, <2>3, <2>4 DEF Next
<1>2. (disturbed => disturbed') /\ (overlapped => overlapped')
  BY DEF Next, History
<1> QED BY <1>1, <1>2, Zenon DEF Carried

(* The parts of the invariant that no caller can disturb.                  *)
LEMMA TypedInit == Init => Typed /\ Phases
<1> SUFFICES ASSUME Init PROVE Typed /\ Phases
  OBVIOUS
<1>1. Nothing \in [page : BOOLEAN, byte : {"code", "int3"}]
  BY DEF Nothing
<1>2. held \in [Patchers -> [page : BOOLEAN, byte : {"code", "int3"}]]
  BY <1>1 DEF Init
<1>3. Typed
  BY <1>2 DEF Init, Typed, CallerPlaces, BootstrapPlaces, ControlPlaces
<1>4. Phases
  BY DEF Init, Phases, Running
<1> QED BY <1>3, <1>4

LEMMA PatchTyped ==
    ASSUME Typed, NEW x \in Patchers, NEW b \in {"code", "int3"},
           Unprotect(x, b) \/ Write(x) \/ Protect(x)
    PROVE  /\ byte' \in {"code", "int3"} /\ writable' \in BOOLEAN
           /\ held' \in [Patchers -> [page : BOOLEAN, byte : {"code", "int3"}]]
<1>1. CASE Unprotect(x, b)
  BY <1>1 DEF Typed, Unprotect
<1>2. CASE Write(x)
  BY <1>2 DEF Typed, Write, page
<1>3. CASE Protect(x)
  BY <1>3 DEF Typed, Protect, Nothing
<1> QED BY <1>1, <1>2, <1>3

LEMMA TypedNext ==
    ASSUME Typed, Next
    PROVE  Typed'
<1> USE DEF Typed, CallerPlaces, BootstrapPlaces, ControlPlaces, patch, page, found
<1>1. CASE Call
  BY <1>1 DEF Call, Send, CallSend
<1>2. ASSUME NEW t \in Callers, Handle(t) PROVE Typed'
  <2>1. CASE RestoreByte(t)
    <3>1. t \in Patchers /\ saved \in {"code", "int3"}
      BY DEF Patchers
    <3>2. Unprotect(t, saved) \/ Write(t) \/ Protect(t)
      BY <2>1 DEF RestoreByte
    <3>3. /\ byte' \in {"code", "int3"} /\ writable' \in BOOLEAN
          /\ held' \in [Patchers -> [page : BOOLEAN, byte : {"code", "int3"}]]
      BY <3>1, <3>2, PatchTyped
    <3>4. \E place \in {"write", "protect", "resume"} : pc' = [pc EXCEPT ![t] = place]
      BY <2>1 DEF RestoreByte
    <3>5. pc' \in [Callers -> CallerPlaces]
      BY <3>4
    <3>6. UNCHANGED <<saved, armed, bpc, cpc>>
      BY <1>2, <2>1 DEF Handle, RestoreByte, RestoreRefused
    <3> QED BY <3>3, <3>5, <3>6
  <2>2. CASE Capture(t) \/ Unhandled(t) \/ Disarm(t) \/ LoadAddress(t) \/ Resume(t)
    <3>1. UNCHANGED <<bpc, cpc>>
      BY <1>2, <2>2 DEF Handle, RestoreRefused
    <3>2. UNCHANGED <<byte, saved, writable, held>> /\ armed' \in BOOLEAN
      BY <2>2 DEF Capture, Unhandled, Disarm, LoadAddress, Resume
    <3>3. pc' = pc \/ \E place \in CallerPlaces : pc' = [pc EXCEPT ![t] = place]
      BY <2>2 DEF Capture, Unhandled, Disarm, LoadAddress, Resume
    <3>4. pc' \in [Callers -> CallerPlaces]
      BY <3>3
    <3> QED BY <3>1, <3>2, <3>4
  <2>3. CASE RestoreRefused(t)
    BY <2>3 DEF RestoreRefused
  <2> QED BY <1>2, <2>1, <2>2, <2>3 DEF Handle
<1>3. CASE Bootstrap
  <2>1. CASE PatchInt3
    <3>1. Worker \in Patchers
      BY DEF Patchers
    <3>2. Unprotect(Worker, "int3") \/ Write(Worker) \/ Protect(Worker)
      BY <2>1 DEF PatchInt3
    <3>3. /\ byte' \in {"code", "int3"} /\ writable' \in BOOLEAN
          /\ held' \in [Patchers -> [page : BOOLEAN, byte : {"code", "int3"}]]
      BY <3>1, <3>2, PatchTyped
    <3> QED BY <1>3, <2>1, <3>3 DEF Bootstrap, PatchInt3
  <2>2. CASE Top \/ ResolveProcessChatMessage \/ Arm \/ NoArm \/ PatchRefused \/ PatchFaults
              \/ StartReceive \/ Bootstrapped
    BY <1>3, <2>2 DEF Bootstrap, Top, ResolveProcessChatMessage, NeedsArming, Arm, NoArm,
                PatchRefused, PatchFaults, StartReceive, Bootstrapped
  <2> QED BY <1>3, <2>1, <2>2 DEF Bootstrap
<1>4. CASE Control
  <2>1. CASE RestoreCaptureBreakpoint /\ cpc # "disarm"
    <3>1. Controller \in Patchers /\ saved \in {"code", "int3"}
      BY DEF Patchers
    <3>2. Unprotect(Controller, saved) \/ Write(Controller) \/ Protect(Controller)
      BY <2>1 DEF RestoreCaptureBreakpoint
    <3>3. /\ byte' \in {"code", "int3"} /\ writable' \in BOOLEAN
          /\ held' \in [Patchers -> [page : BOOLEAN, byte : {"code", "int3"}]]
      BY <3>1, <3>2, PatchTyped
    <3> QED BY <1>4, <2>1, <3>3 DEF Control, RestoreCaptureBreakpoint
  <2>2. CASE RestoreCaptureBreakpoint /\ cpc = "disarm"
    BY <1>4, <2>2 DEF Control, RestoreCaptureBreakpoint
  <2>3. CASE Start \/ StopBootstrap \/ StopReceive \/ StopRefused \/ StopFaults \/ Clear
    BY <1>4, <2>3 DEF Control, Start, StopBootstrap, StopReceive, StopRefused, StopFaults, Clear
  <2> QED BY <1>4, <2>1, <2>2, <2>3 DEF Control, Stop
<1> QED BY <1>1, <1>2, <1>3, <1>4 DEF Next

LEMMA PhasesNext ==
    ASSUME Typed, Phases, Next
    PROVE  Phases'
<1> USE DEF Phases, Running, patch, page, found
<1>1. CASE Call
  BY <1>1 DEF Call, Send, CallSend
<1>2. CASE \E t \in Callers : Handle(t)
  BY <1>2 DEF Handle, Capture, Unhandled, Disarm, LoadAddress, RestoreByte, RestoreRefused,
              Resume
<1>3. CASE Bootstrap
  <2>1. CASE Arm
    BY <1>3, <2>1 DEF Bootstrap, Arm, NeedsArming
  <2>2. CASE ResolveProcessChatMessage
    BY <1>3, <2>2 DEF Bootstrap, ResolveProcessChatMessage
  <2>3. CASE Top \/ NoArm \/ PatchInt3 \/ PatchRefused \/ PatchFaults \/ StartReceive \/ Bootstrapped
    BY <1>3, <2>3 DEF Bootstrap, Top, NoArm, PatchInt3, PatchRefused, PatchFaults, StartReceive,
                      Bootstrapped
  <2> QED BY <1>3, <2>1, <2>2, <2>3 DEF Bootstrap
<1>4. CASE Control
  <2>1. CASE Start
    BY <1>4, <2>1 DEF Control, Start
  <2>2. CASE StopBootstrap \/ StopReceive
    BY <1>4, <2>2 DEF Control, StopBootstrap, StopReceive
  <2>3. CASE RestoreCaptureBreakpoint \/ StopRefused \/ StopFaults
    BY <1>4, <2>3 DEF Control, RestoreCaptureBreakpoint, StopRefused, StopFaults
  <2>4. CASE Clear
    BY <1>4, <2>4 DEF Control, Clear
  <2> QED BY <1>4, <2>1, <2>2, <2>3, <2>4 DEF Control, Stop
<1> QED BY <1>1, <1>2, <1>3, <1>4 DEF Next
-----------------------------------------------------------------------------
(* The page: a patcher whose PatchByte nobody else's overlaps finds it     *)
(* writable when it writes.                                                *)
LEMMA PagedInit == Init => Paged
BY DEF Init, Paged, Writing, Patching

LEMMA PagedNext ==
    ASSUME Typed, Typed', Paged, Next
    PROVE  Paged'
<1> SUFFICES ASSUME ~overlapped', Writing' PROVE writable'
  BY HistoryStep DEF Next, Paged
<1>1. ~overlapped /\ (\A x, y \in Patching : x = y) /\ (Writing => writable)
  BY HistoryStep DEF Next, Paged
<1> USE DEF Writing, patch, page, found, Typed
<1>2. CASE Call
  BY <1>1, <1>2 DEF Call, Send, CallSend
<1>3. ASSUME NEW t \in Callers, Handle(t) PROVE writable'
  <2>1. CASE Capture(t) \/ Unhandled(t) \/ Disarm(t) \/ LoadAddress(t) \/ Resume(t)
    BY <1>1, <1>3, <2>1 DEF Capture, Unhandled, Disarm, LoadAddress, Resume, Handle, RestoreRefused
  <2>2. CASE RestoreRefused(t)
    BY <1>1, <2>2 DEF RestoreRefused
  <2>3. CASE RestoreByte(t) /\ pc[t] = "restore"
    BY <2>3 DEF RestoreByte, Unprotect
  <2>4. CASE RestoreByte(t) /\ pc[t] = "write"
    BY <2>4 DEF RestoreByte, Write
  <2>5. CASE RestoreByte(t) /\ pc[t] = "protect"
    <3>1. t \in Patching
      BY <2>5 DEF Patching
    <3>2. ~Writing
      <4>1. \A s \in Callers : pc[s] # "write"
        BY <1>1, <2>5, <3>1 DEF Patching
      <4>2. bpc # "write" /\ cpc # "write"
        BY <1>1, <3>1, CallerAssumption DEF Patching
      <4> QED BY <4>1, <4>2
    <3>3. ~Writing'
      BY <1>3, <2>5, <3>2 DEF RestoreByte, Handle, RestoreRefused
    <3> QED BY <3>3
  <2> QED BY <1>3, <2>1, <2>2, <2>3, <2>4, <2>5 DEF Handle, RestoreByte
<1>4. CASE Bootstrap
  <2>1. CASE Top \/ ResolveProcessChatMessage \/ Arm \/ NoArm \/ PatchRefused \/ PatchFaults
              \/ StartReceive \/ Bootstrapped
    BY <1>1, <1>4, <2>1 DEF Bootstrap, Top, ResolveProcessChatMessage, Arm, NoArm, PatchRefused,
                        PatchFaults, StartReceive, Bootstrapped
  <2>2. CASE PatchInt3 /\ bpc = "patch"
    BY <2>2 DEF PatchInt3, Unprotect
  <2>3. CASE PatchInt3 /\ bpc = "write"
    BY <2>3 DEF PatchInt3, Write
  <2>4. CASE PatchInt3 /\ bpc = "protect"
    <3>1. Worker \in Patching
      BY <2>4 DEF Patching
    <3>2. \A s \in Callers : pc[s] # "write"
      BY <1>1, <3>1, CallerAssumption DEF Patching
    <3>3. cpc # "write"
      BY <1>1, <3>1, CallerAssumption DEF Patching
    <3> QED BY <1>4, <2>4, <3>2, <3>3 DEF PatchInt3, Bootstrap
  <2> QED BY <1>4, <2>1, <2>2, <2>3, <2>4 DEF Bootstrap, PatchInt3
<1>5. CASE Control
  <2>1. CASE Start \/ StopBootstrap \/ StopReceive \/ StopRefused \/ StopFaults \/ Clear
    BY <1>1, <1>5, <2>1 DEF Control, Start, StopBootstrap, StopReceive, StopRefused, StopFaults, Clear
  <2>2. CASE RestoreCaptureBreakpoint /\ cpc = "disarm"
    BY <1>1, <1>5, <2>2 DEF Control, RestoreCaptureBreakpoint
  <2>3. CASE RestoreCaptureBreakpoint /\ cpc = "restore"
    BY <2>3 DEF RestoreCaptureBreakpoint, Unprotect
  <2>4. CASE RestoreCaptureBreakpoint /\ cpc = "write"
    BY <2>4 DEF RestoreCaptureBreakpoint, Write
  <2>5. CASE RestoreCaptureBreakpoint /\ cpc = "protect"
    <3>1. Controller \in Patching
      BY <2>5 DEF Patching
    <3>2. \A s \in Callers : pc[s] # "write"
      BY <1>1, <3>1, CallerAssumption DEF Patching
    <3>3. bpc # "write"
      BY <1>1, <3>1, CallerAssumption DEF Patching
    <3> QED BY <1>5, <2>5, <3>2, <3>3 DEF RestoreCaptureBreakpoint, Control
  <2> QED BY <1>5, <2>1, <2>2, <2>3, <2>4, <2>5 DEF Control, Stop, RestoreCaptureBreakpoint
<1> QED BY <1>2, <1>3, <1>4, <1>5 DEF Next
-----------------------------------------------------------------------------
(* The parts the callers can disturb, kept while nobody is in the way of   *)
(* Stop and no patch was refused or broken off.                            *)
LEMMA KeptNext ==
    ASSUME Accounted, Next
    PROVE  Kept'
<1>1. Typed /\ Phases /\ Paged /\ Typed' /\ Phases'
  BY TypedNext, PhasesNext DEF Accounted
<1> DEFINE Lone == ~met' /\ ~overlapped'
<1> SUFFICES ASSUME Carried'
             PROVE  Patched' /\ Handled' /\ (Lone => Alone')
  BY DEF Kept
<1>2. /\ ~disturbed /\ (~Running' => Outside')
      /\ ~met' => /\ ~met
                  /\ \A s, t \in Callers : s = t \/ pc'[s] \in {"away", "sending"}
                                                \/ pc'[t] \in {"away", "sending"}
      /\ ~overlapped' => ~overlapped
  BY <1>1, HistoryStep DEF Next, Carried
<1>3. Patched /\ Handled /\ (~met /\ ~overlapped => Alone) /\ ~crashed /\ ~refused'
  BY <1>2, CarriedBefore DEF Accounted, Kept, Next, Carried
<1>4. ~overlapped => (Writing => writable)
  BY <1>1 DEF Paged
<1>5. Worker \in Patchers /\ Controller \in Patchers /\ Callers \subseteq Patchers
  BY DEF Patchers
<1> USE <1>1, <1>2, <1>3 DEF Patched, Handled, Outside, Restoring, Running, patch, page, found
<1>6. CASE Call
  <2>1. CASE Send
    BY <1>6, <2>1 DEF Call, Send, Phases, Typed, Alone
  <2>2. CASE \E t \in Game : CallSend(t)
    BY <1>6, <2>2 DEF Call, CallSend, Callers, Phases, Typed, Alone
  <2> QED BY <1>6, <2>1, <2>2 DEF Call
<1>7. ASSUME NEW t \in Callers, Handle(t)
      PROVE  Patched' /\ Handled' /\ (Lone => Alone')
  <2>1. CASE Capture(t)
    BY <1>7, <2>1 DEF Handle, Capture, RestoreRefused, Phases, Typed, Alone
  <2>2. CASE Unhandled(t)
    <3>1. CASE pc[t] = "trapped"
      BY <1>7, <2>2, <3>1 DEF Handle, Unhandled, RestoreRefused, Phases, Typed, Alone
    <3>2. CASE pc[t] = "write"
      <4>1. ~writable /\ Writing /\ overlapped
        BY <1>4, <2>2, <3>2 DEF Unhandled, Writing
      <4>2. overlapped'
        BY <4>1 DEF Next, History
      <4>3. ~failed'
        BY <4>2 DEF Carried
      <4>4. UNCHANGED <<pc, patch, page, found, bpc, cpc>>
        BY <1>7, <2>2, <3>2, <4>3 DEF Unhandled, Handle, RestoreRefused
      <4> QED BY <4>2, <4>4
    <3> QED BY <2>2, <3>1, <3>2 DEF Unhandled
  <2>3. CASE Disarm(t)
    BY <1>7, <2>3 DEF Handle, Disarm, RestoreRefused, Phases, Typed, Alone
  <2>4. CASE LoadAddress(t)
    BY <1>7, <2>4 DEF Handle, LoadAddress, RestoreRefused, Phases, Typed, Alone
  <2>5. CASE RestoreByte(t) /\ pc[t] = "restore"
    BY <1>5, <1>7, <2>5 DEF Handle, RestoreByte, RestoreRefused, Unprotect, Phases, Typed, Alone
  <2>6. CASE RestoreByte(t) /\ pc[t] = "write"
    BY <1>7, <2>6 DEF Handle, RestoreByte, RestoreRefused, Write, Phases, Typed, Alone
  <2>7. CASE RestoreByte(t) /\ pc[t] = "protect"
    <3>1. /\ pc' = [pc EXCEPT ![t] = "resume"]
          /\ UNCHANGED <<byte, saved, armed, found, bpc, cpc, crashed, failed>>
          /\ held' = [held EXCEPT ![t] = Nothing]
      BY <1>7, <2>7 DEF Handle, RestoreByte, RestoreRefused, Protect
    <3>2. instance /\ Running /\ bpc \notin {"patch", "write"}
      BY <2>7, <3>1 DEF Typed
    <3>3. \A s \in Callers : s # t => held'[s] = held[s]
      BY <1>5, <3>1 DEF Typed
    <3>4. Patched' /\ Handled'
      BY <2>7, <3>1, <3>2, <3>3 DEF Typed
    <3>5. Lone => Alone'
      BY <2>7, <3>1, <3>2 DEF Typed, Alone
    <3> QED BY <3>4, <3>5
  <2>8. CASE RestoreRefused(t)
    BY <2>8 DEF RestoreRefused
  <2>9. CASE Resume(t)
    BY <1>7, <2>9 DEF Handle, Resume, RestoreRefused, Phases, Typed, Alone
  <2> QED BY <1>7, <2>1, <2>2, <2>3, <2>4, <2>5, <2>6, <2>7, <2>8, <2>9 DEF Handle, RestoreByte
<1>8. CASE Bootstrap
  <2>1. CASE Top
    BY <1>8, <2>1 DEF Bootstrap, Top, Phases, Typed, Alone
  <2>2. CASE ResolveProcessChatMessage
    BY <1>8, <2>2 DEF Bootstrap, ResolveProcessChatMessage, Phases, Typed, Alone
  <2>3. CASE Arm
    BY <1>8, <2>3 DEF Bootstrap, Arm, NeedsArming, Phases, Typed, Alone
  <2>4. CASE NoArm
    BY <1>8, <2>4 DEF Bootstrap, NoArm, NeedsArming, Phases, Typed, Alone
  <2>5. CASE PatchInt3 /\ bpc = "patch"
    BY <1>5, <1>8, <2>5, CallerAssumption
    DEF Bootstrap, PatchInt3, Unprotect, Phases, Typed, Alone
  <2>6. CASE PatchInt3 /\ bpc = "write"
    BY <1>8, <2>6 DEF Bootstrap, PatchInt3, Write, Phases, Typed, Alone
  <2>7. CASE PatchInt3 /\ bpc = "protect"
    BY <1>5, <1>8, <2>7, CallerAssumption
    DEF Bootstrap, PatchInt3, Protect, Phases, Typed, Alone
  <2>8. CASE PatchRefused
    BY <1>8, <2>8 DEF Bootstrap, PatchRefused, Phases, Typed, Alone
  <2>9. CASE PatchFaults
    <3>1. overlapped
      BY <1>4, <2>9 DEF PatchFaults, Writing
    <3>2. overlapped'
      BY <3>1 DEF Next, History
    <3> QED BY <1>8, <2>9, <3>2 DEF Bootstrap, PatchFaults
  <2>10. CASE StartReceive
    BY <1>8, <2>10 DEF Bootstrap, StartReceive, Phases, Typed, Alone
  <2>11. CASE Bootstrapped
    BY <1>8, <2>11 DEF Bootstrap, Bootstrapped, Phases, Typed, Alone
  <2> QED BY <1>8, <2>1, <2>2, <2>3, <2>4, <2>5, <2>6, <2>7, <2>8, <2>9, <2>10, <2>11
          DEF Bootstrap, PatchInt3
<1>9. CASE Control
  <2>1. CASE Start
    BY <1>9, <2>1 DEF Control, Start, Phases, Typed, Alone
  <2>2. CASE StopBootstrap
    BY <1>9, <2>2 DEF Control, StopBootstrap, Phases, Typed, Alone
  <2>3. CASE StopReceive
    BY <1>9, <2>3 DEF Control, StopReceive, Phases, Typed, Alone
  <2>4. CASE RestoreCaptureBreakpoint /\ cpc = "disarm"
    BY <1>9, <2>4 DEF Control, RestoreCaptureBreakpoint, Phases, Typed, Alone
  <2>5. CASE RestoreCaptureBreakpoint /\ cpc = "restore"
    BY <1>5, <1>9, <2>5, CallerAssumption
    DEF Control, RestoreCaptureBreakpoint, Unprotect, Phases, Typed, Alone
  <2>6. CASE RestoreCaptureBreakpoint /\ cpc = "write"
    BY <1>9, <2>6 DEF Control, RestoreCaptureBreakpoint, Write, Phases, Typed, Alone
  <2>7. CASE RestoreCaptureBreakpoint /\ cpc = "protect"
    BY <1>5, <1>9, <2>7, CallerAssumption
    DEF Control, RestoreCaptureBreakpoint, Protect, Phases, Typed, Alone
  <2>8. CASE StopRefused
    BY <2>8 DEF StopRefused
  <2>9. CASE StopFaults
    <3>1. overlapped
      BY <1>4, <2>9 DEF StopFaults, Writing
    <3>2. overlapped'
      BY <3>1 DEF Next, History
    <3> QED BY <1>9, <2>9, <3>2 DEF Control, StopFaults
  <2>10. CASE Clear
    BY <1>9, <2>10 DEF Control, Clear, Phases, Typed, Alone
  <2> QED BY <1>9, <2>1, <2>2, <2>3, <2>4, <2>5, <2>6, <2>7, <2>8, <2>9, <2>10
          DEF Control, Stop, RestoreCaptureBreakpoint
<1> QED BY <1>6, <1>7, <1>8, <1>9 DEF Next

-----------------------------------------------------------------------------
(* The parts together: they hold before the first Start, and every step    *)
(* keeps them.                                                             *)
LEMMA AccountedInit == Init => Accounted
<1> SUFFICES ASSUME Init PROVE Kept
  BY TypedInit, PagedInit DEF Accounted
<1> QED BY DEF Init, Kept, Patched, Handled, Alone, Outside, Restoring, Running

LEMMA AccountedNext == Accounted /\ [Next]_vars => Accounted'
<1> SUFFICES ASSUME Accounted, [Next]_vars PROVE Accounted'
  OBVIOUS
<1>1. CASE Next
  BY <1>1, TypedNext, PhasesNext, PagedNext, KeptNext DEF Accounted
<1>2. CASE UNCHANGED vars
  BY <1>2 DEF vars, patch, page, found, history, Accounted, Carried, Paged, Writing, Patching, Typed, Phases, Kept, Patched, Handled, Alone,
              Outside, Restoring, Running
<1> QED BY <1>1, <1>2

(* At every step, the phase of Start and Stop, the byte, the flag and the  *)
(* places of all callers fit each other.                                   *)
THEOREM CaptureIsAccounted == Spec => []Accounted
BY AccountedInit, AccountedNext, PTL DEF Spec

(* A call that is alone in the one-shot breakpoint never ends STR and      *)
(* never breaks off a message of the plugin, unless its handler patches    *)
(* together with the bootstrap thread, or is refused the patch.            *)
THEOREM MeetingsHarmOnly == Spec => []OnlyMeetingsHarm
<1>1. Accounted => OnlyMeetingsHarm
  BY DEF Accounted, Kept, Carried, Alone, OnlyMeetingsHarm
<1> QED BY <1>1, CaptureIsAccounted, PTL

(* No INT3 is ever saved as STR's byte, or left behind by whoever takes    *)
(* the breakpoint away.                                                    *)
THEOREM BreakpointIsAccounted == Spec => []BreakpointAccounted
<1>1. ASSUME Accounted PROVE BreakpointAccounted
  <2> SUFFICES ASSUME Carried PROVE BreakpointAccounted
    BY DEF BreakpointAccounted
  <2>1. Typed /\ Patched
    BY <1>1 DEF Accounted, Kept
  <2> QED BY <2>1, InsideOutside DEF BreakpointAccounted, Patched, Outside, Restoring, Typed
<1> QED BY <1>1, CaptureIsAccounted, PTL

(* When Stop has returned, nothing of the session is left.                 *)
THEOREM StopUndoesAll == Spec => []StopUndoes
<1>1. Accounted => StopUndoes
  BY DEF Accounted, Kept, Patched, Phases, Running, StopUndoes
<1> QED BY <1>1, CaptureIsAccounted, PTL
=============================================================================
