-------------------------- MODULE TransportCapture --------------------------
(***************************************************************************)
(* How the bridge of STRPluginMessagingBridge.cpp comes up and goes down:  *)
(* its bootstrap thread finds TransportService::Send, writes a one-shot    *)
(* INT3 on its first byte and starts the receive path; the first thread    *)
(* that calls Send traps, leaves the instance behind and puts the byte     *)
(* back.  The plugin itself calls the same function as soon as the         *)
(* instance is known.  Stop undoes all of it from another thread.          *)
(*                                                                         *)
(* PatchByte is three steps: make the page writable and remember how it    *)
(* was protected, write, protect it again as it was.  The write faults     *)
(* when another thread's third step has come in between.  An exception     *)
(* nobody handles ends STR's thread, and the process; the plugin's own     *)
(* call turns it into a failed Send.                                       *)
(***************************************************************************)
EXTENDS Integers

CONSTANTS
    Game,     \* STR's threads that call TransportService::Send
    Plugin,   \* a thread in the bridge's Send
    Worker, Controller, \* the bootstrap thread, and the one that runs Start and Stop
    MaxStarts, MaxFailures  \* bounds: sessions; searches, patches and starts that fail

Callers == Game \union {Plugin}
Nothing  == [page |-> FALSE, byte |-> "code"]
Patchers == Callers \union {Worker, Controller}
ASSUME CallerAssumption ==
    Plugin \notin Game /\ Worker \notin Callers /\ Controller \notin Callers \union {Worker}
ASSUME BoundsAssumption == MaxStarts \in Nat /\ MaxFailures \in Nat

VARIABLES
    byte,         \* the first byte of Send: "code" or "int3"
    saved,        \* g_originalTransportByte
    armed,        \* g_breakpointArmed
    writable,     \* the page of that byte may be written
    held,         \* what each PatchByte holds: the protection it found, the byte it writes
    handler,      \* the vectored handler is registered
    address,      \* g_transportSendAddress is set
    instance,     \* g_transportInstance is set
    sendReady, receiveReady,  \* g_sendResolverReady, g_receiveResolverReady
    receiving,    \* the receive path has been started
    pc,           \* where each caller is, from the call of Send on
    bpc,          \* where the bootstrap thread is
    bootStop,     \* g_bootstrapStop
    cpc,          \* where the controlling thread is in Start or Stop
    crashed,      \* the process has ended
    failed,       \* history: a native call of the plugin was broken off by an exception
    met,          \* history: two callers were in the breakpoint together
    disturbed,    \* history: a caller was in it while Stop took it away
    overlapped,   \* history: two threads were in PatchByte together
    refused,      \* history: the system refused to let the byte be put back
    starts, failures  \* bounds

patch == <<byte, saved, armed>>
page == <<writable, held>>
history == <<met, disturbed, overlapped>>
found == <<handler, address, instance, sendReady, receiveReady, receiving>>
vars == <<patch, page, found, pc, bpc, bootStop, cpc, crashed, failed, refused, history, starts,
          failures>>

Init ==
    /\ byte = "code" /\ saved = "code" /\ armed = FALSE
    /\ writable = FALSE /\ held = [p \in Patchers |-> Nothing]
    /\ handler = FALSE /\ address = FALSE /\ instance = FALSE
    /\ sendReady = FALSE /\ receiveReady = FALSE /\ receiving = FALSE
    /\ pc = [t \in Callers |-> "away"]
    /\ bpc = "off" /\ bootStop = FALSE /\ cpc = "down"
    /\ crashed = FALSE /\ failed = FALSE /\ refused = FALSE
    /\ met = FALSE /\ disturbed = FALSE /\ overlapped = FALSE
    /\ starts = 0 /\ failures = 0

Fails == failures < MaxFailures /\ failures' = failures + 1
-----------------------------------------------------------------------------
(* The three steps of PatchByte.  (When the last one fails, which the code *)
(* ignores, the page stays writable, and a write the safer.)               *)
Unprotect(p, b) ==
    /\ held' = [held EXCEPT ![p] = [page |-> writable, byte |-> b]]
    /\ writable' = TRUE
    /\ UNCHANGED byte

Write(p) == writable /\ byte' = held[p].byte /\ UNCHANGED page

Protect(p) ==
    /\ writable' = held[p].page
    /\ held' = [held EXCEPT ![p] = Nothing]
    /\ UNCHANGED byte
-----------------------------------------------------------------------------
(* STR's call of Send that meets no INT3 changes nothing.                  *)
CallSend(t) ==
    /\ t \in Game /\ pc[t] = "away" /\ byte = "int3"
    /\ pc' = [pc EXCEPT ![t] = "trapped"]
    /\ UNCHANGED <<patch, page, found, crashed, failed>>

(* The bridge's Send looks whether it is connected, and then for each      *)
(* envelope whether instance and address are there still.                  *)
Send ==
    /\ \/ pc[Plugin] = "away" /\ instance /\ receiveReady /\ pc' = [pc EXCEPT ![Plugin] = "sending"]
       \/ /\ pc[Plugin] = "sending"
          /\ pc' = [pc EXCEPT ![Plugin] =
                       IF instance /\ address /\ byte = "int3" THEN "trapped" ELSE "away"]
    /\ UNCHANGED <<patch, page, found, crashed, failed>>

(* CaptureTransportExceptionHandler, on the thread that called.            *)
Inside == {t \in Callers : pc[t] \notin {"away", "sending"}}

Capture(t) ==
    /\ pc[t] = "trapped" /\ handler /\ address /\ armed
    /\ instance' = TRUE
    /\ pc' = [pc EXCEPT ![t] = "disarm"]
    /\ UNCHANGED <<patch, handler, address, sendReady, receiveReady, receiving, page, crashed, failed>>

(* An exception that nobody handles: the breakpoint's, or the write's.     *)
Unhandled(t) ==
    /\ \/ pc[t] = "trapped" /\ ~(handler /\ address /\ armed)
       \/ pc[t] = "write" /\ ~writable
    /\ \/ t \in Game /\ crashed' = TRUE /\ UNCHANGED <<pc, failed>>
       \/ t = Plugin /\ failed' = TRUE /\ pc' = [pc EXCEPT ![t] = "away"] /\ UNCHANGED crashed
    /\ UNCHANGED <<patch, page, found>>

Disarm(t) ==
    /\ pc[t] = "disarm"
    /\ armed' = FALSE
    /\ pc' = [pc EXCEPT ![t] = IF armed THEN "load" ELSE "resume"]
    /\ UNCHANGED <<byte, saved, page, found, crashed, failed>>

LoadAddress(t) ==
    /\ pc[t] = "load"
    /\ pc' = [pc EXCEPT ![t] = IF address THEN "restore" ELSE "resume"]
    /\ UNCHANGED <<patch, page, found, crashed, failed>>

RestoreByte(t) ==
    /\ \/ pc[t] = "restore" /\ Unprotect(t, saved) /\ pc' = [pc EXCEPT ![t] = "write"]
       \/ pc[t] = "write" /\ Write(t) /\ pc' = [pc EXCEPT ![t] = "protect"]
       \/ pc[t] = "protect" /\ Protect(t) /\ pc' = [pc EXCEPT ![t] = "resume"]
    /\ UNCHANGED <<saved, armed, found, crashed, failed>>

(* VirtualProtect fails, and the result of PatchByte is not looked at.     *)
RestoreRefused(t) ==
    /\ pc[t] = "restore" /\ Fails
    /\ refused' = TRUE
    /\ pc' = [pc EXCEPT ![t] = "resume"]
    /\ UNCHANGED <<patch, page, found, crashed, failed, bpc, bootStop, cpc, starts>>

Resume(t) ==
    /\ pc[t] = "resume"
    /\ pc' = [pc EXCEPT ![t] = IF byte = "int3" THEN "trapped" ELSE "away"]
    /\ UNCHANGED <<patch, page, found, crashed, failed>>

Handle(t) ==
    \/ /\ \/ Capture(t) \/ Unhandled(t) \/ Disarm(t) \/ LoadAddress(t) \/ RestoreByte(t) \/ Resume(t)
       /\ UNCHANGED <<bpc, bootStop, cpc, refused, starts, failures>>
    \/ RestoreRefused(t)

Call ==
    /\ Send \/ \E t \in Game : CallSend(t)
    /\ UNCHANGED <<bpc, bootStop, cpc, refused, starts, failures>>
-----------------------------------------------------------------------------
(* BootstrapLoop: search, arm, start the receive path, look whether both   *)
(* are there, and again.                                                   *)
Top ==
    /\ bpc = "top"
    /\ bpc' = IF bootStop THEN "off" ELSE "search"
    /\ UNCHANGED <<patch, page, found, crashed, failures>>

ResolveProcessChatMessage ==
    /\ bpc = "search" /\ bpc' = "arm"
    /\ \/ sendReady /\ UNCHANGED <<address, sendReady, failures>>
       \/ ~sendReady /\ Fails /\ address' = FALSE /\ UNCHANGED sendReady
       \/ ~sendReady /\ address' = TRUE /\ sendReady' = TRUE /\ UNCHANGED failures
    /\ UNCHANGED <<patch, page, handler, instance, receiveReady, receiving, crashed>>

(* Slip: an armed breakpoint is armed again.                               *)
NeedsArmingStill == sendReady /\ ~instance

NeedsArming == sendReady /\ ~instance /\ ~armed

Arm ==
    /\ bpc = "arm" /\ NeedsArming
    /\ handler' = TRUE /\ saved' = byte /\ armed' = TRUE
    /\ bpc' = "patch"
    /\ UNCHANGED <<byte, page, address, instance, sendReady, receiveReady, receiving, crashed, failures>>

NoArm ==
    /\ bpc = "arm" /\ ~NeedsArming
    /\ bpc' = "receive"
    /\ UNCHANGED <<patch, page, found, crashed, failures>>

(* Slips: armed is set after the byte, or stays set when the patch fails.  *)
PatchThenArm ==
    /\ \/ bpc = "patch" /\ Unprotect(Worker, "int3") /\ armed' = FALSE /\ bpc' = "write"
       \/ bpc = "write" /\ Write(Worker) /\ bpc' = "protect" /\ UNCHANGED armed
       \/ bpc = "protect" /\ Protect(Worker) /\ armed' = TRUE /\ bpc' = "receive"
    /\ UNCHANGED <<saved, found, crashed, failures>>
PatchKeepsArmed ==
    /\ bpc = "patch" /\ bpc' = "receive" /\ Fails
    /\ UNCHANGED <<patch, page, found, crashed>>

(* ArmTransportCaptureBreakpoint's PatchByte.                              *)
PatchInt3 ==
    /\ \/ bpc = "patch" /\ Unprotect(Worker, "int3") /\ bpc' = "write"
       \/ bpc = "write" /\ Write(Worker) /\ bpc' = "protect"
       \/ bpc = "protect" /\ Protect(Worker) /\ bpc' = "receive"
    /\ UNCHANGED <<saved, armed, found, crashed, failures>>

PatchRefused ==
    /\ bpc = "patch" /\ bpc' = "receive" /\ Fails
    /\ armed' = FALSE
    /\ UNCHANGED <<byte, saved, page, found, crashed>>

PatchFaults ==
    /\ bpc = "write" /\ ~writable
    /\ crashed' = TRUE
    /\ UNCHANGED <<patch, page, found, bpc, failures>>

StartReceive ==
    /\ bpc = "receive" /\ bpc' = "ready"
    /\ \/ receiveReady /\ UNCHANGED <<receiveReady, receiving, failures>>
       \/ ~sendReady /\ UNCHANGED <<receiveReady, receiving, failures>>
       \/ ~receiveReady /\ sendReady /\ Fails /\ UNCHANGED <<receiveReady, receiving>>
       \/ ~receiveReady /\ sendReady /\ receiveReady' = TRUE /\ receiving' = TRUE /\ UNCHANGED failures
    /\ UNCHANGED <<patch, page, handler, address, instance, sendReady, crashed>>

Bootstrapped ==
    /\ bpc = "ready"
    /\ bpc' = IF instance /\ receiveReady THEN "off" ELSE "top"
    /\ UNCHANGED <<patch, page, found, crashed, failures>>

Bootstrap ==
    /\ \/ Top \/ ResolveProcessChatMessage \/ Arm \/ NoArm \/ PatchInt3 \/ PatchRefused
       \/ PatchFaults \/ StartReceive \/ Bootstrapped
    /\ UNCHANGED <<pc, bootStop, cpc, failed, refused, starts>>
-----------------------------------------------------------------------------
(* Start, when it succeeds; the FIFO it also starts is ReceiveDispatch.    *)
Start ==
    /\ cpc = "down" /\ starts < MaxStarts
    /\ starts' = starts + 1
    /\ bootStop' = FALSE /\ bpc' = "top" /\ cpc' = "up"
    /\ UNCHANGED <<patch, page, found, crashed, refused, failures>>

(* Slip: the bootstrap thread is not waited for.                           *)
StopBootstrapOnly ==
    /\ cpc = "up" /\ bootStop' = TRUE /\ cpc' = "unhook"
    /\ UNCHANGED <<patch, page, found, bpc, crashed, refused, starts, failures>>

StopBootstrap ==
    /\ \/ cpc = "up" /\ bootStop' = TRUE /\ cpc' = "join"
       \/ cpc = "join" /\ bpc = "off" /\ cpc' = "unhook" /\ UNCHANGED bootStop
    /\ UNCHANGED <<patch, page, found, bpc, crashed, refused, starts, failures>>

StopReceive ==
    /\ cpc = "unhook" /\ cpc' = "disarm"
    /\ receiving' = FALSE
    /\ UNCHANGED <<patch, page, handler, address, instance, sendReady, receiveReady, bpc, bootStop,
                   crashed, refused, starts, failures>>

RestoreCaptureBreakpoint ==
    /\ \/ /\ cpc = "disarm" /\ armed' = FALSE
          /\ cpc' = IF armed /\ address THEN "restore" ELSE "remove"
          /\ UNCHANGED <<byte, page>>
       \/ cpc = "restore" /\ Unprotect(Controller, saved) /\ cpc' = "write" /\ UNCHANGED armed
       \/ cpc = "write" /\ Write(Controller) /\ cpc' = "protect" /\ UNCHANGED armed
       \/ cpc = "protect" /\ Protect(Controller) /\ cpc' = "remove" /\ UNCHANGED armed
    /\ UNCHANGED <<saved, found, bpc, bootStop, crashed, refused, starts, failures>>

StopRefused ==
    /\ cpc = "restore" /\ cpc' = "remove" /\ Fails
    /\ refused' = TRUE
    /\ UNCHANGED <<patch, page, found, bpc, bootStop, crashed, starts>>

StopFaults ==
    /\ cpc = "write" /\ ~writable
    /\ crashed' = TRUE
    /\ UNCHANGED <<patch, page, found, bpc, bootStop, cpc, refused, starts, failures>>

Clear ==
    /\ \/ /\ cpc = "remove" /\ handler' = FALSE /\ cpc' = "forget"
          /\ UNCHANGED <<instance, address, sendReady, receiveReady>>
       \/ /\ cpc = "forget" /\ instance' = FALSE /\ cpc' = "clear"
          /\ UNCHANGED <<handler, address, sendReady, receiveReady>>
       \/ /\ cpc = "clear" /\ address' = FALSE /\ sendReady' = FALSE /\ receiveReady' = FALSE
          /\ cpc' = "down"
          /\ UNCHANGED <<handler, instance>>
    /\ UNCHANGED <<patch, page, receiving, bpc, bootStop, crashed, refused, starts, failures>>

Stop ==
    \/ StopBootstrap \/ StopReceive \/ RestoreCaptureBreakpoint \/ StopRefused \/ StopFaults
    \/ Clear

Control == (Start \/ Stop) /\ UNCHANGED <<pc, failed>>
-----------------------------------------------------------------------------
Patching ==
    {t \in Callers : pc[t] \in {"write", "protect"}}
      \union (IF bpc \in {"write", "protect"} THEN {Worker} ELSE {})
      \union (IF cpc \in {"write", "protect"} THEN {Controller} ELSE {})

History ==
    /\ overlapped' = (overlapped \/ \E p, q \in Patching' : p # q)
    /\ met' = (met \/ \E s, t \in Inside' : s # t)
    /\ disturbed' = (disturbed \/ (cpc' \notin {"up", "join"} /\ Inside' # {}))

Next ==
    /\ ~crashed
    /\ Call \/ (\E t \in Callers : Handle(t)) \/ Bootstrap \/ Control
    /\ History

(* STR goes on sending: its chat and movement pass Send all the time.      *)
Spec ==
    /\ Init /\ [][Next]_vars
    /\ WF_vars(~crashed /\ Bootstrap /\ History)
    /\ WF_vars(~crashed /\ Stop /\ Control /\ History /\ cpc # "up")
    /\ WF_vars(~crashed /\ (\E t \in Game : CallSend(t)) /\ Call /\ History)
    /\ WF_vars(~crashed /\ pc[Plugin] = "sending" /\ Send /\ Call /\ History)
    /\ \A t \in Callers : WF_vars(~crashed /\ Handle(t) /\ History)
-----------------------------------------------------------------------------
(* A call meets the breakpoint without harm - to STR, or to a message of   *)
(* the plugin - unless two meet it together, or Stop takes it away under   *)
(* one, or its handler patches while the bootstrap thread has not finished *)
(* with the page, or the system refuses the patch.  (The plugin's own Send *)
(* can be such a second caller: the instance is published before the byte  *)
(* is back.)                                                               *)
OnlyMeetingsHarm == crashed \/ failed => met \/ disturbed \/ overlapped \/ refused

(* Nobody was overtaken by Stop, and every patch that was begun was        *)
(* carried out: none refused, none broken off by a fault.                  *)
Carried == ~disturbed /\ ~refused /\ ~(failed /\ overlapped)

(* The byte STR runs is its own unless the breakpoint is armed, and what   *)
(* is saved is STR's byte: no INT3 is ever saved and put back, and none is *)
(* left behind by the handler or Stop.                                     *)
BreakpointAccounted ==
    Carried =>
        /\ saved = "code"
        /\ Inside = {} /\ bpc \notin {"patch", "write"} /\ cpc \notin {"restore", "write"}
             => (byte = "int3" <=> armed)

(* Stop undoes what the bootstrap thread did, at whatever point of the     *)
(* bootstrap it comes.                                                     *)
StopUndoes ==
    cpc = "down" /\ Carried =>
        /\ bpc = "off" /\ byte = "code" /\ ~armed
        /\ ~handler /\ ~address /\ ~instance /\ ~sendReady /\ ~receiveReady /\ ~receiving

(* The lazy bootstrap gets there, whatever fails on the way: the instance  *)
(* is captured and the receive path started, unless the session ends.  (A  *)
(* handler that Stop overtook can take the next session's INT3 away.)      *)
BecomesReady ==
    cpc = "up" ~> (instance /\ receiveReady) \/ cpc # "up" \/ crashed \/ disturbed
=============================================================================
