--------------------------- MODULE LifecycleHooks ---------------------------
(***************************************************************************)
(* The breakpoints STRPMProxyResolverBridge.h puts on STR's lifecycle      *)
(* functions, the bootstrap thread that arms them one after the other, and *)
(* the step-over controller of STRPMProxyResolverTrace.h: a thread that    *)
(* enters a traced function is single-stepped through it, and each call in *)
(* it runs at full speed up to a one-shot INT3 behind the call.  The code  *)
(* is everybody's; what a trace knows is thread_local.                     *)
(*                                                                         *)
(* A function is a few instructions, some of them calls; what it calls is  *)
(* external and may call a hooked function again.  A thread is the stack   *)
(* of its instruction pointers.  The names with LH leave room for the      *)
(* tables of ProxyResolver, which what a trace reports goes into.          *)
(*                                                                         *)
(* PatchByte is three steps: make the page writable and remember how it    *)
(* was protected, write, protect it again as it was.  When another thread  *)
(* has protected a page before the write, the write may fault; it need     *)
(* not, for which functions share a page is STR's layout.  Of the patches, *)
(* the actions named after the code's functions are the writes.            *)
(***************************************************************************)
EXTENDS Integers, Sequences, FiniteSets

CONSTANTS
    GameThreads, \* STR's threads
    Arming,      \* the bootstrap thread
    Hooks,       \* the hooked functions in the order ConfigureHooks arms them
    Traced,      \* player loaded and unloaded, but not connected and disconnected
    Length,      \* instructions of a traced function; the first is the hook
    CallSites,   \* those that are calls
    Publishing,  \* the calls whose arguments complete a mapping
    MaxSteps,    \* kMaxTraceSteps
    Nowhere,     \* no hook, no address
    MaxDepth, MaxCalls, MaxFailures  \* bounds: calls in calls, calls, patches refused

Hook == {Hooks[i] : i \in DOMAIN Hooks}
Last(h) == IF h \in Traced THEN Length ELSE 1
ASSUME HookAssumption ==
    Hooks \in Seq(Hook) /\ Traced \subseteq Hook /\ Nowhere \notin Hook \union (Hook \X Nat)
ASSUME CodeAssumption ==
    Length \in Nat \ {0} /\ Publishing \subseteq CallSites /\ CallSites \subseteq 2 .. Length - 1
Patchers == GameThreads \union {Arming}
ASSUME ThreadsAssumption == IsFiniteSet(GameThreads) /\ Arming \notin GameThreads
ASSUME BoundsAssumption == {MaxSteps, MaxDepth, MaxCalls, MaxFailures} \subseteq Nat

VARIABLES
    byte,        \* the first byte of each instruction
    saved, armed,            \* BreakpointHook::originalByte and armed
    resolver, controller,    \* the two handlers, the controller in front
    wpc, next,   \* the bootstrap thread: where, and at which hook
    at,          \* instruction pointers: <<hook, instruction>>, or Nowhere in a callee
    tf,          \* the trap flag
    exception,   \* where the thread is in the handler of an INT3 or a single step
    rearm, trace, steps,     \* g_rearmHook, g_traceActive with its bounds, g_traceSteps
    over, overSaved,         \* g_stepOverAddress, g_stepOverOriginalByte
    owed,        \* history: a trace that began under the controller has reported nothing
    writable,    \* the page may be written
    patch, kept, \* where each thread is in PatchByte, the protection it found
    crashed,     \* an exception nobody owned
    met, nested, \* history: two threads, or two calls of one, in hooked functions
    overlapped,  \* history: two threads in PatchByte at once
    refused,     \* history: where the system refused a handler its patch
    entries, failures  \* bounds

hookVars   == <<saved, armed>>
workerVars == <<resolver, controller, wpc, next>>
pageVars   == <<writable, patch, kept>>
refusals   == <<refused, failures>>
traceVars  == <<rearm, trace, steps, over, overSaved>>
LHvars == <<byte, hookVars, workerVars, at, tf, exception, traceVars, owed, pageVars,
          crashed, met, nested, overlapped, refusals, entries>>

LHInit ==
    /\ byte = [h \in Hook |-> [i \in 1 .. Last(h) |-> "code"]]
    /\ saved = [h \in Hook |-> "code"] /\ armed = [h \in Hook |-> FALSE]
    /\ resolver = FALSE /\ controller = FALSE /\ wpc = "configure" /\ next = 1
    /\ at = [t \in GameThreads |-> <<>>] /\ tf = [t \in GameThreads |-> FALSE]
    /\ exception = [t \in GameThreads |-> "none"]
    /\ rearm = [t \in GameThreads |-> Nowhere] /\ trace = [t \in GameThreads |-> Nowhere]
    /\ steps = [t \in GameThreads |-> 0]
    /\ over = [t \in GameThreads |-> Nowhere] /\ overSaved = [t \in GameThreads |-> "code"]
    /\ owed = [t \in GameThreads |-> FALSE]
    /\ writable = FALSE /\ patch = [p \in Patchers |-> "none"]
    /\ kept = [p \in Patchers |-> FALSE]
    /\ crashed = FALSE /\ met = FALSE /\ nested = FALSE /\ overlapped = FALSE /\ refused = {}
    /\ entries = 0 /\ failures = 0
-----------------------------------------------------------------------------
(* PatchByte.  Handlers patch a hook's first byte, or the one behind a     *)
(* call; the bootstrap thread the hook it is arming.                       *)
Rearms(t) == exception[t] = "step" /\ rearm[t] # Nowhere /\ armed[rearm[t]]
Patches(p) ==
    IF p = Arming THEN wpc = "patch" ELSE exception[p] \in {"one-shot", "hook", "arming"} \/ Rearms(p)

Unprotect(p) ==
    /\ Patches(p) /\ patch[p] = "none"
    /\ kept' = [kept EXCEPT ![p] = writable] /\ writable' = TRUE
    /\ patch' = [patch EXCEPT ![p] = "open"]
    /\ UNCHANGED crashed

Fault(p) == patch[p] = "open" /\ ~writable /\ crashed' = TRUE /\ UNCHANGED pageVars

Protect(p) ==
    /\ patch[p] = "done"
    /\ writable' = kept[p] /\ kept' = [kept EXCEPT ![p] = FALSE]
    /\ patch' = [patch EXCEPT ![p] = "none"]
    /\ UNCHANGED crashed

PatchByte(p) ==
    /\ Unprotect(p) \/ Fault(p) \/ Protect(p)
    /\ UNCHANGED <<byte, hookVars, workerVars, at, tf, exception, traceVars, owed, refusals, entries>>

(* A thread goes on outside PatchByte, or by PatchByte's write.            *)
Carries(p) ==
    /\ patch[p] = IF Patches(p) THEN "open" ELSE "none"
    /\ patch' = [patch EXCEPT ![p] = IF Patches(p) THEN "done" ELSE "none"]
    /\ UNCHANGED <<writable, kept>>
-----------------------------------------------------------------------------
(* ConfigureHooks, from the bootstrap thread, which tries again after a    *)
(* failure.  A hook that is armed already counts as one.                   *)
Configure ==
    /\ wpc = "configure"
    /\ resolver' = TRUE /\ next' = 1 /\ wpc' = "arm"
    /\ UNCHANGED <<byte, hookVars, controller>>

ArmHook ==
    /\ wpc = "arm" /\ next \in DOMAIN Hooks
    /\ LET h == Hooks[next] IN
        IF armed[h]
        THEN wpc' = "configure" /\ UNCHANGED hookVars
        ELSE /\ saved' = [saved EXCEPT ![h] = byte[h][1]]
             /\ armed' = [armed EXCEPT ![h] = TRUE]
             /\ wpc' = "patch"
    /\ UNCHANGED <<byte, resolver, controller, next>>

PatchHook ==
    /\ wpc = "patch"
    /\ byte' = [byte EXCEPT ![Hooks[next]][1] = "int3"]
    /\ next' = next + 1 /\ wpc' = IF next' \in DOMAIN Hooks THEN "arm" ELSE "flushing"
    /\ UNCHANGED <<hookVars, resolver, controller>>

HookRefused ==
    /\ wpc = "patch" /\ patch[Arming] = "none"
    /\ failures < MaxFailures /\ failures' = failures + 1
    /\ armed' = [armed EXCEPT ![Hooks[next]] = FALSE]
    /\ wpc' = "configure"
    /\ UNCHANGED <<byte, saved, resolver, controller, next, pageVars, refused>>

InstallController ==
    /\ resolver /\ ~controller /\ controller' = TRUE
    /\ UNCHANGED <<byte, hookVars, resolver, wpc, next, pageVars, refusals>>

Bootstrap ==
    /\ \/ (Configure \/ ArmHook \/ PatchHook) /\ Carries(Arming) /\ UNCHANGED refusals
       \/ HookRefused \/ InstallController
    /\ UNCHANGED <<at, tf, exception, traceVars, owed, crashed, entries>>
-----------------------------------------------------------------------------
(* STR runs.  The processor raises a single step after an instruction that *)
(* began with the trap flag set.                                           *)
Running(t)  == at[t] # <<>> /\ exception[t] = "none"
InCode(t)   == at[t] # <<>> /\ Head(at[t]) # Nowhere
Function(t) == Head(at[t])[1]
Position(t) == Head(at[t])[2]
AtCall(t)   == Function(t) \in Traced /\ Position(t) \in CallSites

Enter(t) ==
    /\ exception[t] = "none" /\ entries < MaxCalls
    /\ at[t] # <<>> => Head(at[t]) = Nowhere /\ ~tf[t] /\ Len(at[t]) < 2 * MaxDepth
    /\ \E h \in Hook : at' = [at EXCEPT ![t] = <<<<h, 1>>>> \o @]
    /\ owed' = [owed EXCEPT ![t] = at[t] # <<>> /\ @]
    /\ entries' = entries + 1
    /\ UNCHANGED <<byte, tf, exception, traceVars, crashed>>

Execute(t) ==
    /\ Running(t) /\ InCode(t) /\ byte[Function(t)][Position(t)] = "code"
    /\ at' = [at EXCEPT ![t] =
         IF AtCall(t) THEN <<Nowhere, <<Function(t), Position(t) + 1>>>> \o Tail(@)
         ELSE IF Position(t) = Last(Function(t)) THEN Tail(@)
         ELSE <<<<Function(t), Position(t) + 1>>>> \o Tail(@)]
    /\ exception' = [exception EXCEPT ![t] = IF tf[t] THEN "step" ELSE "none"]
    /\ UNCHANGED <<byte, tf, traceVars, owed, crashed, entries>>

ReturnFromCallee(t) ==
    /\ Running(t) /\ Head(at[t]) = Nowhere
    /\ at' = [at EXCEPT ![t] = Tail(@)]
    /\ exception' = [exception EXCEPT ![t] = IF tf[t] THEN "step" ELSE "none"]
    /\ UNCHANGED <<byte, tf, traceVars, owed, crashed, entries>>

Game(t) ==
    /\ patch[t] = "none" /\ (Enter(t) \/ Execute(t) \/ ReturnFromCallee(t))
    /\ UNCHANGED <<hookVars, workerVars, pageVars, refusals>>
-----------------------------------------------------------------------------
(* INT3.  The controller knows its own one-shots, the resolver its hooks.  *)
AtInt3(t)    == Running(t) /\ InCode(t) /\ byte[Function(t)][Position(t)] = "int3"
AtOneShot(t) == controller /\ over[t] = Head(at[t])
AtHook(t)    == resolver /\ Position(t) = 1 /\ armed[Function(t)]

Trap(t) ==
    /\ AtInt3(t)
    /\ \/ AtOneShot(t) /\ exception' = [exception EXCEPT ![t] = "one-shot"]
       \/ ~AtOneShot(t) /\ AtHook(t) /\ exception' = [exception EXCEPT ![t] = "hook"]
    /\ UNCHANGED <<byte, tf, traceVars, owed, crashed>>

OneShot(t) ==
    /\ exception[t] = "one-shot" /\ exception' = [exception EXCEPT ![t] = "none"]
    /\ byte' = [byte EXCEPT ![Function(t)][Position(t)] = overSaved[t]]
    /\ over' = [over EXCEPT ![t] = Nowhere]
    /\ tf' = [tf EXCEPT ![t] = TRUE]
    /\ UNCHANGED <<rearm, trace, steps, overSaved, owed, crashed>>

EnterHook(t) ==
    /\ exception[t] = "hook" /\ exception' = [exception EXCEPT ![t] = "none"]
    /\ LET h == Function(t) IN
        /\ byte' = [byte EXCEPT ![h][1] = saved[h]]
        /\ rearm' = [rearm EXCEPT ![t] = h]
        /\ IF h \in Traced
           THEN /\ trace' = [trace EXCEPT ![t] = h] /\ steps' = [steps EXCEPT ![t] = 0]
                /\ owed' = [owed EXCEPT ![t] = controller /\ Publishing # {}]
           ELSE UNCHANGED <<trace, steps, owed>>
    /\ tf' = [tf EXCEPT ![t] = TRUE]
    /\ UNCHANGED <<over, overSaved, crashed>>

NobodysInt3(t) ==
    /\ AtInt3(t) /\ ~AtOneShot(t) /\ ~AtHook(t)
    /\ crashed' = TRUE
    /\ UNCHANGED <<byte, tf, exception, traceVars, owed>>
-----------------------------------------------------------------------------
(* Single step: the entry is armed again, then the trace goes on.  Without *)
(* the controller the resolver's own trace does the same but the step over.*)
NobodysStep(t) ==
    /\ exception[t] = "step" /\ rearm[t] = Nowhere /\ trace[t] = Nowhere
    /\ crashed' = TRUE
    /\ UNCHANGED <<byte, tf, exception, traceVars, owed>>

(* Slip: a hook of another kind than the traced ones is not armed again.   *)
RearmTraced(t) ==
    /\ exception[t] = "step" /\ (rearm[t] # Nowhere \/ trace[t] # Nowhere)
    /\ byte' = IF rearm[t] \in Traced /\ armed[rearm[t]]
               THEN [byte EXCEPT ![rearm[t]][1] = "int3"] ELSE byte
    /\ rearm' = [rearm EXCEPT ![t] = Nowhere]
    /\ exception' = [exception EXCEPT ![t] = "trace"]
    /\ UNCHANGED <<tf, trace, steps, over, overSaved, owed, crashed>>

RearmEntryHook(t) ==
    /\ exception[t] = "step" /\ (rearm[t] # Nowhere \/ trace[t] # Nowhere)
    /\ byte' = IF Rearms(t)
               THEN [byte EXCEPT ![rearm[t]][1] = "int3"] ELSE byte
    /\ rearm' = [rearm EXCEPT ![t] = Nowhere]
    /\ exception' = [exception EXCEPT ![t] = "trace"]
    /\ UNCHANGED <<tf, trace, steps, over, overSaved, owed, crashed>>

InBounds(t)  == InCode(t) /\ Function(t) = trace[t]
Continues(t) == exception[t] = "trace" /\ trace[t] # Nowhere /\ InBounds(t) /\ steps[t] < MaxSteps

(* Slip: the trace ends but the processor goes on stepping.                *)
StopStillStepping(t) ==
    /\ exception[t] = "trace" /\ ~Continues(t)
    /\ trace' = [trace EXCEPT ![t] = Nowhere] /\ steps' = [steps EXCEPT ![t] = 0]
    /\ exception' = [exception EXCEPT ![t] = "none"]
    /\ UNCHANGED <<byte, tf, rearm, over, overSaved, owed, crashed>>

StopTrace(t) ==
    /\ exception[t] = "trace" /\ ~Continues(t)
    /\ trace' = [trace EXCEPT ![t] = Nowhere] /\ steps' = [steps EXCEPT ![t] = 0]
    /\ tf' = [tf EXCEPT ![t] = FALSE]
    /\ exception' = [exception EXCEPT ![t] = "none"]
    /\ UNCHANGED <<byte, rearm, over, overSaved, owed, crashed>>

CaptureLifecycleCall(t) ==
    /\ Continues(t) /\ AtCall(t) /\ Position(t) \in Publishing
    /\ owed' = [owed EXCEPT ![t] = FALSE]
    /\ trace' = [trace EXCEPT ![t] = Nowhere] /\ steps' = [steps EXCEPT ![t] = 0]
    /\ tf' = [tf EXCEPT ![t] = FALSE]
    /\ exception' = [exception EXCEPT ![t] = "none"]
    /\ UNCHANGED <<byte, rearm, over, overSaved, crashed>>

(* ArmStepOver reads the byte behind the call and refuses INT3 there.      *)
CanStepOver(t) ==
    /\ controller /\ over[t] = Nowhere
    /\ Position(t) < Last(Function(t)) /\ byte[Function(t)][Position(t) + 1] = "code"

(* Slip: the trap flag is lost on the way.                                 *)
StepOffOn(t) ==
    /\ Continues(t) /\ ~(AtCall(t) /\ (Position(t) \in Publishing \/ CanStepOver(t)))
    /\ steps' = [steps EXCEPT ![t] = @ + 1]
    /\ tf' = [tf EXCEPT ![t] = FALSE]
    /\ exception' = [exception EXCEPT ![t] = "none"]
    /\ UNCHANGED <<byte, rearm, trace, over, overSaved, owed, crashed>>

StepOn(t) ==
    /\ Continues(t) /\ ~(AtCall(t) /\ (Position(t) \in Publishing \/ CanStepOver(t)))
    /\ steps' = [steps EXCEPT ![t] = @ + 1]
    /\ exception' = [exception EXCEPT ![t] = "none"]
    /\ UNCHANGED <<byte, tf, rearm, trace, over, overSaved, owed, crashed>>

ReadBehindCall(t) ==
    /\ Continues(t) /\ AtCall(t) /\ Position(t) \notin Publishing /\ CanStepOver(t)
    /\ steps' = [steps EXCEPT ![t] = @ + 1]
    /\ overSaved' = [overSaved EXCEPT ![t] = byte[Function(t)][Position(t) + 1]]
    /\ exception' = [exception EXCEPT ![t] = "arming"]
    /\ UNCHANGED <<byte, tf, rearm, trace, over, owed, crashed>>

ArmStepOver(t) ==
    /\ exception[t] = "arming"
    /\ byte' = [byte EXCEPT ![Function(t)][Position(t) + 1] = "int3"]
    /\ over' = [over EXCEPT ![t] = <<Function(t), Position(t) + 1>>]
    /\ tf' = [tf EXCEPT ![t] = FALSE]
    /\ exception' = [exception EXCEPT ![t] = "none"]
    /\ UNCHANGED <<rearm, trace, steps, overSaved, owed, crashed>>

(* VirtualProtect fails: an INT3 is handed on, to nobody; a hook is not    *)
(* armed again; a call is run under the trap flag.                         *)
PatchRefused(t) ==
    /\ Patches(t) /\ patch[t] = "none"
    /\ failures < MaxFailures /\ failures' = failures + 1
    /\ refused' = refused \union {exception[t]}
    /\ \/ exception[t] \in {"one-shot", "hook"} /\ crashed' = TRUE /\ UNCHANGED <<exception, rearm>>
       \/ /\ exception[t] = "step"
          /\ rearm' = [rearm EXCEPT ![t] = Nowhere]
          /\ exception' = [exception EXCEPT ![t] = "trace"]
          /\ UNCHANGED crashed
       \/ /\ exception[t] = "arming"
          /\ exception' = [exception EXCEPT ![t] = "none"]
          /\ UNCHANGED <<rearm, crashed>>
    /\ UNCHANGED <<byte, tf, trace, steps, over, overSaved, owed, pageVars>>

Handler(t) ==
    /\ \/ /\ \/ Trap(t) \/ OneShot(t) \/ EnterHook(t) \/ NobodysInt3(t) \/ NobodysStep(t)
             \/ RearmEntryHook(t) \/ StopTrace(t) \/ CaptureLifecycleCall(t) \/ StepOn(t)
             \/ ReadBehindCall(t) \/ ArmStepOver(t)
          /\ Carries(t) /\ UNCHANGED refusals
       \/ PatchRefused(t)
    /\ UNCHANGED <<hookVars, workerVars, at, entries>>
-----------------------------------------------------------------------------
Busy(t) == at[t] # <<>> \/ exception[t] # "none"

History ==
    /\ met' = (met \/ Cardinality({t \in GameThreads : Busy(t)'}) > 1)
    /\ nested' = (nested \/ \E t \in GameThreads : Len(at'[t]) > 2)
    /\ overlapped' = (overlapped \/ Cardinality({p \in Patchers : patch'[p] # "none"}) > 1)

LHNext ==
    /\ ~crashed
    /\ \/ Bootstrap
       \/ \E t \in GameThreads : Game(t) \/ Handler(t)
       \/ \E p \in Patchers : PatchByte(p)
    /\ History

LHSpec == LHInit /\ [][LHNext]_LHvars
-----------------------------------------------------------------------------
(* A thread alone in the hooked functions, in one call of them, survives   *)
(* its trace: every exception it causes is owned by one of the handlers,   *)
(* also while the controller is being installed.  It dies only of a patch: *)
(* when its handler is in PatchByte together with the bootstrap thread,    *)
(* which protects the page before the handler's write, or when the system  *)
(* refuses to let the INT3 be taken away.  (Another thread dies of its     *)
(* one-shot; and a trace that a nested call has ended leaves a single step *)
(* that nobody owns.)                                                      *)
AloneIsSafe ==
    crashed => met \/ nested \/ overlapped \/ refused \intersect {"one-shot", "hook"} # {}

(* Once everybody has left, the code is STR's own but for the armed hooks, *)
(* however traces overlapped and however often arming failed half way; no  *)
(* retry has saved an INT3 as STR's byte.  A hook is out of the code only  *)
(* if the system refused to let it be armed again.                         *)
CodeAccounted ==
    ~crashed =>
        /\ \A h \in Hook : saved[h] = "code"
        /\ wpc # "patch" /\ (\A t \in GameThreads : ~Busy(t)) =>
             \A h \in Hook : \A i \in 1 .. Last(h) :
               /\ byte[h][i] = "int3" => i = 1 /\ armed[h]
               /\ i = 1 /\ armed[h] => byte[h][i] = "int3" \/ "step" \in refused

(* A trace that is alone finds the call that publishes the mapping, unless *)
(* the system refused the one-shot behind a call.                          *)
TraceReports ==
    \A t \in GameThreads : owed[t] /\ ~Busy(t) => met \/ nested \/ "arming" \in refused
=============================================================================
