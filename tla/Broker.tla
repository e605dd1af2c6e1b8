------------------------------- MODULE Broker -------------------------------
(***************************************************************************)
(* The message broker of STRPluginMessagingAPIRuntime.cpp in the default   *)
(* build, which has no UDP backend.  Every call of the API but the         *)
(* registrations starts the broker first, and nothing keeps two calls from *)
(* starting it together.  Listeners are copied under a mutex and called    *)
(* without it; the log callback is called with its mutex held.             *)
(*                                                                         *)
(* A thread is the stack of the places it will go on at: callbacks call    *)
(* the API again.  The bridge is external: its start may fail until it has *)
(* succeeded once, and then its dispatcher thread brings messages.         *)
(***************************************************************************)
EXTENDS Integers, Sequences, FiniteSets

CONSTANTS
    Callers,      \* threads that use the API
    Receiver,     \* the bridge's dispatcher thread
    Nobody,       \* holds no mutex
    Channels,
    CallbackCalls,    \* what a message callback may call
    LogCallbackCalls, \* what a log callback may call
    MaxCalls,     \* bound: calls of the API
    MaxMessages   \* bound: messages the bridge brings

Threads == Callers \union {Receiver}
Calls   == {"send", "query", "setLogCallback", "register", "unregister"}

ASSUME ThreadAssumption == Receiver \notin Callers /\ Nobody \notin Threads
ASSUME ChannelAssumption == Channels # {}
ASSUME CallAssumption   == CallbackCalls \subseteq Calls /\ LogCallbackCalls \subseteq Calls
ASSUME BoundsAssumption == MaxCalls \in Nat /\ MaxMessages \in Nat

Places == {"test", "configure", "load", "queryTransport", "startTransport", "logActive",
           "activate", "run", "logDisabled", "refuse", "logging", "route",
           "setLogCallback", "register", "unregister", "copy", "unlock", "calling"}

VARIABLES
    stack,        \* where each thread is; its callers below
    mode,         \* _config.enabled and _config.backendMode
    running,      \* _running
    active,       \* _activeBackend is the bridge
    available,    \* _strBridgeAvailable
    transport,    \* _strTransport is set
    usable,       \* the bridge module offers the transport
    loaded,       \* the bridge module is in the process
    bridgeUp,     \* the bridge has been started with this broker's callback
    identity,     \* which _instanceID and _localConnectionID are in use
    logLock,      \* _logMutex
    listenerLock, \* _listenerMutex
    listeners,    \* _listeners
    nextHandle,   \* _nextHandle
    channel,      \* the channel of the message being delivered
    copied,       \* Deliver's local "listeners" not called yet
    called, seen, throughout, \* history of a delivery: handles called, registered
                              \* at some time of it, registered all the time
    raced,        \* history: of the Starts under way, two have been so at once
    calls, messages           \* bounds

startVars    == <<mode, running, active, available, transport, usable, loaded, bridgeUp, identity>>
listenerVars == <<listenerLock, listeners, nextHandle, seen, throughout>>
deliveryVars == <<channel, copied, called>>
vars == <<stack, startVars, logLock, listenerVars, deliveryVars, raced, calls, messages>>

Init ==
    /\ stack = [t \in Threads |-> <<>>]
    /\ mode \in {"off", "str", "auto", "udp"}
    /\ running = FALSE /\ active = FALSE /\ available = FALSE /\ transport = FALSE
    /\ usable \in BOOLEAN /\ loaded = FALSE /\ bridgeUp = FALSE /\ identity = 0
    /\ logLock = Nobody /\ listenerLock = Nobody
    /\ listeners = {} /\ nextHandle = 1
    /\ channel = CHOOSE c \in Channels : TRUE
    /\ copied = {} /\ called = {} /\ seen = {} /\ throughout = {}
    /\ raced = FALSE
    /\ calls = 0 /\ messages = 0
-----------------------------------------------------------------------------
At(t, place)   == stack[t] # <<>> /\ Head(stack[t]) = place
Goto(t, place) == stack' = [stack EXCEPT ![t] = <<place>> \o Tail(@)]
Return(t)      == stack' = [stack EXCEPT ![t] = Tail(@)]

(* Start returned false: Send returns too, GetRuntimeStatus only reads.    *)
ReturnFalse(t) ==
    stack' = [stack EXCEPT ![t] = IF Len(@) > 1 /\ @[2] = "route" THEN Tail(Tail(@)) ELSE Tail(@)]

Entry(call) ==
    CASE call = "send"       -> <<"test", "route">>
      [] call = "query"      -> <<"test">>
      [] OTHER               -> <<call>>

Enter(t, call) ==
    /\ calls < MaxCalls /\ calls' = calls + 1
    /\ stack' = [stack EXCEPT ![t] = Entry(call) \o @]

CallApi(t) ==
    /\ t \in Callers /\ stack[t] = <<>>
    /\ \E call \in Calls : Enter(t, call)
    /\ UNCHANGED <<startVars, logLock, listenerVars, deliveryVars, messages>>
-----------------------------------------------------------------------------
(* Start.  CreateLocalIdentity makes an identity no other has.             *)
(* Slip: a running broker is started again.                                *)
TestForgotten(t) ==
    /\ At(t, "test")
    /\ Goto(t, "configure")
    /\ UNCHANGED <<startVars, logLock, listenerVars, deliveryVars, calls, messages>>

Test(t) ==
    /\ At(t, "test")
    /\ IF running THEN Return(t) ELSE Goto(t, "configure")
    /\ UNCHANGED <<startVars, logLock, listenerVars, deliveryVars, calls, messages>>

Configure(t) ==
    /\ At(t, "configure")
    /\ \/ mode = "off" /\ ReturnFalse(t) /\ UNCHANGED identity
       \/ mode = "udp" /\ Goto(t, "logDisabled") /\ identity' = identity + 1
       \/ mode \in {"str", "auto"} /\ Goto(t, "load") /\ identity' = identity + 1
    /\ UNCHANGED <<mode, running, active, available, transport, usable, loaded, bridgeUp,
                   logLock, listenerVars, deliveryVars, calls, messages>>

NoBridge(t) == IF mode = "str" THEN ReturnFalse(t) ELSE Goto(t, "logDisabled")

(* A module that is in the process stays there.                            *)
LoadModule(t) ==
    /\ At(t, "load")
    /\ available' = FALSE
    /\ \/ ~loaded /\ NoBridge(t) /\ UNCHANGED loaded
       \/ Goto(t, "queryTransport") /\ loaded' = TRUE
    /\ UNCHANGED <<mode, running, active, transport, usable, bridgeUp, identity,
                   logLock, listenerVars, deliveryVars, calls, messages>>

QueryTransport(t) ==
    /\ At(t, "queryTransport")
    /\ \/ ~usable /\ NoBridge(t) /\ UNCHANGED available
       \/ usable /\ Goto(t, "startTransport") /\ available' = TRUE
    /\ UNCHANGED <<mode, running, active, transport, usable, loaded, bridgeUp, identity,
                   logLock, listenerVars, deliveryVars, calls, messages>>

(* Slip: the result of the bridge's start is not looked at.                *)
StartTransportAnyway(t) ==
    /\ At(t, "startTransport")
    /\ bridgeUp' \in {bridgeUp, TRUE} /\ transport' = TRUE
    /\ Goto(t, "logActive")
    /\ UNCHANGED <<mode, running, active, available, usable, loaded, identity,
                   logLock, listenerVars, deliveryVars, calls, messages>>

StartTransport(t) ==
    /\ At(t, "startTransport")
    /\ \/ ~bridgeUp /\ NoBridge(t) /\ UNCHANGED <<bridgeUp, transport>>
       \/ bridgeUp' = TRUE /\ transport' = TRUE /\ Goto(t, "logActive")
    /\ UNCHANGED <<mode, running, active, available, usable, loaded, identity,
                   logLock, listenerVars, deliveryVars, calls, messages>>

Activate(t) ==
    /\ \/ At(t, "activate") /\ active' = TRUE /\ Goto(t, "run") /\ UNCHANGED running
       \/ At(t, "run") /\ running' = TRUE /\ Return(t) /\ UNCHANGED active
    /\ UNCHANGED <<mode, available, transport, usable, loaded, bridgeUp, identity,
                   logLock, listenerVars, deliveryVars, calls, messages>>

Refuse(t) ==
    /\ At(t, "refuse") /\ ReturnFalse(t)
    /\ UNCHANGED <<startVars, logLock, listenerVars, deliveryVars, calls, messages>>

(* Log, with the mutex held while the callback runs.                       *)
Log(t) ==
    /\ logLock = Nobody /\ logLock' = t
    /\ \E then \in {"activate", "refuse"} :
        /\ At(t, IF then = "activate" THEN "logActive" ELSE "logDisabled")
        /\ stack' = [stack EXCEPT ![t] = <<"logging", then>> \o Tail(@)]
    /\ UNCHANGED <<startVars, listenerVars, deliveryVars, calls, messages>>

LogCallback(t) ==
    /\ At(t, "logging")
    /\ \/ Return(t) /\ logLock' = Nobody /\ UNCHANGED calls
       \/ \E call \in LogCallbackCalls : Enter(t, call) /\ UNCHANGED logLock
    /\ UNCHANGED <<startVars, listenerVars, deliveryVars, messages>>

SetLogCallback(t) ==
    /\ At(t, "setLogCallback") /\ logLock = Nobody
    /\ Return(t)
    /\ UNCHANGED <<startVars, logLock, listenerVars, deliveryVars, calls, messages>>

(* The rest of Send: the bridge's send, which is external.                 *)
Route(t) ==
    /\ At(t, "route")
    /\ Return(t)
    /\ UNCHANGED <<startVars, logLock, listenerVars, deliveryVars, calls, messages>>

Start(t) ==
    \/ Test(t) \/ Configure(t) \/ LoadModule(t) \/ QueryTransport(t) \/ StartTransport(t)
    \/ Log(t) \/ LogCallback(t) \/ Activate(t) \/ Refuse(t)
-----------------------------------------------------------------------------
(* Registration: one section under the mutex each.                         *)
Delivering == stack[Receiver] # <<>>

(* Slip: the channel is not looked up before it is added.                  *)
RegisterTwice(t) ==
    /\ At(t, "register") /\ listenerLock = Nobody
    /\ \E c \in Channels :
        /\ listeners' = listeners \union {[handle |-> nextHandle, channel |-> c]}
        /\ nextHandle' = nextHandle + 1
        /\ seen' = IF Delivering /\ c = channel THEN seen \union {nextHandle} ELSE seen
    /\ Return(t)
    /\ UNCHANGED <<startVars, logLock, listenerLock, throughout, deliveryVars, calls, messages>>

RegisterChannel(t) ==
    /\ At(t, "register") /\ listenerLock = Nobody
    /\ \E c \in Channels :
        IF \E l \in listeners : l.channel = c
        THEN UNCHANGED <<listeners, nextHandle, seen>>
        ELSE /\ listeners' = listeners \union {[handle |-> nextHandle, channel |-> c]}
             /\ nextHandle' = nextHandle + 1
             /\ seen' = IF Delivering /\ c = channel THEN seen \union {nextHandle} ELSE seen
    /\ Return(t)
    /\ UNCHANGED <<startVars, logLock, listenerLock, throughout, deliveryVars, calls, messages>>

(* With any handle that was ever given out.                                *)
UnregisterChannel(t) ==
    /\ At(t, "unregister") /\ listenerLock = Nobody
    /\ \E handle \in 1 .. nextHandle :
        /\ listeners' = {l \in listeners : l.handle # handle}
        /\ throughout' = throughout \ {handle}
    /\ Return(t)
    /\ UNCHANGED <<startVars, logLock, listenerLock, nextHandle, seen, deliveryVars, calls, messages>>
-----------------------------------------------------------------------------
(* Deliver, from the bridge's receive callback.                            *)
OfChannel(c) == {l \in listeners : l.channel = c}
Handles(ls)  == {l.handle : l \in ls}

Receive ==
    /\ bridgeUp /\ stack[Receiver] = <<>>
    /\ messages < MaxMessages /\ messages' = messages + 1
    /\ stack' = [stack EXCEPT ![Receiver] = <<"copy">>]
    /\ channel' \in Channels
    /\ seen' = Handles(OfChannel(channel')) /\ throughout' = seen'
    /\ called' = {} /\ copied' = {}
    /\ UNCHANGED <<startVars, logLock, listenerLock, listeners, nextHandle, calls>>

(* Slip: the listeners of every channel are copied.                        *)
CopyEveryListener ==
    /\ At(Receiver, "copy") /\ listenerLock = Nobody
    /\ listenerLock' = Receiver
    /\ copied' = listeners
    /\ Goto(Receiver, "unlock")
    /\ UNCHANGED <<startVars, logLock, listeners, nextHandle, seen, throughout,
                   channel, called, calls, messages>>

CopyListeners ==
    /\ At(Receiver, "copy") /\ listenerLock = Nobody
    /\ listenerLock' = Receiver
    /\ copied' = OfChannel(channel)
    /\ Goto(Receiver, "unlock")
    /\ UNCHANGED <<startVars, logLock, listeners, nextHandle, seen, throughout,
                   channel, called, calls, messages>>

(* Slip: the mutex is held until the function returns.                     *)
UnlockLater ==
    /\ At(Receiver, "unlock")
    /\ Goto(Receiver, "calling")
    /\ UNCHANGED <<startVars, logLock, listenerVars, deliveryVars, calls, messages>>

Unlock ==
    /\ At(Receiver, "unlock")
    /\ listenerLock' = Nobody
    /\ Goto(Receiver, "calling")
    /\ UNCHANGED <<startVars, logLock, listeners, nextHandle, seen, throughout,
                   deliveryVars, calls, messages>>

CallListener ==
    /\ At(Receiver, "calling") /\ copied # {}
    /\ \E l \in copied : copied' = copied \ {l} /\ called' = called \union {l.handle}
    /\ \/ UNCHANGED <<stack, calls>>
       \/ \E call \in CallbackCalls : Enter(Receiver, call)
    /\ UNCHANGED <<startVars, logLock, listenerVars, channel, messages>>

(* The mutex has been free since Unlock.                                   *)
Finish ==
    /\ At(Receiver, "calling") /\ copied = {}
    /\ Return(Receiver)
    /\ listenerLock' = Nobody
    /\ UNCHANGED <<startVars, logLock, listeners, nextHandle, seen, throughout,
                   deliveryVars, calls, messages>>

Deliver == CopyListeners \/ Unlock \/ CallListener \/ Finish
-----------------------------------------------------------------------------
Step(t) == Start(t) \/ Route(t) \/ SetLogCallback(t) \/ RegisterChannel(t) \/ UnregisterChannel(t)

(* The Starts that have found _running not set and have not returned yet.  *)
Starting == {"configure", "load", "queryTransport", "startTransport", "logActive",
             "activate", "run", "logDisabled", "refuse"}
Starts == UNION {{<<t, i>> : i \in {j \in DOMAIN stack[t] : stack[t][j] \in Starting}} : t \in Threads}

StartHistory == raced' = (Starts' # {} /\ (raced \/ \E a, b \in Starts' : a # b))

Next ==
    /\ \/ Receive
       \/ Deliver
       \/ \E t \in Threads : CallApi(t) \/ Step(t)
    /\ StartHistory

(* Threads that are in a call run on.                                      *)
Spec ==
    /\ Init /\ [][Next]_vars
    /\ WF_vars(Deliver /\ StartHistory)
    /\ \A t \in Threads : WF_vars(Step(t) /\ StartHistory)
-----------------------------------------------------------------------------
(* Types, and a channel never has two listeners (RegisterChannel tests and *)
(* adds in one section).                                                   *)
TypeOK ==
    /\ stack \in [Threads -> Seq(Places)]
    /\ mode \in {"off", "str", "auto", "udp"}
    /\ {running, active, available, transport, usable, loaded, bridgeUp, raced} \subseteq BOOLEAN
    /\ identity \in Nat /\ {logLock, listenerLock} \subseteq Threads \union {Nobody}
    /\ nextHandle \in Nat \ {0} /\ listeners \subseteq [handle : 1 .. nextHandle - 1, channel : Channels]
    /\ \A l, m \in listeners : l # m => l.handle # m.handle /\ l.channel # m.channel
    /\ channel \in Channels /\ copied \subseteq [handle : 1 .. nextHandle - 1, channel : Channels]
    /\ {called, seen, throughout} \subseteq SUBSET (1 .. nextHandle - 1)
    /\ calls \in 0 .. MaxCalls /\ messages \in 0 .. MaxMessages

(* Whatever other threads are starting: a thread that finds _running set   *)
(* finds an active backend with its transport (Send does not test again    *)
(* for long); and once nobody is starting, the status is not "active but   *)
(* not available".                                                         *)
StartPlaces == {"load", "queryTransport"}
RunningIsReady ==
    running =>
        /\ active /\ transport /\ bridgeUp
        /\ (\A t \in Threads : \A i \in DOMAIN stack[t] : stack[t][i] \notin StartPlaces) => available

(* The identity under which the peers know this client is not made anew    *)
(* once the broker runs, whatever calls start it again: but for two Starts *)
(* under way at once, in two threads or one in a callback of the other,    *)
(* when the later one makes a second identity after the first has set      *)
(* _running.                                                               *)
IdentitySettles == [][identity' # identity => ~running \/ raced]_vars

(* A message is given to every listener that was registered all through    *)
(* its delivery, and to nobody who was not registered at some time of it,  *)
(* whatever callbacks and other threads register meanwhile.                *)
ReachesItsListeners ==
    At(Receiver, "calling") /\ copied = {} => throughout \subseteq called /\ called \subseteq seen

(* Callbacks may use the API: no call waits for ever for a mutex.          *)
EveryCallReturns ==
    \A t \in Threads : stack[t] # <<>> ~> stack[t] = <<>>
=============================================================================
