# A TLA+ model of the STR Plugin Messaging API

`src/` is a set of SKSE plugins that let Skyrim mods send messages to the other players of a
Skyrim Together Reborn (STR) session. STR has no plugin interface: the bridge finds
STR's functions in memory, sends messages as ordinary chat lines that begin with `STRPM|v2|`, has
them relayed by a Lua resource on the server, and takes them out of the incoming traffic with a
software breakpoint before STR's chat window sees them. It runs on threads it does not own, in a
process it shares with two other programs, and has no tests. This directory holds TLA+
models of its concurrent parts, TLC runs over small instances of them, and proofs about them.

Line numbers below are those of `src/src/`: *Receive* is `STRPluginMessagingBridgeReceive.cpp`,
*Bridge* is `STRPluginMessagingBridge.cpp`, *Runtime* is `STRPluginMessagingAPIRuntime.cpp`,
*Resolver* is `STRPMProxyResolverBridge.h`, *Registry* is `STRPMProxyResolverRuntime.h`, *Trace* is
`STRPMProxyResolverTrace.h`, *Identity* is `STRPluginMessagingBridgeSKSE.cpp` and *Diagnostic* is
`STRPluginMessagingDiagnosticSKSE.cpp`.

## The system

    mod --send--> broker --> bridge: fragments --> STR client --> STR server: main.lua relay
                                                                        |
    mod <--callback-- broker <-- completed-message FIFO <-- reassembly <-- capture queue
                                    (second thread)       (first thread)      ^
                                                                              | INT3 on OnConsume,
                                                                              | on STR's threads
    mod <--resolve/events-- registry <-- join of two tables <-- identity messages, lifecycle hooks

| part | where | state | operations | what makes it hard | what makes it correct | module |
|---|---|---|---|---|---|---|
| OnConsume hook | Receive 498-508, 1069-1193 | the patched byte and its page's protection, `g_originalByte`, `g_breakpointArmed`, the handler, one flag per thread | trap, suppress, step over, rearm; arm, restore | several STR threads patch one byte without a lock; Start and Stop from another thread | the hook survives every packet; STR's code is left as found | OnConsumeHook |
| capture queue | Receive 699-758, 946-1067 | 64 slots with an atomic state, an order counter, a probe counter | reserve, copy, number, publish; scan, deliver, free; start, drain, stop | lock-free, several writers, one reader whose scan is not atomic | one owner per slot, no packet lost or doubled, a complete drain | CaptureQueue |
| reassembly | Receive 760-944 | `g_pending`: parts by sender and message id | add a fragment, expire, evict | interleaved, missing and late fragments, 128 pending messages, 30 seconds | a message is delivered whole and at most once | Reassembly |
| completed-message FIFO | Bridge 143-283 | a queue of 256, a condition variable, an atomic flag | push, notify; wait, pop, call; start, clear, join | the flag is not guarded by the lock | no lost wakeup, order, no callback after Stop | ReceiveDispatch, OrderedDelivery |
| sending | Bridge 766-910, 1123-1162 | a sequence counter, a send lock | split, send each fragment through STR | a failure in the middle; other senders between fragments | all fragments or an error | ChatTunnel, Fragmentation |
| server relay | `extras/.../main.lua` 82-190 | none | validate, stamp the sender, route | the targets and the loopback flag | only the audience receives | ChatTunnel |
| transport capture and bridge lifecycle | Bridge 574-644, 951-1121 | a one-shot breakpoint on STR's Send, the bootstrap thread, two "ready" flags | search, arm, trap, store the instance, restore; start, retry, stop | the bootstrap thread, STR's threads and Stop at once; this plugin calls the same function | the instance is found, STR is not disturbed, Stop undoes everything | TransportCapture |
| broker | Runtime 484-1072, 1325-1615 | listeners, backend, configuration, identity | register, unregister, send, deliver, start | every call starts it, without a lock; callbacks outside one lock and inside another | one backend, a listener that stays gets its messages, callbacks may call back | Broker |
| lifecycle trace and step-over controller | Resolver 946-1044, Trace | the hooks, a thread-local trace, one-shot breakpoints in STR's code | arm, trap, single-step, step over a call | two handlers of the same exceptions; code is shared, a trace is not | every patched byte is restored, every exception is owned | LifecycleHooks |
| resolver bootstrap | `STRPMProxyResolverBootstrapV2.h`, Resolver 1046-1074 | the hooks it arms | find, arm, retry | one of several fails | a retry saves no INT3 | LifecycleHooks |
| mapping tables | Resolver 734-864 | connection to player, player to form | observe sender, observe proxy, remove, clear, flush | the halves come from different threads in any order; calls are made after the lock is released | no mapping of two halves that never belonged together | ProxyResolver |
| registry | Registry 38-199 | mappings, listeners | report, remove, clear, register, unregister, resolve | callbacks outside the lock | a listener misses nothing; resolve is current | ProxyResolver |
| identity worker | Identity 81-249 | the listener, a heartbeat | announce, observe | sessions come and go between polls | everybody's player id becomes known | PeerSessions |
| diagnostic client | Diagnostic 106-451 | peer seen, acknowledgement seen | probe, acknowledge, resolve, reset | the sessions of two clients do not start together | a handshake is mutual, and the next session is seen | PeerSessions |
| UDP backend | Runtime 1074-1425 | peers | hello, send, relay, expire | identities change at the same endpoint; relays that know each other | no echo, no endless relaying | UdpNetwork |
| chat UI suppression | `STRPMChatUiSuppressV3.h` 284-544 | a count of pending envelopes per thread, a second hook | mark, consume, suppress | the mark and the line it hides are seen at different places | ordinary chat is shown, envelopes are not | - |

The rest - the packet and hex codecs, the scanners that find STR's functions, the client loader, the log
redirection, the SKSE metadata - keeps no state of its own.

The hazards of this code, each at its line, are in `PROJECT.json` with the properties about them.

## The modules

Each component has a module, an `MC` module with the constants of its small instances, one
`.cfg` per run and a `_proofs` module. Two components share the proofs module of a neighbour:
`LifecycleHooks` is proved about in `ProxyResolver_proofs`, whose tables its traces fill, and `PeerSessions` in
`UdpNetwork_proofs`; so that both can be extended, their `Init`, `Next`, `Spec` and `vars` are called `LHInit`,
`PSInit` and so on. An operator whose comment begins with *Slip* is not part
of any specification: it is what the action below it would be with a plausible mistake in it, and
the property it is meant for fails with it.

| run | question | bounds |
|---|---|---|
| `capture_queue` | are slots owned by one thread, is each packet in one place, does a scan take the oldest packet it could have seen, is the drain complete; is a captured packet delivered, does Stop return | 2 threads, 2 slots; 3 packets and a session, or 2 and 2 |
| `on_consume_hook` | is the breakpoint back when nobody is in OnConsume; and undisturbed, is STR's code left as it was found, do calls go on returning from OnConsume | 2 receivers, packets without end, 2 sessions, control at any time |
| `receive_dispatch` | no wakeup is lost, Stop returns, the consumer is only called in a session, and the FIFO refines `OrderedDelivery`, its liveness included | 2 producers, a queue of 2, 4 messages, 2 sessions |
| `proxy_resolver` | is no mapping invented, does a listener miss none, does the worker's flush repair what lost a race | 2 STR threads, 2 connections, players and forms, 3 events |
| `proxy_resolver_stale` | *violated*: is a resolved form current once everything is quiet (`src/README.md:231`) | 1 thread and the worker |
| `chat_tunnel` | does every target and flag reach exactly its audience, whole and once, while a client leaves and a receive path stops, and does an accepted message arrive wherever no line of it was missed | 2 clients, one message each, a table of 1 |
| `broker` | is a running broker ready, does it keep its identity, does a message reach the listeners that stay, does every call return | 2 callers and the bridge's thread, 3 calls, 2 messages |
| `transport_capture` | what must have happened when the one-shot breakpoint ends STR or breaks a Send off, is no INT3 saved or left, does Stop undo everything, does the bootstrap get there | 1 STR thread, the plugin's sender, 2 sessions, 2 failures |
| `lifecycle_hooks` | what must have happened when a thread dies of its trace, does a trace find the publishing call, is the code STR's own afterwards | 2 threads, 2 hooks, 3 calls, 1 patch refused |
| `peer_sessions` | is a complete handshake mutual, do first meetings that last end in resolved proxies, does everybody become known | 2 clients; one may come back once, and may lack the resolver interface |
| `peer_sessions_ends` | *violated*: is the diagnostic worker there for the next session (`src/README.md:200`) | the same |
| `udp_network` | no echo, right tables, no endless relaying, and messages that get where they have a way to | 4 nodes configured in 4 ways, 1 or 2 events |

### CaptureQueue

Models Receive 699-758 and 946-1067 one atomic access at a time. A producer's `pc` goes
`idle -> probe -> copy -> number -> publish`; the dispatcher's through `top`, `scan` (one
slot per step, as `FindNextReadyCapture` does) and `release`; the controller's through `Start` and
`Stop` with the flags in the order the code sets them. A packet is the number of its arrival; what
its bytes say is abstracted to a choice (it is an STRPM chat packet or it is not, it can be read or it cannot).

Two threads and two slots let a reservation fail, wrap and race with a release; three packets in one
session fill the queue, two over two sessions let a session begin with the leftovers of the one before.

One history variable limits what is claimed. `overlapped` becomes true when `Stop` resets the
slots (Receive 1202-1207) while a handler still runs in one. Nothing in the code waits for a handler:
`RemoveVectoredExceptionHandler` does not, in general. Everything about the slots is claimed `~overlapped`.

### OnConsumeHook

Models the byte under the breakpoint. `PatchByte` (498-508) is three steps - make the page
writable and save its protection, write, put the protection back - for every thread that runs it; the
protection and the byte belong to the process. A receiver goes
`outside -> trapped -> restoring -> stepping -> stepped -> rearming -> outside`, or is
suppressed at once. A thread that meets another's INT3 while it steps over its own is `retrapped`: the single step is
still pending (1115-1116), and when a packet is suppressed then (the queue has room again), it is raised in the caller's code and writes INT3 once
more (1077-1083). A fault ends the process, and the model reaches it. Start and Stop come at any moment; the history variable
`disturbed` tells whether a receiver was in OnConsume while one of them ran, which is not how the plugin is
normally loaded and unloaded. That the system refuses a PatchByte is left to the two modules below.

Packets come without end; only the calls of Start are bounded. Two receivers are enough for each of the failures;
`HookSurvives` and `StopRestores` are proved for any number (below). `StopRestores` and `CallsGoThrough` are only claimed `~disturbed`: a single
step that read `g_breakpointArmed` before `Stop` cleared it writes INT3 after the restore, and when the next Start saves
that INT3 as the original byte, a packet that is stepped over traps again for ever.

No single call is promised an end. Two receivers have trapped; both restore; the first steps and writes INT3 again
(1080) before the second has run its instruction, so that the second traps again; the first's next packet
traps, restores, and so on. With enough traffic on one thread this can go on for ever with the other running all the
time. `CallsGoThrough` says what does hold: calls go on returning, or in the end nobody is in OnConsume;
the receivers cannot keep all of one another from it.

### ReceiveDispatch and OrderedDelivery

`OrderedDelivery` says what the FIFO promises: what is accepted is handed over one at a time in
order, and only the end of a session discards. `ReceiveDispatch` models Bridge 143-283 and the
parts of Start and Stop (1049-1121) that touch it: the section under the lock is one step,
the wait is three (`testing`, `falling asleep` with the lock still held, `asleep`), and the flag
`g_receiveDispatchRunning` changes outside the lock as in the code. The refinement mapping counts
the message the dispatcher has taken out and not yet handed over as still in the channel.

A queue of two and four messages fill it, drain it and fill it again; two producers (the code has
one) show that nothing depends on there being one.

### ProxyResolver

Models the two tables of Resolver 734-864 and the registry of Registry 38-199. Each section
under one of the two mutexes is a step; the registry calls a bridge function has collected, and the
listener calls a registry function has collected, are made one by one afterwards, as in the code. A consumer is
external: it believes the last event it was given.

Three events are a sender and a proxy in either order, on one connection or on two, and one more that
replaces, removes or disconnects what they made; the calls they leave behind interleave with the worker's
flush and a consumer that registers and leaves. What needs more events needs no new kind of step, and the
two safety properties are proved for any number.

The violation: `FlushMappings` collects a mapping under the mutex and reports it after releasing it; a
removal that gets between the two is undone by the late report, and no later flush takes a dead mapping
back.

### ChatTunnel, Reassembly and Fragmentation

`Fragmentation` is `BuildEnvelopes` (Bridge 858-910) as operators: a payload is the length of its hexadecimal
text, an envelope's payload an interval of it. `Reassembly` is `g_pending` (Receive 814-926) as operators on a
table: `Cleanups`, `EntryFor`, `Filled`, `AddFragment`, `Completes`. `ChatTunnel` puts them at the two ends
of the way of a message: `StartSend` draws the number and cuts, `SendFragment` is one native Send (any number of calls
of a client are in progress together), `Relay` is `onChatMessage` of `main.lua`, `Capture` and
`Deliver` are the receive path. STR's connection is external, reliable and in order unless the native Send
fails. The hook and the capture slots are here what their own models show them to be: at most
`CaptureSlots` fragments, taken in any order, and now and then one is missed (a packet beside one that is
stepped over, a full queue, a stopped receive path). Which entries an overfull table loses is any
choice, because the code takes the first of a hash table.

The metadata comparison (Receive 879-885) and the limit on the total (903-907) are in the model, but their
second branch is never taken: an id is never used twice by a sender, and `StartSend` refuses longer payloads, as
Send does (1123-1150). That the limit is out of reach for every message is part of the proof (`TextLength`).

`excused` is the history that says when a client may go without a message: a line of it was missed, it waited
longer than the lifetime, it was in a table of more than `MaxPending` entries, or the path was stopped. It is
computed from the code's constants and not from `Cleanups`, so that a wrong cleanup cannot excuse itself.
An envelope has room for two characters, so that sizes 0 to 3 give one part and two, exact and not, 5
is refused because it cannot be cut, and 6 because it is longer than `MaxPayloadChars`; a table of one
entry that may hold two is the smallest in which an eviction is a choice, and one message from each
of two clients is the least that mixes senders. All four invariants are proved for any number.

### TransportCapture

Models how the bridge comes up and goes down: `BootstrapLoop` with its search, arming and start of the
receive path, `CaptureTransportExceptionHandler` one access at a time on the thread that called, the
plugin's own calls of the same function (`InvokeTransportSendUnsafe` turns an exception into a failed Send), and
`Stop` in the order of its lines. Searches, patches and starts of the receive path may fail, and are tried again.
`PatchByte` (574-586) is its three steps for each of the threads that call it, on one page.

`OnlyMeetingsHarm` lists what has happened when STR's thread ends or a Send is broken off. All four are real,
and TLC reaches the end of STR by each of them alone:

- `met`: two callers were in the breakpoint at once. The one that loses the exchange of `g_breakpointArmed` is handed on
  as unhandled when the winner has cleared it; this plugin's Send may be the second, because the instance is
  published (611) before the byte is restored.
- `disturbed`: Stop took the breakpoint away under a caller.
- `overlapped`: two threads were in PatchByte. The bootstrap thread has written INT3 (580) and not yet put the protection
  back; one thread of STR traps, its handler makes the page writable (577), the bootstrap thread protects it
  again (584), the handler's write (580) faults. It takes one caller and no Stop.
- `refused`: VirtualProtect failed where the byte was to be put back (595 ignores the result): the INT3 stays with
  `g_breakpointArmed` false, and the next call traps with nobody to handle it.

So the property is not that the hook is harmless, but that nothing else harms: not the retries, not a second session,
not the order of the handler's steps against the bootstrap's. `BreakpointAccounted` and `StopUndoes` are about what is left behind,
where every patch that was begun was carried out (`Carried`: not refused, not broken off by a fault). Two sessions show that the
second starts from what the first left. One thread of STR is enough for each of the four, the plugin's sender being the second caller;
the three are proved for any number of threads, sessions and failures.

### LifecycleHooks

Models the breakpoints on STR's lifecycle functions: `ConfigureHooks` with its failure half way and the
retry, the installation of the step-over controller behind it, and both handlers. A traced function is six
instructions: the hook, a call that is stepped over, a plain one, another, a call whose arguments publish a mapping,
and the return; what is called is external and may call a hooked function. A thread is the stack of its instruction pointers, the
processor's trap flag is a variable, and the code bytes are everybody's.

`PatchByte` (Resolver 533-543) is three steps in every caller, the bootstrap thread and the two handlers alike, and the
system may refuse its first: the bootstrap then gives up the hook, a handler hands the INT3 on to nobody (Resolver 1015, Trace 214-218), does not arm
the hook again (Trace 153-154) or runs the call under the trap flag (Trace 138). Which functions share a page is STR's layout: one protection
stands for all, and a write after another thread's third step may fault or not.

`AloneIsSafe` says what a thread can die of, and TLC finds each: `met`, a thread that runs over another's one-shot dies of an
INT3 nobody owns; `nested`, a hooked call within a traced one ends the outer trace and leaves a single step nobody
owns; `overlapped`, the bootstrap thread, having armed a hook, puts the protection back (541) between the
VirtualProtect and the write (536-538) of the one game thread that has met the new INT3; `refused`. A thread that is alone, in one
call, with its patches granted and the bootstrap thread out of PatchByte, survives. `CodeAccounted` holds
with all of them. Seen while modelling: a publishing call directly behind a call that is stepped over is missed, because the
single step after the one-shot is raised behind it; and once an arming has failed half way `ConfigureHooks`
fails for good, because `ArmHook` returns false for a hook that is armed, so that the flush loop behind it is
never reached. The model has both; the instance puts a plain instruction between the calls, and with
`CallSites = {2, 3, 5}` instead TLC finds the trace that `TraceReports` excludes.

All three invariants are proved for any number of threads and hooks, any length of function and any calls in it:
`CodeAccounted` and `AloneIsSafe` as they are, with the three steps of PatchByte, `TraceReports` where the calls are apart and the steps last.

### PeerSessions

Models what two clients do with their sessions: the heartbeat of the identity worker, and
`RunDiagnosticSession` with the callback that runs beside it. Sessions begin and end between any two
polls; what was on its way when one ends is lost from some message on. The callback's
test of the session and its stores are two steps; its stores are one, and so are a test of the session and
the send behind it. Heartbeats arrive at once, since a slow one is as good as a later one; the proxy of a
player who is connected is published sooner or later (`ProxyResolver` says when).

The violation: `ResolvePeerProxy` gives up when it sees the session gone (199-203), and its caller looks a second
time: `return IsSTRSessionConnected() ? false : true;` (371). A session that is back by then ends the worker for good.
Without the ProxyResolver interface (190-194) `ResolvePeerProxy` returns false at once, and a worker whose session is still there ends at the same line; the
property leaves such clients out, since that failure is announced in the log, but no text of the repository says that it ends the tests.

Two clients, because the acknowledgement goes to everybody: with three, a client may take one for
another as its own, and the handshake is not mutual. A client whose
session comes back while its peer's goes on gets no second acknowledgement, and a disconnect shorter than a poll
is not noticed; `FirstMeetingResolves` therefore speaks of first sessions. What holds for any number of clients,
that a complete handshake has the acknowledgement of somebody who has observed somebody else, is proved, and
`CompleteIsMutual` from it for two.

### Broker

Models the default build of Runtime, without the UDP backend. A thread is the stack of the places it will
go on at, so that callbacks call the API again; `Start` is one step per thing it sets, because nothing keeps
two calls from running it together. `_listenerMutex` is free while listeners are called, `_logMutex` is held while the
log callback runs. The bridge is external: loading and starting it may fail until it has succeeded once; a module that
lacks the export or the interface (882-901, `usable`) lacks it for good.

`Starts` are the calls of Start that have found `_running` not set and have not returned. While two of them are under
way - in two threads, or one in a callback that the other has made - both make an identity, and the later one may
replace the identity under which the broker already runs. `IdentitySettles` says that this is what it takes:
once `_running` is set, no Start that overlapped with no other changes the identity. `raced` is the history
that remembers an overlap until nobody is starting.

Two such Starts also assign `_config` and `_instanceID` (496, 820), plain objects without a lock, which is a data race;
other threads read them. The model makes an identity in one step and keeps the mode constant: it says how many
identities are made and when, not what a torn one looks like.

The instance lets message callbacks call anything and a log callback register and unregister. With "send" among
`LogCallbackCalls` the property `EveryCallReturns` fails at once: `Start` logs before `_running` is set, the callback's
send starts the broker again, and that start waits for the mutex its own thread holds. No text of the repository says
what a log callback may do.

### UdpNetwork

Models the UDP backend, which the build leaves out by default: hellos, the peer table, sending, relaying,
delivery, expiry and restart, with datagrams lost and reordered. The four configurations are one node heard
by all, a star whose centre relays or does not, and a ring with three relays. A restarted node has a new identity
at its old endpoint; that is why `NoEcho` speaks of the identity a message was sent under.

A table has one entry per endpoint, so peers behind a relay overwrite each other there, and `TableIsRight` speaks of
networks without relays. A packet is relayed once, so `ReachesItsTarget` speaks of one relay at
most. Nothing removes duplicates.

## Disagreements with the documentation

Two are runs with findings (above). These were met while modelling as well; the models have the
behaviour:

- *Order of captures.* `src/README.md:182` says "the dispatcher processes them in capture order". The scan of
  `FindNextReadyCapture` (Receive 946-961) looks at one slot after the other: it has passed the slot of
  packet 1 when packets 1 and 2 are published, 2 in front of it, and takes 2. `SelectsOldestSeen` is
  what does hold.
- *Ordinary chat untouched.* `src/docs/OFFICIAL_STR_CHAT_TUNNEL.md:31` and `src/README.md:25`. Two receivers that trap together: one makes the page
  writable (501), the other puts the read-only protection back, the first writes (503) and faults. The same race can
  leave the page writable for good (506).
- *Transport packets do not appear as chat.* `src/README.md:25`. While one thread single-steps the original instruction (1112)
  the byte is restored for everybody, and a transport packet on another thread reaches the chat window.
- *Mapping events.* `src/README.md:235` offers them for following the mappings. The registry calls its listeners after it has released its mutex (Registry
  142); two such calls on two threads overtake each other, and a consumer is left with the older mapping.
- *Channel names.* `IsChannelSafe` (Bridge 829) accepts names that `validChannel` of `main.lua` refuses; such a message is
  accepted and disappears at the relay (`RelayChannels`).
- `RegisterPeer` (Runtime 1211) logs with `_peerMutex` held, as `Start` does with `_logMutex`.

## Fairness

Threads that are not waiting run on: weak fairness on each producer's, dispatcher's and controller's own
steps once begun. Nothing that comes from outside is fair: a packet, a lifecycle event, a call of
Start or Stop need never come, and a spurious wakeup cannot be relied on. In `OnConsumeHook` and `TransportCapture` fairness is per
thread and not per action, because the system schedules threads; in `ChatTunnel` a call of Send goes on, the
relay, STR's receive thread and the dispatcher run, and time, players and Stop are not fair; in `ProxyResolver` the
worker's flush is fair because it runs every second (`STRPMProxyResolverBootstrapV2.h` 301-315). In `Broker` threads
that are in a call run on; a callback makes some calls and returns. In `TransportCapture` the bootstrap thread runs, a Stop goes on once begun, and
some thread of STR calls Send while the breakpoint is there, because STR's own traffic passes that
function all the time. In `PeerSessions` the workers poll and the dispatcher delivers; no session has to begin
or end. In `UdpNetwork` the receiver loop takes what arrives; nothing has to be sent.

Runs set `CHECK_DEADLOCK FALSE`: every instance ends when its bounded packets, messages or
starts are used up.

## What is proved

For all values of the constants, by TLAPS, from the assumptions in each module (a capacity is positive, the
controller is not a receiver, a none value is not a value, STR's threads are finitely many). Every state invariant that a
passing run checks is a theorem. The type invariants of the first four components are proved and not run.

An invariant worth a theorem is seldom inductive. What was added to it stands in its `_proofs` module,
and TLC checked each addition as an invariant of the component's run before it was proved.

- **CaptureQueue_proofs.** `TypeCorrect`; then `SlotsAreOwned`, `OldestSeenIsSelected` and `StopDrains`
  from one inductive invariant, `IInv`. `SlotsOwned` alone is not inductive: that the dispatcher's
  selected slot stays ready needs the dispatcher to be the only one that frees ready slots
  (`Phases`), and the drain needs to know of each accepted packet where it waits and that a
  draining scan has seen it (`Drained`). `OneDestinationHolds` is about four places a packet can be in: with
  the thread that brought it, in a slot that waits, delivered, left to STR. `Located` says that
  packets are numbered, that a slot has what was copied into it (`Written`), and that the places
  do not overlap (`Distinct`, `Apart`, `NotPassed`) and leave no packet out (`Somewhere`); each
  step hands a packet on (`MovedIn`, `HandedBack`, `LeftToSTR`, ...), and at the end the sum of the cardinalities is one.
- **OnConsumeHook_proofs.** `TypeCorrect`, and `HookIsKept` for any number of receivers and with control at
  any moment. The strengthening, `HookKept`, says that in a session the byte is INT3 or some thread
  that restored it is on its way to write it again; the case to see is the receiver that
  finishes rearming while another one restores. `StopIsRestoring` needs `Restored`: undisturbed, nobody but
  the controller is about to write the byte while Start and Stop run, and the saved byte is STR's.
- **ReceiveDispatch_proofs.** `TypeCorrect`; `NoWakeupIsLost` and `ConsumerIsCalledInSession` from `Awake`,
  which ties the phase of Stop to the flag, the queue and the dispatcher; and `DeliversInOrder`,
  the safety half of the refinement: initial states map to initial states and each step to a step of
  `OrderedDelivery` or a stutter. Its lemmas say how a sequence with the message in hand in front
  of it behaves under Head, Tail and Append.
- **ProxyResolver_proofs.** `TypeCorrect`, `ListenersMissNothing` (inductive as it stands) and
  `NothingIsInvented`, from `AllKnown`: everything on its way to the registry or a consumer has been in the
  tables as well.
- **ProxyResolver_proofs, LifecycleHooks.** `CodeIsAccounted` from `Codes`. An armed hook has its INT3 or a thread that
  took it away and is about to put it back, being one step into the function or in the handler of
  that step, or the system has refused it (`Hooked`); every other INT3 is the one-shot of a thread that has the address on its stack, or
  is in the call before it (`Shots`). `Paged` says that without an overlap who writes may.
  `TraceIsSafeAlone` adds `Lonely`: with one thread in one call the trap flag is up
  only while a handler will own the step, and a one-shot is armed only while its thread runs towards it at full
  speed. `TracesReport` adds `Owing`: until it has reported, the trace stands before the first publishing call (`Before`) and
  has made fewer steps than instructions. Its two hypotheses are about STR's code and not about the resolver's: no call directly
  follows one that is stepped over (`CallsApart`), since `OneShot` resumes behind the first call and the second is entered under the
  trap flag before any handler has looked at it; and `MaxSteps` is at least `Length - 2` (`StepsEnough`; `kMaxTraceSteps` is
  50000, and a function of the model has no loop).
- **ChatTunnel_proofs.** First the cutting: `EnvelopesPartition`, the envelopes of a payload of any length carry its
  text end to end; `LegalPayloadsFit`, with the code's numbers (3500, 96, 64, 24 KiB, a prefix of at most 243
  characters) no payload is refused for its size and no envelope is too long. Both rest on the rounding of the
  division, `RoundsUp`. Then the way of a message, in three layers. `IInv` gives `TypeCorrect`, with the bound of
  `g_pending`, and `DeliversWhole`: the fragments in every queue are fragments of sent messages, a key names one message
  (`SentApart`), and an entry's parts are missing or in their place (`PendingPartial`). `Lines` puts each
  fragment at one place of its way to each receiver, and those of a call in order. `Accounts` relates, for each
  client, the table, what `AddFragment` has seen, what was excused and what was delivered: a message without an
  entry was delivered, excused, or nothing of it was handled; an entry has exactly the handled parts unless it was
  excused. `SizesLegal` with `TextLength` keeps `Completes` from refusing what is whole. From these follow
  `DeliversOnce`, whose counting is a bijection between deliveries and keys (`ManyKeys`), and
  `LosesNothingSilently`. `TextLength` is about a recursive sum and is not proved by
  induction: the sum has a closed form, and the least length at which the two differ is contradictory.
- **Broker_proofs.** `StartedIsReady` and `DeliversToListeners`, for any number of threads, calls and messages and
  whatever callbacks call. Both invariants are about everything on a thread's stack and not its top only, since a
  thread in a callback has an unfinished start or delivery below. The first (`Ready`) gives each place of `Start` what
  was done on the way to it (`Good`); the flags only rise, but for `_strBridgeAvailable`, which a second start takes down
  while it looks at the module (`Looking`). The second (`Told`) says that the listeners that stay are registered before
  the copy, and copied or called after it. `BrokerTypes` has the two facts the registry rests on as well, one
  listener per channel and no handle given out twice (`Registry`). `IdentityIsKept` is the
  action property `IdentitySettles`, from `Settled`: as long as no two Starts overlap there is at most one frame of Start on all the stacks
  (`Frames`), and so none is left between the test and the making of an identity when `_running` is set; afterwards
  the test lets none get there.
- **TransportCapture_proofs.** `CaptureIsAccounted`, and from it `MeetingsHarmOnly`, `BreakpointIsAccounted` and `StopUndoesAll`.
  `Accounted` says how far Start and Stop have got when a flag still stands (`Phases`); that without an overlap one thread at most
  is in PatchByte and finds the page writable when it writes (`Paged`); and, where patches are carried out,
  whose step puts the byte back (`Patched`), that a thread past the handler's tests has published the instance
  (`Handled`), and that a thread without company finds the breakpoint armed (`Alone`).
- **UdpNetwork_proofs.** `NothingEchoes`, for any configuration, any losses and restarts. Its strengthening says that a node
  that was given a message of its own has had another identity since (`OwnIsOld`); it needs that every datagram carries a message
  some identity up to the present one of its node sent (`Sent`). `TablesAreRight` needs of the network what it
  says of the tables (`Tables`): without relays a datagram comes from the endpoint of the message's sender.
- **UdpNetwork_proofs, PeerSessions.** `HandshakeIsAnswered`: `AckMeans` follows an acknowledgement from the worker that sends it,
  which has a peer, through the inbox and the two steps of the callback to `peerAck` and `complete`; it means at
  every place that its sender had observed another client, and whoever is observed stays so, across sessions. With two clients that other
  one is the receiver: `HandshakeIsMutual`.

Model-checked only: the liveness properties (`ReadyIsDelivered`, both `StopReturns`, `CallsGoThrough`,
`Converges`, `Arrives`, `EveryCallReturns`, `BecomesReady`, `FirstMeetingResolves`, `EverybodyIsKnown`, `TrafficSettles`,
`ReachesItsTarget`, the liveness half of `Implements`), which TLAPS cannot prove.

`ResolvesCurrent` and `NextSessionIsSeen` are violated, as their runs show.

## Not modelled

- *Chat UI suppression.* A breakpoint on the overlay's `ExecuteAsync` that is stepped over exactly like the one of
  `OnConsumeHook`. Its count of envelopes is fed by a probe at the OnConsume breakpoint that takes the packet's raw data for a
  reader; which states of that memory make it count is a property of STR's binary, so a model
  would only show what it was told. Its `Arm` writes INT3 before it sets `armed` (V3 536), the order that a
  slip of `TransportCapture` (`PatchThenArm`) shows to be fatal for a thread that calls in between.
- *Packet and hex codecs.* Pure conversions, each the inverse of one in STR's own code, which is not in the
  repository. The models take packets as decoded, and a text as its length.
- *Memory scanners.* Pure functions of another program's bytes. A search that fails is one step.
- *The relay's checks of hand-made envelopes* and the identity payload it fills in.
- *UDP signatures, targets by display name, the loopback copy and `requireKnownPeer`.* The first two are
  decided before anything is sent or stored, the last changes a result code.
- *Client loader, log files, SKSE metadata, the superseded `STRPMChatUiSuppressV2.h`* (which nothing includes), and the
  failure of system calls except where the code's handling of it changes state a property reads.
- *The memory order of the atomics.* The models are sequentially consistent: every cross-thread read a property
  relies on is an acquire of a release in the code (slot states), made under a mutex, or of a value written once.
