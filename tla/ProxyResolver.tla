---------------------------- MODULE ProxyResolver ---------------------------
(***************************************************************************)
(* The ProxyResolver: which actor on this machine stands for the player    *)
(* behind an STR connection.  The bridge (STRPMProxyResolverBridge.h)      *)
(* joins two tables under g_mappingMutex - connection to player, from the  *)
(* relay's metadata, and player to form, from the lifecycle hooks - and    *)
(* reports the result to the registry of STRPluginMessagingAPI.dll         *)
(* (STRPMProxyResolverRuntime.h), which has a mutex of its own and calls   *)
(* its listeners outside it.                                               *)
(*                                                                         *)
(* The two mutexes are never held together: a bridge function collects     *)
(* calls under the first, and makes them one by one after it is released.  *)
(* Each section under a mutex, and each callback, is an action.            *)
(***************************************************************************)
EXTENDS Integers, FiniteSets

CONSTANTS
    STRThreads,   \* STR's threads, which run the lifecycle hooks
    Worker,       \* the resolver's own thread, which flushes every second
    Connections, Players, Forms,
    NoPlayer, NoForm, NoEvent,
    Listeners,    \* the <<callback, userData>> pairs of the consumers
    MaxEvents     \* bound: lifecycle and identity events that STR raises

ASSUME WorkerAssumption == Worker \notin STRThreads
ASSUME BoundAssumption  == MaxEvents \in Nat

Threads   == STRThreads \union {Worker}
MaybeForm == Forms \union {NoForm}

Mapping == Connections \X Forms
Call  == [op : {"report"}, connection : Connections, form : Forms]
           \union [op : {"remove"}, connection : Connections]
           \union {[op |-> "clear"]}
Event == [type : {"added", "removed"}, connection : Connections, form : Forms]
           \union {[type |-> "cleared"]}

ASSUME NoneAssumption == /\ NoPlayer \notin Players /\ NoForm \notin Forms
                         /\ NoEvent \notin Event

VARIABLES
    connectionToPlayer,  \* g_connectionToPlayer
    playerToForm,        \* g_playerToForm
    calls,               \* the registry calls each thread has still to make
    mappings,            \* Registry::_mappings
    listeners,           \* Registry::_listeners
    event,               \* the event each thread is passing to listeners
    toNotify,            \* its copy of the listeners, less those called
    snapshot,            \* what RegisterListener has still to pass on
    view,                \* external: the mappings each consumer believes in
    heard,               \* history: what a listener heard since it registered
    known,               \* history: every mapping the bridge's tables held
    events               \* bound: STR events so far

tables   == <<connectionToPlayer, playerToForm>>
registry == <<mappings, listeners>>
consumers == <<snapshot, view, heard>>
vars == <<tables, calls, registry, event, toNotify, consumers, known, events>>

Init ==
    /\ connectionToPlayer = [c \in Connections |-> NoPlayer]
    /\ playerToForm = [p \in Players |-> NoForm]
    /\ calls = [t \in Threads |-> {}]
    /\ mappings = [c \in Connections |-> NoForm]
    /\ listeners = {}
    /\ event = [t \in Threads |-> NoEvent]
    /\ toNotify = [t \in Threads |-> {}]
    /\ snapshot = [l \in Listeners |-> {}]
    /\ view = [l \in Listeners |-> [c \in Connections |-> NoForm]]
    /\ heard = [l \in Listeners |-> {}]
    /\ known = {}
    /\ events = 0
-----------------------------------------------------------------------------
(* The bridge's side.  A thread is idle when its last function returned.   *)

Idle(t) == calls[t] = {} /\ event[t] = NoEvent

(* The form of a connection, as the two tables join to it.                 *)
Current(c) == IF connectionToPlayer[c] = NoPlayer THEN NoForm
                 ELSE playerToForm[connectionToPlayer[c]]

ConnectionsOf(p) == {c \in Connections : connectionToPlayer[c] = p}
ReportAll(C, f)  == {[op |-> "report", connection |-> c, form |-> f] : c \in C}
ReportOf(c)      == [op |-> "report", connection |-> c, form |-> Current(c)]
RemoveAll(C)     == {[op |-> "remove", connection |-> c] : c \in C}

(* What the tables hold after a step is history.                           *)
Remember ==
    known' = known \union
        {m \in Mapping : m[2] = Current(m[1])'}

(* A hook of STR's thread runs one of the functions below.                 *)
STREvent(t) == Idle(t) /\ events < MaxEvents /\ events' = events + 1

(* A relayed packet names its sender's connection and player.              *)
ObserveSender(t, c, p) ==
    LET form    == playerToForm[p]
        changed == connectionToPlayer[c] \notin {NoPlayer, p}
    IN  /\ STREvent(t)
        /\ connectionToPlayer' = [connectionToPlayer EXCEPT ![c] = p]
        /\ calls' = [calls EXCEPT ![t] =
                        IF form # NoForm THEN ReportAll({c}, form)
                        ELSE IF changed THEN RemoveAll({c}) ELSE {}]
        /\ UNCHANGED <<playerToForm, registry, event, toNotify, consumers>>
        /\ Remember

(* A slip: every connection gets the form, whoever its player is.          *)
ObservePlayerProxyAll(t, p, f) ==
    /\ STREvent(t)
    /\ playerToForm' = [playerToForm EXCEPT ![p] = f]
    /\ calls' = [calls EXCEPT ![t] = ReportAll(Connections, f)]
    /\ UNCHANGED <<connectionToPlayer, registry, event, toNotify, consumers>>
    /\ Remember

(* A remote player's actor was loaded ...                                  *)
ObservePlayerProxy(t, p, f) ==
    /\ STREvent(t)
    /\ playerToForm' = [playerToForm EXCEPT ![p] = f]
    /\ calls' = [calls EXCEPT ![t] = ReportAll(ConnectionsOf(p), f)]
    /\ UNCHANGED <<connectionToPlayer, registry, event, toNotify, consumers>>
    /\ Remember

(* ... or unloaded.                                                        *)
RemovePlayerProxy(t, p) ==
    /\ STREvent(t) /\ playerToForm[p] # NoForm
    /\ playerToForm' = [playerToForm EXCEPT ![p] = NoForm]
    /\ calls' = [calls EXCEPT ![t] = RemoveAll(ConnectionsOf(p))]
    /\ UNCHANGED <<connectionToPlayer, registry, event, toNotify, consumers, known>>

(* STR disconnected.                                                       *)
ClearMappings(t) ==
    /\ STREvent(t)
    /\ connectionToPlayer' = [c \in Connections |-> NoPlayer]
    /\ playerToForm' = [p \in Players |-> NoForm]
    /\ calls' = [calls EXCEPT ![t] = {[op |-> "clear"]}]
    /\ UNCHANGED <<registry, event, toNotify, consumers, known>>

(* A slip: only what the registry does not know yet is reported.           *)
FlushMappingsMissing ==
    /\ Idle(Worker)
    /\ calls' = [calls EXCEPT ![Worker] =
                    {ReportOf(c) : c \in {d \in Connections : /\ Current(d) # NoForm
                                                             /\ mappings[d] = NoForm}}]
    /\ UNCHANGED <<tables, registry, event, toNotify, consumers, known, events>>

(* Once a second the worker reports every mapping the tables hold.         *)
FlushMappings ==
    /\ Idle(Worker)
    /\ calls' = [calls EXCEPT ![Worker] =
                    {ReportOf(c) : c \in {d \in Connections : Current(d) # NoForm}}]
    /\ UNCHANGED <<tables, registry, event, toNotify, consumers, known, events>>
-----------------------------------------------------------------------------
(* The registry's side.  A thread makes its next call when the callbacks   *)
(* of the one before have returned.                                        *)

Makes(t, k) == /\ event[t] = NoEvent /\ k \in calls[t]
               /\ calls' = [calls EXCEPT ![t] = @ \ {k}]
               /\ UNCHANGED <<tables, listeners, consumers, known, events>>

Raise(t, e) ==
    /\ toNotify' = [toNotify EXCEPT ![t] = listeners]
    /\ event' = [event EXCEPT ![t] = IF listeners = {} THEN NoEvent ELSE e]

RaiseNothing == UNCHANGED <<event, toNotify>>

Mapped(c, f) == [type |-> "added", connection |-> c, form |-> f]
Removed(c)   == [type |-> "removed", connection |-> c, form |-> mappings[c]]

(* A slip: only a new connection is announced, not a change of its form.   *)
ReportAddedOnly(t, c, f) ==
    /\ Makes(t, [op |-> "report", connection |-> c, form |-> f])
    /\ mappings' = [mappings EXCEPT ![c] = f]
    /\ IF mappings[c] = NoForm THEN Raise(t, Mapped(c, f)) ELSE RaiseNothing

(* A mapping is added or its form changes; the same again is no news.      *)
Report(t, c, f) ==
    /\ Makes(t, [op |-> "report", connection |-> c, form |-> f])
    /\ mappings' = [mappings EXCEPT ![c] = f]
    /\ IF mappings[c] # f THEN Raise(t, Mapped(c, f)) ELSE RaiseNothing

Remove(t, c) ==
    /\ Makes(t, [op |-> "remove", connection |-> c])
    /\ mappings' = [mappings EXCEPT ![c] = NoForm]
    /\ IF mappings[c] # NoForm THEN Raise(t, Removed(c)) ELSE RaiseNothing

Clear(t) ==
    /\ Makes(t, [op |-> "clear"])
    /\ mappings' = [c \in Connections |-> NoForm]
    /\ IF \E c \in Connections : mappings[c] # NoForm
         THEN Raise(t, [type |-> "cleared"]) ELSE RaiseNothing

(* What a consumer makes of an event.                                      *)
Believe(v, e) ==
    CASE e.type = "added"   -> [v EXCEPT ![e.connection] = e.form]
      [] e.type = "removed" -> [v EXCEPT ![e.connection] = NoForm]
      [] e.type = "cleared" -> [c \in Connections |-> NoForm]
HeardIn(e) == IF e.type = "added" THEN {<<e.connection, e.form>>} ELSE {}

(* One callback, outside the registry's mutex.                             *)
Notify(t, l) ==
    /\ event[t] # NoEvent /\ l \in toNotify[t]
    /\ view' = [view EXCEPT ![l] = Believe(@, event[t])]
    /\ heard' = [heard EXCEPT ![l] = @ \union HeardIn(event[t])]
    /\ toNotify' = [toNotify EXCEPT ![t] = @ \ {l}]
    /\ event' = [event EXCEPT ![t] = IF toNotify'[t] = {} THEN NoEvent ELSE @]
    /\ UNCHANGED <<tables, calls, registry, snapshot, known, events>>

MakeCall(t) ==
    \/ \E c \in Connections, f \in Forms : Report(t, c, f)
    \/ \E c \in Connections : Remove(t, c)
    \/ Clear(t)
    \/ \E l \in Listeners : Notify(t, l)
-----------------------------------------------------------------------------
(* The consumers' side.                                                    *)

KnownMappings == {m \in Mapping : mappings[m[1]] = m[2]}

(* A slip: the snapshot is left out.                                       *)
RegisterListenerNoSnapshot(l) ==
    /\ snapshot[l] = {}
    /\ listeners' = listeners \union {l}
    /\ heard' = [heard EXCEPT ![l] = {}]
    /\ UNCHANGED <<tables, calls, mappings, event, toNotify, snapshot, view, known, events>>

(* A listener is added, unless it is there, and the mappings are copied    *)
(* under one lock; the copy is passed on without it.  A consumer that      *)
(* registers, or registers again, starts with no mappings.                 *)
RegisterListener(l) ==
    /\ snapshot[l] = {}
    /\ listeners' = listeners \union {l}
    /\ snapshot' = [snapshot EXCEPT ![l] = KnownMappings]
    /\ heard' = [heard EXCEPT ![l] = {}]
    /\ view' = [view EXCEPT ![l] = [c \in Connections |-> NoForm]]
    /\ UNCHANGED <<tables, calls, mappings, event, toNotify, known, events>>

PassSnapshot(l) ==
    \E m \in snapshot[l] :
        /\ snapshot' = [snapshot EXCEPT ![l] = @ \ {m}]
        /\ view' = [view EXCEPT ![l] = Believe(@, Mapped(m[1], m[2]))]
        /\ heard' = [heard EXCEPT ![l] = @ \union {m}]
        /\ UNCHANGED <<tables, calls, registry, event, toNotify, known, events>>

(* A callback that is already due still comes.                             *)
UnregisterListener(l) ==
    /\ l \in listeners /\ snapshot[l] = {}
    /\ listeners' = listeners \ {l}
    /\ UNCHANGED <<tables, calls, mappings, event, toNotify, consumers, known, events>>

Next ==
    \/ \E t \in STRThreads :
         \/ \E c \in Connections, p \in Players : ObserveSender(t, c, p)
         \/ \E p \in Players, f \in Forms : ObservePlayerProxy(t, p, f)
         \/ \E p \in Players : RemovePlayerProxy(t, p)
         \/ ClearMappings(t)
    \/ FlushMappings
    \/ \E t \in Threads : MakeCall(t)
    \/ \E l \in Listeners : RegisterListener(l) \/ PassSnapshot(l) \/ UnregisterListener(l)

(* Threads run on, and the worker's loop flushes again and again.          *)
Fairness == /\ \A t \in Threads : WF_vars(MakeCall(t))
            /\ WF_vars(FlushMappings)

Spec == Init /\ [][Next]_vars /\ Fairness
-----------------------------------------------------------------------------
(* Properties.                                                             *)

(* The type invariant, which ProxyResolver_proofs proves.                  *)
TypeOK ==
    /\ connectionToPlayer \in [Connections -> Players \union {NoPlayer}]
    /\ playerToForm \in [Players -> MaybeForm]
    /\ calls \in [Threads -> SUBSET Call]
    /\ mappings \in [Connections -> MaybeForm]
    /\ listeners \subseteq Listeners
    /\ event \in [Threads -> Event \union {NoEvent}]
    /\ toNotify \in [Threads -> SUBSET Listeners]
    /\ snapshot \in [Listeners -> SUBSET Mapping]
    /\ view \in [Listeners -> [Connections -> MaybeForm]]
    /\ heard \in [Listeners -> SUBSET Mapping]
    /\ known \subseteq Mapping
    /\ events \in Nat

(* However events race, the registry and the consumers only ever hold a    *)
(* mapping that the bridge's two tables held together at some moment: two  *)
(* halves of different players are never put together.                     *)
NeverInvented ==
    \A c \in Connections :
        /\ mappings[c] # NoForm => <<c, mappings[c]>> \in known
        /\ \A l \in Listeners : view[l][c] # NoForm => <<c, view[l][c]>> \in known

(* A registered listener misses no mapping: it has heard of each one that  *)
(* is in the registry, or a thread is about to tell it.                    *)
AboutToHear(l, c, f) ==
    \/ <<c, f>> \in snapshot[l]
    \/ \E t \in Threads : l \in toNotify[t] /\ event[t] = Mapped(c, f)
NoMappingMissed ==
    \A l \in listeners, c \in Connections :
        mappings[c] # NoForm =>
            <<c, mappings[c]>> \in heard[l] \/ AboutToHear(l, c, mappings[c])

(* The flush repairs what lost a race: a form that stays the form of a     *)
(* connection is in the end what resolve returns, and stays it.            *)
Converges ==
    \A c \in Connections, f \in Forms :
        <>[](Current(c) = f) => <>[](mappings[c] = f)

Quiet == \A t \in Threads : Idle(t)

(* README.md: after kOk from resolve, "formID is the local Skyrim Actor    *)
(* proxy for that remote STR player".  A report that was collected before  *)
(* a removal or a disconnect and made after it leaves a mapping no later   *)
(* flush takes back.                                                       *)
ResolvesCurrent ==
    Quiet => \A c \in Connections : mappings[c] \in {NoForm, Current(c)}
-----------------------------------------------------------------------------
(* The invariant behind NeverInvented: whatever is on its way to the       *)
(* registry or to a consumer has been in the tables too.                   *)
AllKnown ==
    /\ \A c \in Connections : Current(c) # NoForm => <<c, Current(c)>> \in known
    /\ \A t \in Threads, c \in Connections, f \in Forms :
         /\ [op |-> "report", connection |-> c, form |-> f] \in calls[t] => <<c, f>> \in known
         /\ event[t] = Mapped(c, f) => <<c, f>> \in known
    /\ \A l \in Listeners : snapshot[l] \subseteq known
    /\ NeverInvented
=============================================================================
