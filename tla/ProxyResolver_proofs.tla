------------------------ MODULE ProxyResolver_proofs ------------------------
(* Proofs about ProxyResolver, for any threads, connections, players,      *)
(* forms and listeners and any number of events; and before them, about    *)
(* LifecycleHooks, whose traces are what fills the resolver's tables.      *)
EXTENDS ProxyResolver, LifecycleHooks, FiniteSetTheorems, TLAPS

-----------------------------------------------------------------------------
(* LifecycleHooks, for any number of STR's threads, hooks and calls.       *)
Address == UNION {{h} \X (1 .. Last(h)) : h \in Hook}
Bytes   == {"code", "int3"}

Exceptions == {"none", "one-shot", "hook", "step", "trace", "arming"}

BytesOK == /\ byte = [h \in Hook |-> byte[h]]
           /\ \A h \in Hook : byte[h] \in [1 .. Last(h) -> Bytes]
HooksOK ==
    /\ saved \in [Hook -> Bytes] /\ armed \in [Hook -> BOOLEAN]
    /\ resolver \in BOOLEAN /\ controller \in BOOLEAN
    /\ wpc \in {"configure", "arm", "patch", "flushing"} /\ next \in Nat
    /\ wpc = "patch" => next \in DOMAIN Hooks
ThreadsOK ==
    /\ at \in [GameThreads -> Seq(Address \union {Nowhere})]
    /\ tf \in [GameThreads -> BOOLEAN] /\ owed \in [GameThreads -> BOOLEAN]
    /\ exception \in [GameThreads -> Exceptions]
    /\ rearm \in [GameThreads -> Hook \union {Nowhere}]
    /\ trace \in [GameThreads -> Traced \union {Nowhere}]
    /\ steps \in [GameThreads -> Nat]
    /\ over \in [GameThreads -> Address \union {Nowhere}]
    /\ overSaved \in [GameThreads -> {"code"}]

PagesOK ==
    /\ writable \in BOOLEAN /\ kept \in [Patchers -> BOOLEAN]
    /\ patch \in [Patchers -> {"none", "open", "done"}]

LHTyped == BytesOK /\ HooksOK /\ ThreadsOK

(* The first bytes.  A hook that is armed and not just being patched has   *)
(* its INT3, or a thread that took it away is on its way to put it back,   *)
(* or the system has refused that to one.                                  *)
Patching(h) == wpc = "patch" /\ Hooks[next] = h
Stepping(t) ==
    \/ exception[t] = "step"
    \/ /\ exception[t] \in {"none", "hook"} /\ tf[t]
       /\ at[t] # <<>> /\ Head(at[t]) = <<rearm[t], 1>>
Entering(t) ==
    /\ at[t] # <<>> /\ InCode(t) /\ Position(t) = 1
    /\ armed[Function(t)] /\ ~Patching(Function(t))

Hooked ==
    /\ \A h \in Hook :
         /\ saved[h] = "code"
         /\ armed[h] => resolver
         /\ Patching(h) => armed[h]
         /\ byte[h][1] = "int3" => armed[h] /\ ~Patching(h)
         /\ armed[h] /\ ~Patching(h) =>
              \/ byte[h][1] = "int3" \/ "step" \in refused
              \/ \E t \in GameThreads : rearm[t] = h
    /\ \A t \in GameThreads : rearm[t] # Nowhere =>
         armed[rearm[t]] /\ ~Patching(rearm[t]) /\ Stepping(t)
    /\ \A t \in GameThreads : exception[t] = "hook" => Entering(t)
    /\ wpc # "configure" => resolver

(* The other bytes.  An INT3 among them is the one-shot of a thread that   *)
(* has the address before it, in the call or in the stack of the callee.   *)
On(s, a) == \E i \in DOMAIN s : s[i] = a
Calling(t, a) ==
    at[t] # <<>> /\ InCode(t) /\ AtCall(t) /\ a = <<Function(t), Position(t) + 1>>
Awaits(t, a)  == over[t] = a /\ (On(at[t], a) \/ Calling(t, a))

Aims(t) ==
    /\ exception[t] = "arming" =>
         at[t] # <<>> /\ InCode(t) /\ AtCall(t) /\ over[t] = Nowhere /\ controller
    /\ exception[t] = "one-shot" => at[t] # <<>> /\ InCode(t) /\ over[t] = Head(at[t])
    /\ over[t] # Nowhere => over[t][2] > 1 /\ controller

Shots ==
    /\ \A t \in GameThreads : Aims(t)
    /\ \A h \in Hook : \A i \in 2 .. Last(h) :
         byte[h][i] = "int3" => \E t \in GameThreads : Awaits(t, <<h, i>>)

(* A thread alone, in one call of a hooked function.  Its trap flag is up  *)
(* only while a handler waits for it, and while its one-shot is armed it   *)
(* runs at full speed towards it.                                          *)
Undisturbed == ~met /\ ~nested
Here(t, a)  == at[t] = <<a>>
There(t, a) == at[t] = <<Nowhere, a>>

Expected(t) == rearm[t] # Nowhere \/ trace[t] # Nowhere
Alone(t) ==
    /\ at[t] = <<>> \/ \E a \in Address : Here(t, a) \/ There(t, a)
    /\ exception[t] \in {"none", "step"} /\ tf[t] => Expected(t)
    /\ exception[t] = "none" /\ tf[t] => at[t] # <<>>
    /\ exception[t] \in {"step", "trace"} => tf[t]
    /\ exception[t] = "arming" => trace[t] # Nowhere
    /\ over[t] # Nowhere =>
         /\ exception[t] \in {"none", "one-shot"} /\ ~tf[t] /\ trace[t] # Nowhere
         /\ byte[over[t][1]][over[t][2]] = "int3"
         /\ \/ Here(t, over[t]) \/ There(t, over[t])
            \/ Calling(t, over[t]) /\ Len(at[t]) = 1

Harmed == overlapped \/ refused \intersect {"one-shot", "hook"} # {}

Lonely ==
    Undisturbed =>
        /\ crashed => Harmed
        /\ \A s, t \in GameThreads : Busy(s) /\ Busy(t) => s = t
        /\ \A t \in GameThreads : Alone(t)

(* As long as no two PatchBytes overlapped, whoever is about to write may. *)
Paged ==
    ~overlapped =>
        /\ \A p, q \in Patchers : patch[p] # "none" /\ patch[q] # "none" => p = q
        /\ \A p \in Patchers : patch[p] = "open" => writable

(* A trace that still owes its report: it has not passed a publishing call,*)
(* and has not used up its steps.                                          *)
Before(p) == p \in 1 .. Length /\ Publishing # {} /\ \A q \in Publishing : p <= q
SteppedOver == CallSites \ Publishing

Coming(t, h, p) ==
    \/ /\ exception[t] \in {"none", "hook"} /\ tf[t] /\ over[t] = Nowhere
       /\ Here(t, <<h, p>>) /\ p \notin CallSites /\ steps[t] <= p - 1
    \/ /\ exception[t] \in {"step", "trace"} /\ tf[t] /\ over[t] = Nowhere
       /\ Here(t, <<h, p>>) /\ steps[t] <= p - 2
    \/ /\ exception[t] = "arming" /\ tf[t] /\ over[t] = Nowhere
       /\ Here(t, <<h, p>>) /\ p \in SteppedOver /\ steps[t] <= p - 1
    \/ /\ exception[t] \in {"none", "one-shot"} /\ ~tf[t] /\ over[t] = <<h, p + 1>>
       /\ Here(t, <<h, p>>) \/ There(t, <<h, p + 1>>) \/ Here(t, <<h, p + 1>>)
       /\ p \in SteppedOver /\ steps[t] <= p - 1

Reporting(t) ==
    /\ controller
    /\ \E h \in Traced : \E p \in 1 .. Length : trace[t] = h /\ Before(p) /\ Coming(t, h, p)

Owing ==
    Undisturbed /\ "arming" \notin refused => \A t \in GameThreads : owed[t] => Reporting(t)

(* What a report asks of the code: no call is stepped over that has        *)
(* another call behind it, and the steps last for the function.            *)
CallsApart  == \A c \in SteppedOver : c + 1 \notin CallSites
StepsEnough == Length - 2 <= MaxSteps

LEMMA Addresses ==
    ASSUME NEW a \in Address
    PROVE  /\ a[1] \in Hook /\ a[2] \in 1 .. Last(a[1]) /\ a = <<a[1], a[2]>>
           /\ a[2] \in Nat /\ a # Nowhere
  <1>1. PICK h \in Hook : a \in {h} \X (1 .. Last(h))
    BY DEF Address
  <1>2. Last(h) \in Nat
    BY CodeAssumption DEF Last
  <1>3. a \in Hook \X Nat
    BY <1>1, <1>2
  <1>4. QED
    BY <1>1, <1>2, <1>3, HookAssumption

LEMMA AnAddress ==
    ASSUME NEW h \in Hook, NEW i \in 1 .. Last(h) PROVE <<h, i>> \in Address
  BY DEF Address

LEMMA Lasts == ASSUME NEW h \in Hook PROVE Last(h) \in Nat /\ 1 \in 1 .. Last(h)
  BY CodeAssumption DEF Last

LEMMA Names == \A h \in Hook : h # Nowhere
  BY HookAssumption

(* A stack whose top is replaced, by one address or by two, or taken off.  *)
LEMMA Replaced ==
    ASSUME NEW S, NEW s \in Seq(S), s # <<>>, NEW b \in S
    PROVE  /\ <<b>> \o Tail(s) \in Seq(S)
           /\ <<b>> \o Tail(s) # <<>> /\ Head(<<b>> \o Tail(s)) = b
           /\ On(<<b>> \o Tail(s), b)
           /\ \A a : On(s, a) /\ a # Head(s) => On(<<b>> \o Tail(s), a)
  <1> DEFINE r == <<b>> \o Tail(s)
  <1>1. /\ r \in Seq(S) /\ Len(r) = Len(s) /\ Len(s) >= 1
        /\ r[1] = b /\ \A i \in 2 .. Len(s) : r[i] = s[i]
    OBVIOUS
  <1> HIDE DEF r
  <1>2. ASSUME NEW a, On(s, a), a # Head(s) PROVE On(r, a)
    <2>1. PICK i \in DOMAIN s : s[i] = a
      BY <1>2 DEF On
    <2>2. i \in 2 .. Len(s)
      BY <1>2, <2>1
    <2>3. i \in DOMAIN r /\ r[i] = a
      BY <1>1, <2>1, <2>2
    <2>4. QED
      BY <2>3 DEF On
  <1>3. 1 \in DOMAIN r /\ r # <<>> /\ Head(r) = b
    BY <1>1
  <1>4. QED
    BY <1>1, <1>2, <1>3 DEF On, r

LEMMA Called ==
    ASSUME NEW S, NEW s \in Seq(S), s # <<>>, NEW b \in S, NEW c \in S
    PROVE  /\ <<b, c>> \o Tail(s) \in Seq(S)
           /\ <<b, c>> \o Tail(s) # <<>> /\ Head(<<b, c>> \o Tail(s)) = b
           /\ On(<<b, c>> \o Tail(s), c)
           /\ \A a : On(s, a) /\ a # Head(s) => On(<<b, c>> \o Tail(s), a)
  <1> DEFINE r == <<b, c>> \o Tail(s)
  <1>1. /\ r \in Seq(S) /\ Len(r) = Len(s) + 1 /\ Len(s) >= 1
        /\ r[1] = b /\ r[2] = c /\ \A i \in 2 .. Len(s) : r[i + 1] = s[i]
    OBVIOUS
  <1> HIDE DEF r
  <1>2. ASSUME NEW a, On(s, a), a # Head(s) PROVE On(r, a)
    <2>1. PICK i \in DOMAIN s : s[i] = a
      BY <1>2 DEF On
    <2>2. i \in 2 .. Len(s)
      BY <1>2, <2>1
    <2>3. i + 1 \in DOMAIN r /\ r[i + 1] = a
      BY <1>1, <2>1, <2>2
    <2>4. QED
      BY <2>3 DEF On
  <1>3. 2 \in DOMAIN r /\ r # <<>> /\ Head(r) = b
    BY <1>1
  <1>4. QED
    BY <1>1, <1>2, <1>3 DEF On, r

LEMMA Returned ==
    ASSUME NEW S, NEW s \in Seq(S), s # <<>>
    PROVE  /\ Tail(s) \in Seq(S)
           /\ \A a : On(s, a) /\ a # Head(s) => On(Tail(s), a)
  <1>1. Tail(s) \in Seq(S) /\ Len(Tail(s)) = Len(s) - 1 /\ \A i \in 2 .. Len(s) : Tail(s)[i - 1] = s[i]
    OBVIOUS
  <1>2. ASSUME NEW a, On(s, a), a # Head(s) PROVE On(Tail(s), a)
    <2>1. PICK i \in DOMAIN s : s[i] = a
      BY <1>2 DEF On
    <2>2. i \in 2 .. Len(s)
      BY <1>2, <2>1
    <2>3. i - 1 \in DOMAIN Tail(s) /\ Tail(s)[i - 1] = a
      BY <1>1, <2>1, <2>2
    <2>4. QED
      BY <2>3 DEF On
  <1>3. QED
    BY <1>1, <1>2

LEMMA Pushed ==
    ASSUME NEW S, NEW s \in Seq(S), NEW b \in S
    PROVE  /\ <<b>> \o s \in Seq(S) /\ <<b>> \o s # <<>> /\ Head(<<b>> \o s) = b
           /\ \A a : On(s, a) => On(<<b>> \o s, a)
  <1> DEFINE r == <<b>> \o s
  <1>1. /\ r \in Seq(S) /\ Len(r) = Len(s) + 1 /\ r[1] = b
        /\ \A i \in 1 .. Len(s) : r[i + 1] = s[i]
    OBVIOUS
  <1> HIDE DEF r
  <1>2. ASSUME NEW a, On(s, a) PROVE On(r, a)
    <2>1. PICK i \in DOMAIN s : s[i] = a
      BY <1>2 DEF On
    <2>2. i \in 1 .. Len(s)
      BY <2>1
    <2>3. i + 1 \in DOMAIN r /\ r[i + 1] = a
      BY <1>1, <2>1, <2>2
    <2>4. QED
      BY <2>3 DEF On
  <1>3. r # <<>> /\ Head(r) = b
    BY <1>1
  <1>4. QED
    BY <1>1, <1>2, <1>3 DEF r

LEMMA EmptyStack == \A s, a : s = <<>> => ~On(s, a)
  BY DEF On

(* Where a thread is that runs in a hooked function.                       *)
LEMMA HeadOf ==
    ASSUME LHTyped, NEW t \in GameThreads, at[t] # <<>>
    PROVE  /\ at[t] \in Seq(Address \union {Nowhere})
           /\ Head(at[t]) \in Address \union {Nowhere}
           /\ On(at[t], Head(at[t]))
  <1>1. at[t] \in Seq(Address \union {Nowhere})
    BY DEF LHTyped, ThreadsOK
  <1>2. 1 \in DOMAIN at[t] /\ at[t][1] = Head(at[t]) /\ at[t][1] \in Address \union {Nowhere}
    BY <1>1
  <1>3. QED
    BY <1>1, <1>2 DEF On

LEMMA WhereItRuns ==
    ASSUME LHTyped, NEW t \in GameThreads, InCode(t)
    PROVE  /\ at[t] # <<>> /\ Head(at[t]) # Nowhere
           /\ Function(t) \in Hook /\ Position(t) \in 1 .. Last(Function(t))
           /\ Position(t) \in Nat /\ Head(at[t]) = <<Function(t), Position(t)>>
           /\ AtCall(t) => Position(t) >= 2 /\ Position(t) + 1 \in 1 .. Last(Function(t))
  <1>1. at[t] # <<>> /\ Head(at[t]) # Nowhere /\ Head(at[t]) \in Address
    BY HeadOf DEF InCode
  <1>2. /\ Function(t) \in Hook /\ Position(t) \in 1 .. Last(Function(t))
        /\ Position(t) \in Nat /\ Head(at[t]) = <<Function(t), Position(t)>>
    BY <1>1, Addresses DEF Function, Position
  <1>3. ASSUME AtCall(t) PROVE Position(t) >= 2 /\ Position(t) + 1 \in 1 .. Last(Function(t))
    BY <1>2, <1>3, CodeAssumption DEF AtCall, Last
  <1>4. QED
    BY <1>1, <1>2, <1>3

(* PatchByte: one byte of one instruction.                                 *)
LEMMA Patched ==
    ASSUME BytesOK, NEW h \in Hook, NEW i \in 1 .. Last(h), NEW b \in Bytes,
           byte' = [byte EXCEPT ![h][i] = b]
    PROVE  /\ BytesOK'
           /\ \A g \in Hook : \A j \in 1 .. Last(g) :
                byte'[g][j] = IF g = h /\ j = i THEN b ELSE byte[g][j]
  <1>1. /\ byte = [g \in Hook |-> byte[g]]
        /\ \A g \in Hook : byte[g] \in [1 .. Last(g) -> Bytes]
    BY DEF BytesOK
  <1>2. byte' = [byte EXCEPT ![h] = [byte[h] EXCEPT ![i] = b]]
    OBVIOUS
  <1>3. /\ byte' = [g \in Hook |-> byte'[g]]
        /\ \A g \in Hook : byte'[g] = IF g = h THEN [byte[h] EXCEPT ![i] = b] ELSE byte[g]
    BY ONLY <1>1, <1>2, h \in Hook
  <1>4. \A g \in Hook : byte'[g] \in [1 .. Last(g) -> Bytes]
    BY <1>1, <1>3
  <1>5. \A g \in Hook : \A j \in 1 .. Last(g) :
          byte'[g][j] = IF g = h /\ j = i THEN b ELSE byte[g][j]
    BY <1>1, <1>3
  <1>6. QED
    BY <1>3, <1>4, <1>5 DEF BytesOK

(* What a thread does changes only what is its own, and bytes.             *)
Own(t) == <<at[t], tf[t], exception[t], rearm[t], trace[t], steps[t], over[t], overSaved[t], owed[t]>>

LEMMA OthersRest ==
    ASSUME ThreadsOK, NEW u \in GameThreads, Game(u) \/ Handler(u),
           NEW t \in GameThreads, t # u
    PROVE  /\ at'[t] = at[t] /\ tf'[t] = tf[t] /\ exception'[t] = exception[t]
           /\ rearm'[t] = rearm[t] /\ trace'[t] = trace[t] /\ steps'[t] = steps[t]
           /\ over'[t] = over[t] /\ owed'[t] = owed[t]
  <1> USE DEF ThreadsOK, traceVars
  <1>1. CASE Game(u)
    <2>1. CASE Enter(u)
      BY <2>1 DEF Enter
    <2>2. CASE Execute(u)
      BY <2>2 DEF Execute
    <2>3. CASE ReturnFromCallee(u)
      BY <2>3 DEF ReturnFromCallee
    <2>4. QED
      BY <1>1, <2>1, <2>2, <2>3 DEF Game
  <1>2. CASE Handler(u)
    <2>0. at' = at
      BY <1>2 DEF Handler
    <2>12. CASE Trap(u)
      BY <2>0, <2>12 DEF Trap
    <2>13. CASE PatchRefused(u)
      BY <2>0, <2>13 DEF PatchRefused
    <2>1. CASE OneShot(u)
      BY <2>0, <2>1 DEF OneShot
    <2>2. CASE EnterHook(u)
      BY <2>0, <2>2 DEF EnterHook
    <2>3. CASE NobodysInt3(u)
      BY <2>0, <2>3 DEF NobodysInt3
    <2>4. CASE NobodysStep(u)
      BY <2>0, <2>4 DEF NobodysStep
    <2>5. CASE RearmEntryHook(u)
      BY <2>0, <2>5 DEF RearmEntryHook
    <2>6. CASE StopTrace(u)
      BY <2>0, <2>6 DEF StopTrace
    <2>7. CASE CaptureLifecycleCall(u)
      BY <2>0, <2>7 DEF CaptureLifecycleCall
    <2>8. CASE StepOn(u)
      BY <2>0, <2>8 DEF StepOn
    <2>9. CASE ReadBehindCall(u)
      BY <2>0, <2>9 DEF ReadBehindCall
    <2>10. CASE ArmStepOver(u)
      BY <2>0, <2>10 DEF ArmStepOver
    <2>11. QED
      BY <1>2, <2>1, <2>2, <2>3, <2>4, <2>5, <2>6, <2>7, <2>8, <2>9, <2>10, <2>12, <2>13
         DEF Handler
  <1>3. QED
    BY <1>1, <1>2

LEMMA Unmoved ==
    ASSUME NEW t \in GameThreads, at'[t] = at[t]
    PROVE  /\ Function(t)' = Function(t) /\ Position(t)' = Position(t)
           /\ InCode(t)' = InCode(t) /\ AtCall(t)' = AtCall(t)
           /\ \A a : Calling(t, a)' = Calling(t, a)
           /\ \A a : Here(t, a)' = Here(t, a) /\ There(t, a)' = There(t, a)
  BY DEF Function, Position, InCode, AtCall, Calling, Here, There

LEMMA RefusalsGrow ==
    ASSUME NEW t \in GameThreads, Game(t) \/ Handler(t) PROVE refused \subseteq refused'
  BY DEF Game, Handler, refusals, PatchRefused

(* Of the invariant, what a thread's own action has to show.               *)
LEMMA HookedKept ==
    ASSUME LHTyped, Hooked, NEW u \in GameThreads, Game(u) \/ Handler(u),
           \A h \in Hook : byte'[h][1] = byte[h][1],
           rearm' = rearm, rearm[u] # Nowhere => Stepping(u)',
           exception'[u] = "hook" => Entering(u)'
    PROVE  Hooked'
  <1>1. UNCHANGED <<saved, armed, resolver, controller, wpc, next>>
    BY DEF Game, Handler, hookVars, workerVars
  <1>2. "step" \in refused => "step" \in refused'
    BY RefusalsGrow
  <1>3. ASSUME NEW t \in GameThreads, rearm[t] # Nowhere PROVE Stepping(t)'
    <2>1. CASE t = u
      BY <1>3, <2>1
    <2>2. CASE t # u
      <3>1. at'[t] = at[t] /\ tf'[t] = tf[t] /\ exception'[t] = exception[t]
        BY <2>2, OthersRest DEF LHTyped
      <3>2. Stepping(t)
        BY <1>3 DEF Hooked
      <3>3. QED
        BY <3>1, <3>2 DEF Stepping
    <2>3. QED
      BY <2>1, <2>2
  <1>4. \A t \in GameThreads : rearm'[t] # Nowhere =>
          /\ armed'[rearm'[t]] /\ Stepping(t)'
          /\ ~(wpc' = "patch" /\ Hooks[next'] = rearm'[t])
    BY <1>1, <1>3 DEF Hooked, Patching
  <1>5. ASSUME NEW t \in GameThreads, exception'[t] = "hook" PROVE Entering(t)'
    <2>1. CASE t = u
      BY <1>5, <2>1
    <2>2. CASE t # u
      <3>1. at'[t] = at[t] /\ exception[t] = "hook"
        BY <1>5, <2>2, OthersRest DEF LHTyped
      <3>2. Entering(t)
        BY <3>1 DEF Hooked
      <3>3. Function(t)' = Function(t) /\ Position(t)' = Position(t) /\ InCode(t)' = InCode(t)
        BY <3>1, Unmoved
      <3>4. QED
        BY <1>1, <3>1, <3>2, <3>3 DEF Entering, Patching
    <2>3. QED
      BY <2>1, <2>2
  <1>6. \A h \in Hook :
          /\ saved'[h] = "code"
          /\ armed'[h] => resolver'
          /\ Patching(h)' => armed'[h]
          /\ byte'[h][1] = "int3" => armed'[h] /\ ~Patching(h)'
          /\ armed'[h] /\ ~Patching(h)' =>
               \/ byte'[h][1] = "int3" \/ "step" \in refused'
               \/ \E t \in GameThreads : rearm'[t] = h
    BY <1>1, <1>2 DEF Hooked, Patching
  <1>7. QED
    BY <1>1, <1>4, <1>5, <1>6 DEF Hooked, Patching

LEMMA ShotsKept ==
    ASSUME LHTyped, Shots, NEW u \in GameThreads, Game(u) \/ Handler(u),
           \A h \in Hook : \A i \in 2 .. Last(h) : byte'[h][i] = "int3" =>
             /\ byte[h][i] = "int3"
             /\ Awaits(u, <<h, i>>) => Awaits(u, <<h, i>>)',
           Aims(u)'
    PROVE  Shots'
  <1>1. controller' = controller
    BY DEF Game, Handler, workerVars
  <1>2. ASSUME NEW t \in GameThreads, t # u
        PROVE  /\ exception'[t] = exception[t] /\ over'[t] = over[t] /\ at'[t] = at[t]
               /\ InCode(t)' = InCode(t) /\ AtCall(t)' = AtCall(t)
               /\ \A a : Awaits(t, a)' = Awaits(t, a)
    <2>1. exception'[t] = exception[t] /\ over'[t] = over[t] /\ at'[t] = at[t]
      BY <1>2, OthersRest DEF LHTyped
    <2>2. /\ InCode(t)' = InCode(t) /\ AtCall(t)' = AtCall(t)
          /\ \A a : Calling(t, a)' = Calling(t, a)
      BY <2>1, Unmoved
    <2>3. QED
      BY <2>1, <2>2 DEF Awaits
  <1>3. ASSUME NEW t \in GameThreads PROVE Aims(t)'
    <2>1. CASE t = u
      BY <2>1
    <2>2. CASE t # u
      <3>1. Aims(t)
        BY DEF Shots
      <3>2. QED
        BY <1>1, <1>2, <2>2, <3>1 DEF Aims
    <2>3. QED
      BY <2>1, <2>2
  <1>4. ASSUME NEW h \in Hook, NEW i \in 2 .. Last(h), byte'[h][i] = "int3"
        PROVE  \E t \in GameThreads : Awaits(t, <<h, i>>)'
    <2>1. PICK t \in GameThreads : Awaits(t, <<h, i>>)
      BY <1>4 DEF Shots
    <2>2. CASE t = u
      BY <1>4, <2>1, <2>2
    <2>3. CASE t # u
      BY <1>2, <2>1, <2>3
    <2>4. QED
      BY <2>2, <2>3
  <1>5. QED
    BY <1>3, <1>4 DEF Shots

LEMMA SamePlace ==
    ASSUME NEW t \in GameThreads, at'[t] = at[t], over'[t] = over[t]
    PROVE  \A a : Awaits(t, a)' = Awaits(t, a)
  BY Unmoved DEF Awaits

Codes == LHTyped /\ Hooked /\ Shots

LEMMA CodesInit == LHInit => Codes
  <1> SUFFICES ASSUME LHInit PROVE Codes
    OBVIOUS
  <1>1. \A h \in Hook : \A i \in 1 .. Last(h) : byte[h][i] = "code"
    BY DEF LHInit
  <1>2. BytesOK
    <2>1. \A h \in Hook : byte[h] = [i \in 1 .. Last(h) |-> "code"]
      BY DEF LHInit
    <2>2. \A h \in Hook : byte[h] \in [1 .. Last(h) -> Bytes]
      BY <2>1 DEF Bytes
    <2>3. QED
      BY <2>2 DEF BytesOK, LHInit
  <1>3. HooksOK
    BY DEF HooksOK, LHInit, Bytes
  <1>4. ThreadsOK
    BY DEF ThreadsOK, LHInit, Exceptions
  <1>5. Hooked
    <2>1. \A h \in Hook : byte[h][1] # "int3" /\ saved[h] = "code" /\ ~armed[h]
      BY <1>1, Lasts DEF LHInit
    <2>2. \A t \in GameThreads : rearm[t] = Nowhere
      BY DEF LHInit
    <2>3. wpc = "configure"
      BY DEF LHInit
    <2>4. \A t \in GameThreads : exception[t] = "none"
      BY DEF LHInit
    <2>5. QED
      BY <2>1, <2>2, <2>3, <2>4 DEF Hooked, Patching
  <1>6. Shots
    <2>1. \A h \in Hook : \A i \in 2 .. Last(h) : byte[h][i] # "int3"
      BY <1>1, Lasts
    <2>2. \A t \in GameThreads : exception[t] = "none" /\ over[t] = Nowhere
      BY DEF LHInit
    <2>3. QED
      BY <2>1, <2>2 DEF Shots, Aims
  <1>7. QED
    BY <1>2, <1>3, <1>4, <1>5, <1>6 DEF Codes, LHTyped

LEMMA BootstrapShots ==
    ASSUME Shots, UNCHANGED <<at, exception, over>>, controller => controller',
           \A h \in Hook : \A i \in 2 .. Last(h) : byte'[h][i] = byte[h][i]
    PROVE  Shots'
  <1>1. ASSUME NEW t \in GameThreads
        PROVE  /\ InCode(t)' = InCode(t) /\ AtCall(t)' = AtCall(t)
               /\ \A a : Awaits(t, a)' = Awaits(t, a)
    BY Unmoved DEF Awaits
  <1>2. ASSUME NEW t \in GameThreads PROVE Aims(t)'
    <2>1. Aims(t)
      BY DEF Shots
    <2>2. QED
      BY <1>1, <2>1 DEF Aims
  <1>3. ASSUME NEW h \in Hook, NEW i \in 2 .. Last(h), byte'[h][i] = "int3"
        PROVE  \E t \in GameThreads : Awaits(t, <<h, i>>)'
    <2>1. PICK t \in GameThreads : Awaits(t, <<h, i>>)
      BY <1>3 DEF Shots
    <2>2. QED
      BY <1>1, <2>1
  <1>4. QED
    BY <1>2, <1>3 DEF Shots

LEMMA BootstrapCodes == ASSUME Codes, Bootstrap PROVE Codes'
  <1>1. UNCHANGED <<at, tf, exception, rearm, trace, steps, over, overSaved, owed>>
    BY DEF Bootstrap, traceVars
  <1>2. ThreadsOK'
    BY <1>1 DEF Codes, LHTyped, ThreadsOK
  <1>3. \A t \in GameThreads : Stepping(t)' = Stepping(t)
    BY <1>1 DEF Stepping
  <1>4. \A t \in GameThreads : rearm[t] # Nowhere => rearm[t] \in Hook
    BY DEF Codes, LHTyped, ThreadsOK
  <1>10. refused' = refused
    BY DEF Bootstrap, HookRefused, InstallController, refusals
  <1>11. ASSUME \A h \in Hook : armed[h] /\ ~Patching(h) => armed'[h] /\ ~Patching(h)',
                NEW t \in GameThreads, exception'[t] = "hook"
         PROVE  Entering(t)'
    <2>1. Entering(t)
      BY <1>1, <1>11 DEF Codes, Hooked
    <2>2. Function(t) \in Hook
      BY <2>1, WhereItRuns DEF Codes, Entering
    <2>3. Function(t)' = Function(t) /\ Position(t)' = Position(t) /\ InCode(t)' = InCode(t)
      BY <1>1, Unmoved
    <2>4. PICK h \in Hook : h = Function(t)
      BY <2>2
    <2>5. armed'[h] /\ ~Patching(h)'
      BY <1>11, <2>1, <2>4 DEF Entering
    <2>6. QED
      BY <1>1, <2>1, <2>3, <2>4, <2>5 DEF Entering, Patching
  <1>5. CASE Configure
    <2>1. UNCHANGED <<byte, saved, armed, controller>> /\ resolver' = TRUE /\ next' = 1
          /\ wpc = "configure" /\ wpc' = "arm"
      BY <1>5 DEF Configure, hookVars
    <2>2. BytesOK' /\ HooksOK'
      BY <2>1 DEF Codes, LHTyped, BytesOK, HooksOK
    <2>6. \A h \in Hook : armed[h] /\ ~Patching(h) => armed'[h] /\ ~Patching(h)'
      BY <2>1 DEF Patching
    <2>3. Hooked'
      BY <1>1, <1>3, <1>4, <1>10, <1>11, <2>1, <2>6 DEF Codes, Hooked, Patching
    <2>4. Shots'
      BY <1>1, <2>1, BootstrapShots DEF Codes
    <2>5. QED
      BY <1>2, <2>2, <2>3, <2>4 DEF Codes, LHTyped
  <1>6. CASE InstallController
    <2>1. UNCHANGED <<byte, saved, armed, resolver, wpc, next>> /\ controller' = TRUE
      BY <1>6 DEF InstallController, hookVars
    <2>2. BytesOK' /\ HooksOK'
      BY <2>1 DEF Codes, LHTyped, BytesOK, HooksOK
    <2>6. \A h \in Hook : armed[h] /\ ~Patching(h) => armed'[h] /\ ~Patching(h)'
      BY <2>1 DEF Patching
    <2>3. Hooked'
      BY <1>1, <1>3, <1>10, <1>11, <2>1, <2>6 DEF Codes, Hooked, Patching
    <2>4. Shots'
      BY <1>1, <2>1, BootstrapShots DEF Codes
    <2>5. QED
      BY <1>2, <2>2, <2>3, <2>4 DEF Codes, LHTyped
  <1>7. CASE ArmHook
    <2> DEFINE h == Hooks[next]
    <2>1. h \in Hook /\ wpc = "arm" /\ UNCHANGED <<byte, resolver, controller, next>>
      BY <1>7 DEF ArmHook, Hook
    <2>2. CASE armed[h]
      <3>1. wpc' = "configure" /\ UNCHANGED <<saved, armed>>
        BY <1>7, <2>2 DEF ArmHook, hookVars
      <3>2. BytesOK' /\ HooksOK'
        BY <2>1, <3>1 DEF Codes, LHTyped, BytesOK, HooksOK
      <3>6. \A g \in Hook : armed[g] /\ ~Patching(g) => armed'[g] /\ ~Patching(g)'
        BY <2>1, <3>1 DEF Patching
      <3>3. Hooked'
        BY <1>1, <1>3, <1>10, <1>11, <2>1, <3>1, <3>6 DEF Codes, Hooked, Patching
      <3>4. Shots'
        BY <1>1, <2>1, BootstrapShots DEF Codes
      <3>5. QED
        BY <1>2, <3>2, <3>3, <3>4 DEF Codes, LHTyped
    <2>3. CASE ~armed[h]
      <3>1. /\ saved' = [saved EXCEPT ![h] = byte[h][1]] /\ armed' = [armed EXCEPT ![h] = TRUE]
            /\ wpc' = "patch" /\ next \in DOMAIN Hooks
        BY <1>7, <2>3 DEF ArmHook
      <3>2. byte[h][1] = "code"
        <4>1. byte[h][1] \in Bytes
          BY <2>1, Lasts DEF Codes, LHTyped, BytesOK
        <4>2. QED
          BY <2>1, <2>3, <4>1 DEF Codes, Hooked, Bytes
      <3>3. /\ \A g \in Hook : saved'[g] = IF g = h THEN "code" ELSE saved[g]
            /\ \A g \in Hook : armed'[g] = IF g = h THEN TRUE ELSE armed[g]
        BY <3>1, <3>2 DEF Codes, LHTyped, HooksOK
      <3>4. BytesOK' /\ HooksOK'
        BY <2>1, <3>1, <3>2 DEF Codes, LHTyped, BytesOK, HooksOK, Bytes
      <3>5. Hooked'
        <4> HIDE DEF h
        <4>0. Hooks[next'] = h
          BY <2>1 DEF h
        <4>1. \A g \in Hook :
                /\ saved'[g] = "code" /\ resolver'
                /\ (wpc' = "patch" /\ Hooks[next'] = g => armed'[g])
                /\ byte'[g][1] = "int3" => armed'[g] /\ ~(wpc' = "patch" /\ Hooks[next'] = g)
          <5>1. resolver'
            BY <2>1 DEF Codes, Hooked
          <5>2. \A g \in Hook : saved'[g] = "code"
            BY <3>3 DEF Codes, Hooked
          <5>3. ASSUME NEW g \in Hook, byte'[g][1] = "int3" PROVE armed'[g] /\ g # h
            <6>1. byte[g][1] = "int3"
              BY <2>1, <5>3
            <6>2. armed[g] /\ g # h
              BY <3>2, <6>1 DEF Codes, Hooked
            <6>3. QED
              BY <3>3, <6>2
          <5>4. QED
            BY <2>1, <3>3, <4>0, <5>1, <5>2, <5>3
        <4>2. \A g \in Hook : armed'[g] /\ g # h =>
                \/ byte'[g][1] = "int3" \/ "step" \in refused'
                \/ \E t \in GameThreads : rearm'[t] = g
          BY <1>1, <1>10, <2>1, <3>3 DEF Codes, Hooked, Patching
        <4>3. \A t \in GameThreads : rearm'[t] # Nowhere =>
                armed'[rearm'[t]] /\ rearm'[t] # h /\ Stepping(t)'
          BY <1>1, <1>3, <1>4, <2>1, <2>3, <3>3 DEF Codes, Hooked
        <4>4. resolver'
          BY <2>1 DEF Codes, Hooked
        <4>5. \A g \in Hook : armed[g] /\ ~Patching(g) => armed'[g] /\ ~Patching(g)'
          BY <2>3, <3>1, <3>3, <4>0 DEF Patching
        <4>6. \A t \in GameThreads : exception'[t] = "hook" => Entering(t)'
          BY <1>11, <4>5
        <4>7. QED
          BY <2>1, <3>1, <4>0, <4>1, <4>2, <4>3, <4>4, <4>6 DEF Hooked, Patching
      <3>6. Shots'
        BY <1>1, <2>1, BootstrapShots DEF Codes
      <3>7. QED
        BY <1>2, <3>4, <3>5, <3>6 DEF Codes, LHTyped
    <2>4. QED
      BY <2>2, <2>3
  <1>8. CASE PatchHook
    <2> DEFINE h == Hooks[next]
    <2>1. /\ wpc = "patch" /\ next \in DOMAIN Hooks /\ h \in Hook /\ next \in Nat
          /\ UNCHANGED <<saved, resolver, controller>>
      BY <1>8 DEF PatchHook, Hook, hookVars, Codes, LHTyped, HooksOK
    <2>2. armed[h] /\ Patching(h) /\ byte[h][1] # "int3" /\ \A t \in GameThreads : rearm[t] # h
      BY <2>1, Names DEF Codes, Hooked, Patching
    <2>3. /\ byte' = [byte EXCEPT ![h][1] = "int3"]
          /\ next' = next + 1 /\ wpc' = IF next' \in DOMAIN Hooks THEN "arm" ELSE "flushing"
          /\ armed' = armed
      BY <1>8 DEF PatchHook, hookVars
    <2>4. /\ BytesOK'
          /\ \A g \in Hook : \A j \in 1 .. Last(g) :
               byte'[g][j] = IF g = h /\ j = 1 THEN "int3" ELSE byte[g][j]
      BY <2>1, <2>3, Lasts, Patched DEF Codes, LHTyped, Bytes
    <2>5. HooksOK'
      BY <2>1, <2>3 DEF Codes, LHTyped, HooksOK
    <2>6. \A g \in Hook : byte'[g][1] = IF g = h THEN "int3" ELSE byte[g][1]
      BY <2>4, Lasts
    <2>7. wpc' # "patch"
      BY <2>3
    <2>8. Hooked'
      <3> HIDE DEF h
      <3>0. \A g \in Hook : Patching(g) => g = h
        BY DEF Patching, h
      <3>1. \A g \in Hook :
              /\ saved'[g] = "code" /\ resolver'
              /\ byte'[g][1] = "int3" => armed'[g]
              /\ armed'[g] =>
                   \/ byte'[g][1] = "int3" \/ "step" \in refused'
                   \/ \E t \in GameThreads : rearm'[t] = g
        BY <1>1, <1>10, <2>1, <2>2, <2>3, <2>6, <3>0 DEF Codes, Hooked
      <3>2. \A t \in GameThreads : rearm'[t] # Nowhere => armed'[rearm'[t]] /\ Stepping(t)'
        BY <1>1, <1>3, <2>3 DEF Codes, Hooked
      <3>3. resolver'
        BY <2>1 DEF Codes, Hooked
      <3>4. \A g \in Hook : armed[g] /\ ~Patching(g) => armed'[g] /\ ~Patching(g)'
        BY <2>3, <2>7 DEF Patching
      <3>5. \A t \in GameThreads : exception'[t] = "hook" => Entering(t)'
        BY <1>11, <3>4
      <3>6. QED
        BY <2>7, <3>1, <3>2, <3>3, <3>5 DEF Hooked, Patching
    <2>9. Shots'
      <3>1. \A g \in Hook : \A i \in 2 .. Last(g) : byte'[g][i] = byte[g][i]
        BY <2>4, Lasts
      <3>2. QED
        BY <1>1, <2>1, <3>1, BootstrapShots DEF Codes
    <2>10. QED
      BY <1>2, <2>4, <2>5, <2>8, <2>9 DEF Codes, LHTyped
  <1>12. CASE HookRefused
    <2> DEFINE h == Hooks[next]
    <2>1. /\ wpc = "patch" /\ next \in DOMAIN Hooks /\ h \in Hook /\ next \in Nat
          /\ UNCHANGED <<saved, resolver, controller, byte, next>>
          /\ armed' = [armed EXCEPT ![h] = FALSE] /\ wpc' = "configure"
      BY <1>12 DEF HookRefused, Hook, Codes, LHTyped, HooksOK
    <2>2. armed[h] /\ Patching(h) /\ byte[h][1] # "int3" /\ \A t \in GameThreads : rearm[t] # h
      BY <2>1, Names DEF Codes, Hooked, Patching
    <2>3. BytesOK' /\ HooksOK'
      BY <2>1 DEF Codes, LHTyped, BytesOK, HooksOK
    <2>4. \A g \in Hook : armed'[g] = IF g = h THEN FALSE ELSE armed[g]
      BY <2>1 DEF Codes, LHTyped, HooksOK
    <2>5. Hooked'
      <3> HIDE DEF h
      <3>0. \A g \in Hook : Patching(g) => g = h
        BY DEF Patching, h
      <3>1. \A g \in Hook :
              /\ saved'[g] = "code" /\ resolver'
              /\ byte'[g][1] = "int3" => armed'[g]
              /\ armed'[g] =>
                   \/ byte'[g][1] = "int3" \/ "step" \in refused'
                   \/ \E t \in GameThreads : rearm'[t] = g
        BY <1>1, <1>10, <2>1, <2>2, <2>4, <3>0 DEF Codes, Hooked
      <3>2. \A t \in GameThreads : rearm'[t] # Nowhere => armed'[rearm'[t]] /\ Stepping(t)'
        BY <1>1, <1>3, <1>4, <2>2, <2>4 DEF Codes, Hooked
      <3>3. \A g \in Hook : armed[g] /\ ~Patching(g) => armed'[g] /\ ~Patching(g)'
        BY <2>1, <2>2, <2>4 DEF Patching
      <3>4. \A t \in GameThreads : exception'[t] = "hook" => Entering(t)'
        BY <1>11, <3>3
      <3>5. QED
        BY <2>1, <3>1, <3>2, <3>4 DEF Hooked, Patching
    <2>6. Shots'
      BY <1>1, <2>1, BootstrapShots DEF Codes
    <2>7. QED
      BY <1>2, <2>3, <2>5, <2>6 DEF Codes, LHTyped
  <1>9. QED
    BY <1>5, <1>6, <1>7, <1>8, <1>12 DEF Bootstrap

LEMMA HooksRest ==
    ASSUME Codes, NEW t \in GameThreads, Game(t) \/ Handler(t)
    PROVE  HooksOK' /\ UNCHANGED <<saved, armed, resolver, controller, wpc, next>>
  <1>1. UNCHANGED <<saved, armed, resolver, controller, wpc, next>>
    BY DEF Game, Handler, hookVars, workerVars
  <1>2. QED
    BY <1>1 DEF Codes, LHTyped, HooksOK

LEMMA EnterCodes == ASSUME Codes, NEW t \in GameThreads, Enter(t), Game(t) PROVE Codes'
  <1> DEFINE s == at[t]
  <1>1. UNCHANGED <<byte, tf, exception, rearm, trace, steps, over, overSaved>>
    BY DEF Enter, traceVars
  <1>2. PICK h \in Hook : at' = [at EXCEPT ![t] = <<<<h, 1>>>> \o @]
    BY DEF Enter
  <1>3. /\ s \in Seq(Address \union {Nowhere}) /\ <<h, 1>> \in Address
        /\ at'[t] = <<<<h, 1>>>> \o s
    BY <1>2, AnAddress, Lasts DEF Codes, LHTyped, ThreadsOK
  <1>4. /\ at'[t] \in Seq(Address \union {Nowhere}) /\ at'[t] # <<>>
        /\ \A a : On(s, a) => On(at'[t], a)
    <2> HIDE DEF s
    <2>1. <<h, 1>> \in Address \union {Nowhere}
      BY <1>3
    <2>2. QED
      BY <1>3, <2>1, Pushed
  <1>5. owed' \in [GameThreads -> BOOLEAN]
    <2>1. owed' = [owed EXCEPT ![t] = at[t] # <<>> /\ @] /\ owed \in [GameThreads -> BOOLEAN]
      BY DEF Enter, Codes, LHTyped, ThreadsOK
    <2>2. QED
      BY <2>1
  <1>6. ThreadsOK'
    <2>1. at' \in [GameThreads -> Seq(Address \union {Nowhere})]
      <3>1. at \in [GameThreads -> Seq(Address \union {Nowhere})]
        BY DEF Codes, LHTyped, ThreadsOK
      <3>2. at' = [at EXCEPT ![t] = at'[t]]
        BY <1>2, <3>1
      <3>3. QED
        BY <1>4, <3>1, <3>2
    <2>2. QED
      BY <1>1, <1>5, <2>1 DEF Codes, LHTyped, ThreadsOK
  <1>7. BytesOK' /\ HooksOK'
    BY <1>1, HooksRest DEF Codes, LHTyped, BytesOK
  <1>8. Hooked'
    <2>1. rearm[t] = Nowhere
      <3>1. exception[t] = "none" /\ (at[t] # <<>> => ~tf[t])
        BY DEF Enter
      <3>2. ~Stepping(t)
        BY <3>1 DEF Stepping
      <3>3. QED
        BY <3>2 DEF Codes, Hooked
    <2>2. exception'[t] # "hook"
      BY <1>1 DEF Enter
    <2>3. QED
      BY <1>1, <2>1, <2>2, HookedKept DEF Codes
  <1>9. Shots'
    <2>1. exception[t] = "none" /\ exception'[t] = exception[t]
      BY <1>1 DEF Enter
    <2>2. ~InCode(t)
      BY DEF Enter, InCode
    <2>3. \A a : Awaits(t, a) => Awaits(t, a)'
      BY <1>1, <1>4, <2>2 DEF Awaits, Calling
    <2>4. over'[t] # Nowhere => over'[t][2] > 1 /\ controller'
      BY <1>1, HooksRest DEF Codes, Shots, Aims
    <2>5. \A g \in Hook : \A i \in 2 .. Last(g) : byte'[g][i] = byte[g][i]
      BY <1>1
    <2>6. Aims(t)'
      BY <2>1, <2>4 DEF Aims
    <2>7. QED
      BY <2>3, <2>5, <2>6, ShotsKept DEF Codes
  <1>10. QED
    BY <1>6, <1>7, <1>8, <1>9 DEF Codes, LHTyped

LEMMA ExecuteCodes == ASSUME Codes, NEW t \in GameThreads, Execute(t), Game(t) PROVE Codes'
  <1> DEFINE s == at[t]
             f == Function(t)
             p == Position(t)
             S == Address \union {Nowhere}
  <1>1. UNCHANGED <<byte, tf, rearm, trace, steps, over, overSaved, owed>>
    BY DEF Execute, traceVars
  <1>2. /\ f \in Hook /\ p \in 1 .. Last(f) /\ p \in Nat /\ s # <<>> /\ s \in Seq(S)
        /\ Head(s) = <<f, p>> /\ (AtCall(t) => p >= 2 /\ p + 1 \in 1 .. Last(f))
        /\ byte[f][p] = "code" /\ exception[t] = "none"
    BY WhereItRuns, HeadOf DEF Codes, Execute, Running
  <1>3. at'[t] = IF AtCall(t) THEN <<Nowhere, <<f, p + 1>>>> \o Tail(s)
                 ELSE IF p = Last(f) THEN Tail(s) ELSE <<<<f, p + 1>>>> \o Tail(s)
    BY DEF Execute, Codes, LHTyped, ThreadsOK
  <1>4. exception'[t] = IF tf[t] THEN "step" ELSE "none"
    BY DEF Execute, Codes, LHTyped, ThreadsOK
  <1> HIDE DEF s, f, p, S
  <1>5. /\ at'[t] \in Seq(S)
        /\ \A a : On(s, a) /\ a # Head(s) => On(at'[t], a)
        /\ AtCall(t) => On(at'[t], <<f, p + 1>>)
    <2>1. Nowhere \in S
      BY DEF S
    <2>2. CASE AtCall(t)
      <3>1. <<f, p + 1>> \in S
        BY <1>2, <2>2, AnAddress DEF S
      <3>2. at'[t] = <<Nowhere, <<f, p + 1>>>> \o Tail(s)
        BY <1>3, <2>2
      <3> DEFINE b == <<f, p + 1>>
      <3>3. b \in S /\ at'[t] = <<Nowhere, b>> \o Tail(s)
        BY <3>1, <3>2
      <3> HIDE DEF b
      <3>4. at'[t] \in Seq(S) /\ On(at'[t], b) /\ \A a : On(s, a) /\ a # Head(s) => On(at'[t], a)
        BY <1>2, <2>1, <3>3, Called
      <3>5. QED
        BY <3>4 DEF b
    <2>3. CASE ~AtCall(t) /\ p = Last(f)
      <3>1. at'[t] = Tail(s)
        BY <1>3, <2>3
      <3>2. QED
        BY <1>2, <2>3, <3>1, Returned
    <2>4. CASE ~AtCall(t) /\ p # Last(f)
      <3>1. p + 1 \in 1 .. Last(f)
        BY <1>2, <2>4, Lasts
      <3>2. <<f, p + 1>> \in S
        BY <1>2, <3>1, AnAddress DEF S
      <3>3. at'[t] = <<<<f, p + 1>>>> \o Tail(s)
        BY <1>3, <2>4
      <3> DEFINE b == <<f, p + 1>>
      <3>4. b \in S /\ at'[t] = <<b>> \o Tail(s)
        BY <3>2, <3>3
      <3> HIDE DEF b
      <3>5. at'[t] \in Seq(S) /\ \A a : On(s, a) /\ a # Head(s) => On(at'[t], a)
        BY <1>2, <3>4, Replaced
      <3>6. QED
        BY <2>4, <3>5
    <2>5. QED
      BY <2>2, <2>3, <2>4
  <1>6. ThreadsOK'
    <2>1. at' \in [GameThreads -> Seq(S)]
      <3>1. at \in [GameThreads -> Seq(S)]
        BY DEF Codes, LHTyped, ThreadsOK, S
      <3>2. at' = [at EXCEPT ![t] = at'[t]]
        BY <3>1 DEF Execute
      <3>3. QED
        BY <1>5, <3>1, <3>2
    <2>2. exception' \in [GameThreads -> Exceptions]
      BY DEF Execute, Codes, LHTyped, ThreadsOK, Exceptions
    <2>3. QED
      BY <1>1, <2>1, <2>2 DEF Codes, LHTyped, ThreadsOK, S
  <1>7. BytesOK' /\ HooksOK'
    BY <1>1, HooksRest DEF Codes, LHTyped, BytesOK
  <1>8. Hooked'
    <2>1. rearm[t] # Nowhere => tf[t]
      BY <1>2 DEF Codes, Hooked, Stepping
    <2>2. rearm[t] # Nowhere => Stepping(t)'
      BY <1>4, <2>1 DEF Stepping
    <2>3. \A h \in Hook : byte'[h][1] = byte[h][1]
      BY <1>1
    <2>4. exception'[t] # "hook"
      BY <1>4
    <2>5. QED
      BY <1>1, <2>2, <2>3, <2>4, HookedKept DEF Codes
  <1>9. Shots'
    <2>1. exception'[t] \notin {"arming", "one-shot"}
      BY <1>4
    <2>5. over'[t] # Nowhere => over'[t][2] > 1 /\ controller'
      BY <1>1, HooksRest DEF Codes, Shots, Aims
    <2>2. Aims(t)'
      BY <2>1, <2>5 DEF Aims
    <2>3. ASSUME NEW h \in Hook, NEW i \in 2 .. Last(h), byte'[h][i] = "int3"
          PROVE  byte[h][i] = "int3" /\ (Awaits(t, <<h, i>>) => Awaits(t, <<h, i>>)')
      <3>1. byte[h][i] = "int3" /\ <<h, i>> # <<f, p>>
        BY <1>1, <1>2, <2>3
      <3>2. Calling(t, <<h, i>>) => AtCall(t) /\ <<h, i>> = <<f, p + 1>>
        BY DEF Calling, f, p
      <3>3. On(s, <<h, i>>) \/ Calling(t, <<h, i>>) => On(at'[t], <<h, i>>)
        BY <1>2, <1>5, <3>1, <3>2
      <3>4. QED
        BY <1>1, <3>1, <3>3 DEF Awaits, s
    <2>4. QED
      BY <2>2, <2>3, ShotsKept DEF Codes
  <1>10. QED
    BY <1>6, <1>7, <1>8, <1>9 DEF Codes, LHTyped

LEMMA ReturnCodes ==
    ASSUME Codes, NEW t \in GameThreads, ReturnFromCallee(t), Game(t) PROVE Codes'
  <1> DEFINE s == at[t]
             S == Address \union {Nowhere}
  <1>1. UNCHANGED <<byte, tf, rearm, trace, steps, over, overSaved, owed>>
    BY DEF ReturnFromCallee, traceVars
  <1>2. /\ s # <<>> /\ s \in Seq(S) /\ Head(s) = Nowhere /\ exception[t] = "none"
        /\ at' = [at EXCEPT ![t] = Tail(s)] /\ at'[t] = Tail(s)
        /\ exception'[t] = IF tf[t] THEN "step" ELSE "none"
    BY DEF ReturnFromCallee, Running, Codes, LHTyped, ThreadsOK
  <1>3. at'[t] \in Seq(S) /\ \A a : On(s, a) /\ a # Nowhere => On(at'[t], a)
    <2> HIDE DEF s, S
    <2>1. QED
      BY <1>2, Returned
  <1>4. ThreadsOK'
    <2>1. at' \in [GameThreads -> Seq(S)]
      <3>1. at \in [GameThreads -> Seq(S)]
        BY DEF Codes, LHTyped, ThreadsOK
      <3> HIDE DEF s, S
      <3>2. QED
        BY <1>2, <1>3, <3>1
    <2>2. exception' \in [GameThreads -> Exceptions]
      BY DEF ReturnFromCallee, Codes, LHTyped, ThreadsOK, Exceptions
    <2>3. QED
      BY <1>1, <2>1, <2>2 DEF Codes, LHTyped, ThreadsOK
  <1>5. BytesOK' /\ HooksOK'
    BY <1>1, HooksRest DEF Codes, LHTyped, BytesOK
  <1>6. Hooked'
    <2>1. rearm[t] # Nowhere => tf[t]
      BY <1>2 DEF Codes, Hooked, Stepping
    <2>2. rearm[t] # Nowhere => Stepping(t)'
      BY <1>2, <2>1 DEF Stepping
    <2>3. \A h \in Hook : byte'[h][1] = byte[h][1]
      BY <1>1
    <2>4. exception'[t] # "hook"
      BY <1>2
    <2>5. QED
      BY <1>1, <2>2, <2>3, <2>4, HookedKept DEF Codes
  <1>7. Shots'
    <2>1. exception'[t] \notin {"arming", "one-shot"}
      BY <1>2
    <2>5. over'[t] # Nowhere => over'[t][2] > 1 /\ controller'
      BY <1>1, HooksRest DEF Codes, Shots, Aims
    <2>2. Aims(t)'
      BY <2>1, <2>5 DEF Aims
    <2>3. ASSUME NEW h \in Hook, NEW i \in 2 .. Last(h), byte'[h][i] = "int3"
          PROVE  byte[h][i] = "int3" /\ (Awaits(t, <<h, i>>) => Awaits(t, <<h, i>>)')
      <3>1. byte[h][i] = "int3" /\ <<h, i>> # Nowhere
        <4>1. i \in 1 .. Last(h)
          BY Lasts
        <4>2. QED
          BY <1>1, <2>3, <4>1, AnAddress, Addresses
      <3>2. ~Calling(t, <<h, i>>)
        BY <1>2 DEF Calling, InCode
      <3>3. On(s, <<h, i>>) => On(at'[t], <<h, i>>)
        BY <1>3, <3>1
      <3>4. QED
        BY <1>1, <3>1, <3>2, <3>3 DEF Awaits
    <2>4. QED
      BY <2>2, <2>3, ShotsKept DEF Codes
  <1>8. QED
    BY <1>4, <1>5, <1>6, <1>7 DEF Codes, LHTyped

LEMMA OneShotCodes == ASSUME Codes, NEW t \in GameThreads, OneShot(t), Handler(t) PROVE Codes'
  <1> DEFINE f == Function(t)
             p == Position(t)
  <1>1. /\ UNCHANGED <<at, rearm, trace, steps, overSaved, owed>>
        /\ exception' = [exception EXCEPT ![t] = "none"]
        /\ over' = [over EXCEPT ![t] = Nowhere] /\ tf' = [tf EXCEPT ![t] = TRUE]
        /\ byte' = [byte EXCEPT ![f][p] = overSaved[t]]
    BY DEF OneShot, Handler
  <1>2. /\ f \in Hook /\ p \in 1 .. Last(f) /\ p \in Nat /\ Head(at[t]) = <<f, p>>
        /\ over[t] = <<f, p>> /\ exception[t] = "one-shot" /\ over[t] # Nowhere
    <2>1. exception[t] = "one-shot" /\ at[t] # <<>> /\ InCode(t) /\ over[t] = Head(at[t])
      BY DEF OneShot, Codes, Shots, Aims
    <2>2. QED
      BY <2>1, WhereItRuns DEF Codes
  <1>3. overSaved[t] = "code" /\ p > 1
    <2>1. overSaved[t] = "code"
      BY DEF Codes, LHTyped, ThreadsOK
    <2>2. over[t][2] > 1
      BY <1>2 DEF Codes, Shots, Aims
    <2> HIDE DEF f, p
    <2>3. over[t][2] = p
      BY <1>2
    <2>4. QED
      BY <2>1, <2>2, <2>3
  <1>4. ThreadsOK'
    BY <1>1 DEF Codes, LHTyped, ThreadsOK, Exceptions
  <1>10. exception'[t] = "none" /\ over'[t] = Nowhere
    BY <1>1 DEF Codes, LHTyped, ThreadsOK
  <1> HIDE DEF f, p
  <1>5. /\ BytesOK'
        /\ \A g \in Hook : \A j \in 1 .. Last(g) :
             byte'[g][j] = IF g = f /\ j = p THEN "code" ELSE byte[g][j]
    BY <1>1, <1>2, <1>3, Patched DEF Codes, LHTyped, Bytes
  <1>6. HooksOK'
    BY HooksRest
  <1>7. Hooked'
    <2>1. rearm[t] # Nowhere => Head(at[t]) = <<rearm[t], 1>>
      BY <1>2 DEF Codes, Hooked, Stepping
    <2>2. rearm[t] = Nowhere
      BY <1>2, <1>3, <2>1
    <2>3. \A h \in Hook : byte'[h][1] = byte[h][1]
      BY <1>3, <1>5, Lasts
    <2>4. QED
      BY <1>1, <1>10, <2>2, <2>3, HookedKept DEF Codes
  <1>8. Shots'
    <2>1. Aims(t)'
      BY <1>10 DEF Aims
    <2>2. ASSUME NEW h \in Hook, NEW i \in 2 .. Last(h), byte'[h][i] = "int3"
          PROVE  byte[h][i] = "int3" /\ ~Awaits(t, <<h, i>>)
      <3>1. i \in 1 .. Last(h)
        BY Lasts
      <3>2. byte[h][i] = "int3" /\ ~(h = f /\ i = p)
        BY <1>5, <2>2, <3>1
      <3>3. QED
        BY <1>2, <3>2 DEF Awaits
    <2>3. QED
      BY <2>1, <2>2, ShotsKept DEF Codes
  <1>9. QED
    BY <1>4, <1>5, <1>6, <1>7, <1>8 DEF Codes, LHTyped

(* A first byte written leaves the one-shots alone.                        *)
LEMMA FirstByteShots ==
    ASSUME Codes, NEW t \in GameThreads, Handler(t), UNCHANGED over,
           exception'[t] \notin {"arming", "one-shot"},
           \A h \in Hook : \A i \in 2 .. Last(h) : byte'[h][i] = byte[h][i]
    PROVE  Shots'
  <1>1. at' = at
    BY DEF Handler
  <1>2. \A a : Awaits(t, a)' = Awaits(t, a)
    BY <1>1, SamePlace
  <1>3. Aims(t)'
    <2>1. over'[t] # Nowhere => over'[t][2] > 1 /\ controller'
      BY HooksRest DEF Codes, Shots, Aims
    <2>2. QED
      BY <2>1 DEF Aims
  <1>4. QED
    BY <1>2, <1>3, ShotsKept DEF Codes

LEMMA EnteringKept ==
    ASSUME Hooked, NEW t \in GameThreads, exception[t] = "hook", at'[t] = at[t],
           UNCHANGED <<armed, wpc, next>>
    PROVE  Entering(t)'
  <1>1. Entering(t)
    BY DEF Hooked
  <1>2. Function(t)' = Function(t) /\ Position(t)' = Position(t) /\ InCode(t)' = InCode(t)
    BY Unmoved
  <1>3. QED
    BY <1>1, <1>2 DEF Entering, Patching

LEMMA EnterHookCodes ==
    ASSUME Codes, NEW t \in GameThreads, EnterHook(t), Handler(t) PROVE Codes'
  <1> DEFINE h == Function(t)
  <1>1. /\ UNCHANGED <<at, over, overSaved>> /\ exception' = [exception EXCEPT ![t] = "none"]
        /\ rearm' = [rearm EXCEPT ![t] = h] /\ tf' = [tf EXCEPT ![t] = TRUE]
        /\ byte' = [byte EXCEPT ![h][1] = saved[h]]
    BY DEF EnterHook, Handler
  <1>2. /\ h \in Hook /\ Head(at[t]) = <<h, 1>> /\ at[t] # <<>> /\ exception[t] = "hook"
        /\ armed[h] /\ ~Patching(h)
    <2>1. exception[t] = "hook" /\ Entering(t)
      BY DEF EnterHook, Codes, Hooked
    <2>2. QED
      BY <2>1, WhereItRuns DEF Codes, Entering
  <1>3. saved[h] = "code"
    BY <1>2 DEF Codes, Hooked
  <1>12. \A u \in GameThreads : exception'[u] = IF u = t THEN "none" ELSE exception[u]
    BY <1>1 DEF Codes, LHTyped, ThreadsOK
  <1>4. ThreadsOK'
    <2>1. /\ at' \in [GameThreads -> Seq(Address \union {Nowhere})]
          /\ tf' \in [GameThreads -> BOOLEAN]
          /\ exception' \in [GameThreads -> Exceptions]
          /\ rearm' \in [GameThreads -> Hook \union {Nowhere}]
          /\ over' \in [GameThreads -> Address \union {Nowhere}]
          /\ overSaved' \in [GameThreads -> {"code"}]
      BY <1>1, <1>2 DEF Codes, LHTyped, ThreadsOK, Exceptions
    <2>2. CASE h \in Traced
      <3>1. /\ trace' = [trace EXCEPT ![t] = h] /\ steps' = [steps EXCEPT ![t] = 0]
            /\ owed' = [owed EXCEPT ![t] = controller /\ Publishing # {}]
        BY <2>2 DEF EnterHook
      <3>2. (controller /\ Publishing # {}) \in BOOLEAN
        BY DEF Codes, LHTyped, HooksOK
      <3>3. /\ trace' \in [GameThreads -> Traced \union {Nowhere}]
            /\ steps' \in [GameThreads -> Nat] /\ owed' \in [GameThreads -> BOOLEAN]
        BY <2>2, <3>1, <3>2 DEF Codes, LHTyped, ThreadsOK
      <3>4. QED
        BY <2>1, <3>3 DEF ThreadsOK
    <2>3. CASE h \notin Traced
      <3>1. UNCHANGED <<trace, steps, owed>>
        BY <2>3 DEF EnterHook
      <3>2. QED
        BY <2>1, <3>1 DEF Codes, LHTyped, ThreadsOK
    <2>4. QED
      BY <2>2, <2>3
  <1>5. rearm[t] # Nowhere => rearm[t] = h
    BY <1>2 DEF Codes, Hooked, Stepping
  <1>6. UNCHANGED <<saved, armed, resolver, controller, wpc, next>>
    BY HooksRest
  <1> HIDE DEF h
  <1>7. /\ BytesOK'
        /\ \A g \in Hook : \A j \in 1 .. Last(g) :
             byte'[g][j] = IF g = h /\ j = 1 THEN "code" ELSE byte[g][j]
    BY <1>1, <1>2, <1>3, Lasts, Patched DEF Codes, LHTyped, Bytes
  <1>8. HooksOK'
    BY HooksRest
  <1>9. Hooked'
    <2>1. \A g \in Hook : byte'[g][1] = IF g = h THEN "code" ELSE byte[g][1]
      BY <1>7, Lasts
    <2>2. \A u \in GameThreads : rearm'[u] = IF u = t THEN h ELSE rearm[u]
      BY <1>1 DEF Codes, LHTyped, ThreadsOK
    <2>3. ASSUME NEW g \in Hook, armed'[g], ~Patching(g)', byte'[g][1] # "int3",
                 "step" \notin refused'
          PROVE  \E u \in GameThreads : rearm'[u] = g
      <3>1. CASE g = h
        BY <2>2, <3>1
      <3>2. CASE g # h
        <4>1. PICK u \in GameThreads : rearm[u] = g
          BY <1>6, <2>1, <2>3, <3>2, RefusalsGrow DEF Codes, Hooked, Patching
        <4>2. u # t
          BY <1>5, <3>2, <4>1, Names
        <4>3. QED
          BY <2>2, <4>1, <4>2
      <3>3. QED
        BY <3>1, <3>2
    <2>4. ASSUME NEW u \in GameThreads, rearm'[u] # Nowhere
          PROVE  /\ armed'[rearm'[u]] /\ Stepping(u)'
                 /\ ~(wpc' = "patch" /\ Hooks[next'] = rearm'[u])
      <3>1. CASE u = t
        <4>1. tf'[t]
          BY <1>1 DEF Codes, LHTyped, ThreadsOK
        <4>2. Stepping(t)'
          BY <1>1, <1>2, <1>12, <2>2, <4>1 DEF Stepping
        <4>3. QED
          BY <1>2, <1>3, <1>6, <2>2, <3>1, <4>2 DEF Patching
      <3>2. CASE u # t
        <4>1. rearm'[u] = rearm[u] /\ tf'[u] = tf[u]
          BY <1>1, <2>2, <3>2 DEF Codes, LHTyped, ThreadsOK
        <4>2. armed[rearm[u]] /\ Stepping(u) /\ ~Patching(rearm[u])
          BY <2>4, <4>1 DEF Codes, Hooked
        <4>3. Stepping(u)'
          BY <1>1, <1>12, <3>2, <4>1, <4>2 DEF Stepping
        <4>4. QED
          BY <1>6, <4>1, <4>2, <4>3 DEF Patching
      <3>3. QED
        BY <3>1, <3>2
    <2>5. \A g \in Hook :
            /\ saved'[g] = "code"
            /\ armed'[g] => resolver'
            /\ Patching(g)' => armed'[g]
            /\ byte'[g][1] = "int3" => armed'[g] /\ ~Patching(g)'
      BY <1>6, <2>1 DEF Codes, Hooked, Patching
    <2>6. wpc' # "configure" => resolver'
      BY <1>6 DEF Codes, Hooked
    <2>7. ASSUME NEW u \in GameThreads, exception'[u] = "hook" PROVE Entering(u)'
      BY <1>1, <1>6, <1>12, <2>7, EnteringKept DEF Codes
    <2>8. QED
      BY <2>3, <2>4, <2>5, <2>6, <2>7 DEF Hooked, Patching
  <1>10. Shots'
    <2>1. \A g \in Hook : \A i \in 2 .. Last(g) : byte'[g][i] = byte[g][i]
      BY <1>7, Lasts
    <2>2. exception'[t] \notin {"arming", "one-shot"}
      BY <1>12
    <2>3. QED
      BY <1>1, <2>1, <2>2, FirstByteShots
  <1>11. QED
    BY <1>4, <1>7, <1>8, <1>9, <1>10 DEF Codes, LHTyped

LEMMA RearmCodes ==
    ASSUME Codes, NEW t \in GameThreads, RearmEntryHook(t), Handler(t) PROVE Codes'
  <1> DEFINE h == rearm[t]
  <1>1. /\ UNCHANGED <<at, tf, trace, steps, over, overSaved, owed>>
        /\ rearm' = [rearm EXCEPT ![t] = Nowhere]
        /\ exception' = [exception EXCEPT ![t] = "trace"]
    BY DEF RearmEntryHook, Handler
  <1>2. h # Nowhere => h \in Hook /\ armed[h] /\ ~Patching(h)
    BY DEF Codes, LHTyped, ThreadsOK, Hooked
  <1>3. byte' = IF h # Nowhere THEN [byte EXCEPT ![h][1] = "int3"] ELSE byte
    BY <1>2 DEF RearmEntryHook, Rearms
  <1>4. /\ \A u \in GameThreads : rearm'[u] = IF u = t THEN Nowhere ELSE rearm[u]
        /\ \A u \in GameThreads : exception'[u] = IF u = t THEN "trace" ELSE exception[u]
    BY <1>1 DEF Codes, LHTyped, ThreadsOK
  <1>5. ThreadsOK'
    BY <1>1 DEF Codes, LHTyped, ThreadsOK, Exceptions
  <1>6. UNCHANGED <<saved, armed, resolver, controller, wpc, next>>
    BY HooksRest
  <1> HIDE DEF h
  <1>7. /\ BytesOK'
        /\ \A g \in Hook : \A j \in 1 .. Last(g) :
             byte'[g][j] = IF g = h /\ j = 1 THEN "int3" ELSE byte[g][j]
    <2>1. CASE h # Nowhere
      BY <1>2, <1>3, <2>1, Lasts, Patched DEF Codes, LHTyped, Bytes
    <2>2. CASE h = Nowhere
      BY <1>3, <2>2, Names DEF Codes, LHTyped, BytesOK
    <2>3. QED
      BY <2>1, <2>2
  <1>8. HooksOK'
    BY HooksRest
  <1>9. Hooked'
    <2>1. \A g \in Hook : byte'[g][1] = IF g = h THEN "int3" ELSE byte[g][1]
      BY <1>7, Lasts
    <2>2. ASSUME NEW g \in Hook, armed'[g], ~Patching(g)', byte'[g][1] # "int3",
                 "step" \notin refused'
          PROVE  \E u \in GameThreads : rearm'[u] = g
      <3>1. g # h
        BY <2>1, <2>2
      <3>2. PICK u \in GameThreads : rearm[u] = g
        BY <1>6, <2>1, <2>2, <3>1, RefusalsGrow DEF Codes, Hooked, Patching
      <3>3. u # t
        BY <3>1, <3>2 DEF h
      <3>4. QED
        BY <1>4, <3>2, <3>3
    <2>3. ASSUME NEW u \in GameThreads, rearm'[u] # Nowhere
          PROVE  /\ armed'[rearm'[u]] /\ Stepping(u)'
                 /\ ~(wpc' = "patch" /\ Hooks[next'] = rearm'[u])
      <3>1. u # t /\ rearm'[u] = rearm[u] /\ exception'[u] = exception[u]
        BY <1>4, <2>3
      <3>2. armed[rearm[u]] /\ Stepping(u) /\ ~Patching(rearm[u])
        BY <2>3, <3>1 DEF Codes, Hooked
      <3>3. Stepping(u)'
        BY <1>1, <3>1, <3>2 DEF Stepping
      <3>4. QED
        BY <1>6, <3>1, <3>2, <3>3 DEF Patching
    <2>4. \A g \in Hook :
            /\ saved'[g] = "code"
            /\ armed'[g] => resolver'
            /\ Patching(g)' => armed'[g]
            /\ byte'[g][1] = "int3" => armed'[g] /\ ~Patching(g)'
      <3>1. \A g \in Hook : byte'[g][1] = "int3" => armed[g] /\ ~Patching(g)
        BY <1>2, <2>1, Names DEF Codes, Hooked
      <3>2. QED
        BY <1>6, <3>1 DEF Codes, Hooked, Patching
    <2>5. wpc' # "configure" => resolver'
      BY <1>6 DEF Codes, Hooked
    <2>6. ASSUME NEW u \in GameThreads, exception'[u] = "hook" PROVE Entering(u)'
      BY <1>1, <1>4, <1>6, <2>6, EnteringKept DEF Codes
    <2>7. QED
      BY <2>2, <2>3, <2>4, <2>5, <2>6 DEF Hooked, Patching
  <1>10. Shots'
    <2>1. \A g \in Hook : \A i \in 2 .. Last(g) : byte'[g][i] = byte[g][i]
      BY <1>7, Lasts
    <2>2. exception'[t] \notin {"arming", "one-shot"}
      BY <1>4
    <2>3. QED
      BY <1>1, <2>1, <2>2, FirstByteShots
  <1>11. QED
    BY <1>5, <1>7, <1>8, <1>9, <1>10 DEF Codes, LHTyped

(* The rest of a single step writes no byte but the one-shot, and comes    *)
(* after the entry has been armed again.                                   *)
LEMMA NoEntryPending ==
    ASSUME Codes, NEW t \in GameThreads, exception[t] \in {"trace", "arming"}
    PROVE  rearm[t] = Nowhere
  BY DEF Codes, Hooked, Stepping

LEMMA TraceCodes ==
    ASSUME Codes, NEW t \in GameThreads, Handler(t),
           StopTrace(t) \/ CaptureLifecycleCall(t) \/ StepOn(t)
    PROVE  Codes'
  <1>1. UNCHANGED <<byte, at, rearm, over, overSaved>> /\ exception[t] = "trace"
    BY DEF StopTrace, CaptureLifecycleCall, StepOn, Handler, Continues
  <1>2. /\ exception' = [exception EXCEPT ![t] = "none"]
        /\ trace' \in [GameThreads -> Traced \union {Nowhere}]
        /\ steps' \in [GameThreads -> Nat] /\ tf' \in [GameThreads -> BOOLEAN]
        /\ owed' \in [GameThreads -> BOOLEAN]
    <2> USE DEF Codes, LHTyped, ThreadsOK, Exceptions
    <2>1. CASE StopTrace(t)
      BY <2>1 DEF StopTrace
    <2>2. CASE CaptureLifecycleCall(t)
      BY <2>2 DEF CaptureLifecycleCall
    <2>3. CASE StepOn(t)
      BY <2>3 DEF StepOn
    <2>4. QED
      BY <2>1, <2>2, <2>3
  <1>3. ThreadsOK'
    BY <1>1, <1>2 DEF Codes, LHTyped, ThreadsOK, Exceptions
  <1>4. BytesOK' /\ HooksOK'
    BY <1>1, HooksRest DEF Codes, LHTyped, BytesOK
  <1>8. exception'[t] = "none"
    BY <1>2 DEF Codes, LHTyped, ThreadsOK
  <1>5. Hooked'
    BY <1>1, <1>8, NoEntryPending, HookedKept DEF Codes
  <1>6. Shots'
    <2>1. exception'[t] \notin {"arming", "one-shot"}
      BY <1>8
    <2>2. QED
      BY <1>1, <2>1, FirstByteShots
  <1>7. QED
    BY <1>3, <1>4, <1>5, <1>6 DEF Codes, LHTyped

LEMMA ReadCodes ==
    ASSUME Codes, NEW t \in GameThreads, ReadBehindCall(t), Handler(t) PROVE Codes'
  <1>1. /\ UNCHANGED <<byte, at, tf, rearm, trace, over, owed>> /\ exception[t] = "trace"
        /\ exception' = [exception EXCEPT ![t] = "arming"]
        /\ steps' = [steps EXCEPT ![t] = @ + 1]
        /\ InCode(t) /\ AtCall(t) /\ controller /\ over[t] = Nowhere
        /\ overSaved' = [overSaved EXCEPT ![t] = "code"]
    BY DEF ReadBehindCall, Handler, Continues, InBounds, CanStepOver
  <1>2. ThreadsOK'
    BY <1>1 DEF Codes, LHTyped, ThreadsOK, Exceptions
  <1>7. exception'[t] = "arming"
    BY <1>1 DEF Codes, LHTyped, ThreadsOK
  <1>3. BytesOK' /\ HooksOK'
    BY <1>1, HooksRest DEF Codes, LHTyped, BytesOK
  <1>4. Hooked'
    BY <1>1, <1>7, NoEntryPending, HookedKept DEF Codes
  <1>5. Shots'
    <2>1. at'[t] # <<>> /\ InCode(t)' /\ AtCall(t)' /\ over'[t] = Nowhere /\ controller
      BY <1>1, Unmoved DEF InCode
    <2>2. \A a : Awaits(t, a)' = Awaits(t, a)
      BY <1>1, SamePlace
    <2>3. Aims(t)'
      BY <1>7, <2>1, HooksRest DEF Aims
    <2>4. \A h \in Hook : \A i \in 2 .. Last(h) : byte'[h][i] = byte[h][i]
      BY <1>1
    <2>5. QED
      BY <2>2, <2>3, <2>4, ShotsKept DEF Codes
  <1>6. QED
    BY <1>2, <1>3, <1>4, <1>5 DEF Codes, LHTyped

LEMMA ArmCodes ==
    ASSUME Codes, NEW t \in GameThreads, ArmStepOver(t), Handler(t) PROVE Codes'
  <1> DEFINE f == Function(t)
             p == Position(t)
  <1>1. /\ UNCHANGED <<at, rearm, trace, steps, overSaved, owed>> /\ exception[t] = "arming"
        /\ exception' = [exception EXCEPT ![t] = "none"] /\ tf' = [tf EXCEPT ![t] = FALSE]
        /\ over' = [over EXCEPT ![t] = <<f, p + 1>>]
        /\ byte' = [byte EXCEPT ![f][p + 1] = "int3"]
    BY DEF ArmStepOver, Handler
  <1>2. at[t] # <<>> /\ InCode(t) /\ AtCall(t) /\ over[t] = Nowhere /\ controller
    BY <1>1 DEF Codes, Shots, Aims
  <1>3. f \in Hook /\ p \in Nat /\ p >= 2 /\ p + 1 \in 1 .. Last(f)
    BY <1>2, WhereItRuns DEF Codes
  <1>4. <<f, p + 1>> \in Address
    BY <1>3, AnAddress
  <1>5. ThreadsOK'
    BY <1>1, <1>4 DEF Codes, LHTyped, ThreadsOK, Exceptions
  <1>6. PICK b : b = <<f, p + 1>>
    OBVIOUS
  <1>7. over'[t] = b /\ exception'[t] = "none"
    BY <1>1, <1>6 DEF Codes, LHTyped, ThreadsOK
  <1>8. Awaits(t, b)'
    <2>1. Calling(t, b)
      BY <1>2, <1>6 DEF Calling
    <2>2. Calling(t, b)'
      BY <1>1, <2>1, Unmoved
    <2>3. QED
      BY <1>7, <2>2 DEF Awaits
  <1> HIDE DEF f, p
  <1>9. /\ BytesOK'
        /\ \A g \in Hook : \A j \in 1 .. Last(g) :
             byte'[g][j] = IF g = f /\ j = p + 1 THEN "int3" ELSE byte[g][j]
    BY <1>1, <1>3, Patched DEF Codes, LHTyped, Bytes
  <1>10. HooksOK'
    BY HooksRest
  <1>11. Hooked'
    <2>1. \A h \in Hook : byte'[h][1] = byte[h][1]
      BY <1>3, <1>9, Lasts
    <2>2. QED
      BY <1>1, <1>7, <2>1, NoEntryPending, HookedKept DEF Codes
  <1>12. Shots'
    <2>1. ASSUME NEW u \in GameThreads, u # t
          PROVE  /\ exception'[u] = exception[u] /\ over'[u] = over[u] /\ at'[u] = at[u]
                 /\ InCode(u)' = InCode(u) /\ AtCall(u)' = AtCall(u)
                 /\ \A a : Awaits(u, a)' = Awaits(u, a)
      <3>1. exception'[u] = exception[u] /\ over'[u] = over[u] /\ at'[u] = at[u]
        BY <2>1, OthersRest DEF Codes, LHTyped
      <3>2. QED
        BY <3>1, Unmoved, SamePlace
    <2>2. controller'
      BY <1>2, HooksRest
    <2>3. over'[t][2] > 1
      BY <1>3, <1>6, <1>7
    <2>4. ASSUME NEW u \in GameThreads PROVE Aims(u)'
      <3>1. CASE u = t
        BY <1>7, <2>2, <2>3, <3>1 DEF Aims
      <3>2. CASE u # t
        <4>1. Aims(u)
          BY DEF Codes, Shots
        <4>2. QED
          BY <1>2, <2>1, <2>2, <3>2, <4>1 DEF Aims
      <3>3. QED
        BY <3>1, <3>2
    <2>5. ASSUME NEW h \in Hook, NEW i \in 2 .. Last(h), byte'[h][i] = "int3"
          PROVE  \E u \in GameThreads : Awaits(u, <<h, i>>)'
      <3>1. CASE h = f /\ i = p + 1
        <4>1. <<h, i>> = b
          BY <1>6, <3>1
        <4>2. QED
          BY <1>8, <4>1
      <3>2. CASE ~(h = f /\ i = p + 1)
        <4>1. i \in 1 .. Last(h)
          BY Lasts
        <4>2. byte[h][i] = "int3"
          BY <1>9, <2>5, <3>2, <4>1
        <4>3. PICK u \in GameThreads : Awaits(u, <<h, i>>)
          BY <4>2 DEF Codes, Shots
        <4>4. <<h, i>> # Nowhere
          BY <4>1, AnAddress, Addresses
        <4>5. u # t
          BY <1>2, <4>3, <4>4 DEF Awaits
        <4>6. QED
          BY <2>1, <4>3, <4>5
      <3>3. QED
        BY <3>1, <3>2
    <2>6. QED
      BY <2>4, <2>5 DEF Shots
  <1>13. QED
    BY <1>5, <1>9, <1>10, <1>11, <1>12 DEF Codes, LHTyped

LEMMA NobodysCodes ==
    ASSUME Codes, NEW t \in GameThreads, NobodysInt3(t) \/ NobodysStep(t), Handler(t)
    PROVE  Codes'
  <1>1. UNCHANGED <<byte, at, tf, exception, rearm, trace, steps, over, overSaved, owed>>
    BY DEF NobodysInt3, NobodysStep, Handler, traceVars
  <1>2. ThreadsOK'
    BY <1>1 DEF Codes, LHTyped, ThreadsOK
  <1>3. BytesOK' /\ HooksOK'
    BY <1>1, HooksRest DEF Codes, LHTyped, BytesOK
  <1>4. Hooked'
    <2>1. rearm[t] # Nowhere => Stepping(t)
      BY DEF Codes, Hooked
    <2>2. Stepping(t)' = Stepping(t)
      BY <1>1 DEF Stepping
    <2>3. exception'[t] # "hook"
      BY <1>1 DEF NobodysInt3, NobodysStep, AtInt3, Running
    <2>4. QED
      BY <1>1, <2>1, <2>2, <2>3, HookedKept DEF Codes
  <1>5. Shots'
    BY <1>1, HooksRest, BootstrapShots DEF Codes
  <1>6. QED
    BY <1>2, <1>3, <1>4, <1>5 DEF Codes, LHTyped

(* A trap only tells the thread whose INT3 it has met.                     *)
LEMMA TrapCodes == ASSUME Codes, NEW t \in GameThreads, Trap(t), Handler(t) PROVE Codes'
  <1>1. /\ UNCHANGED <<byte, at, tf, rearm, trace, steps, over, overSaved, owed>>
        /\ exception[t] = "none" /\ at[t] # <<>> /\ InCode(t) /\ byte[Function(t)][Position(t)] = "int3"
    BY DEF Trap, Handler, traceVars, AtInt3, Running
  <1>2. \/ AtOneShot(t) /\ exception' = [exception EXCEPT ![t] = "one-shot"]
        \/ AtHook(t) /\ exception' = [exception EXCEPT ![t] = "hook"]
    BY DEF Trap
  <1>3. \/ AtOneShot(t) /\ exception'[t] = "one-shot"
        \/ AtHook(t) /\ exception'[t] = "hook"
    BY <1>2 DEF Codes, LHTyped, ThreadsOK
  <1>4. ThreadsOK'
    BY <1>1, <1>2 DEF Codes, LHTyped, ThreadsOK, Exceptions
  <1>5. BytesOK' /\ HooksOK'
    BY <1>1, HooksRest DEF Codes, LHTyped, BytesOK
  <1>6. Function(t)' = Function(t) /\ Position(t)' = Position(t) /\ InCode(t)' = InCode(t)
    BY <1>1, Unmoved
  <1>7. /\ Function(t) \in Hook /\ Position(t) \in Nat
        /\ Head(at[t]) = <<Function(t), Position(t)>> /\ Head(at[t]) # Nowhere
    BY <1>1, WhereItRuns DEF Codes
  <1>8. AtOneShot(t) => Position(t) > 1 /\ over[t] = Head(at[t]) /\ over[t] # Nowhere
    <2>1. over[t] # Nowhere => over[t][2] > 1
      BY DEF Codes, Shots, Aims
    <2>2. QED
      BY <1>7, <2>1 DEF AtOneShot
  <1>9. Hooked'
    <2>1. exception'[t] = "hook" => Entering(t)'
      <3>1. SUFFICES ASSUME exception'[t] = "hook" PROVE Entering(t)'
        OBVIOUS
      <3>2. Position(t) = 1 /\ armed[Function(t)]
        BY <1>3, <3>1 DEF AtHook
      <3>3. ~Patching(Function(t))
        BY <1>1, <1>7, <3>2 DEF Codes, Hooked
      <3>4. UNCHANGED <<armed, wpc, next>>
        BY HooksRest
      <3>5. QED
        BY <1>1, <1>6, <3>2, <3>3, <3>4 DEF Entering, Patching
    <2>2. rearm[t] # Nowhere => Stepping(t)'
      <3>1. rearm[t] # Nowhere => tf[t] /\ Head(at[t]) = <<rearm[t], 1>>
        BY <1>1 DEF Codes, Hooked, Stepping
      <3>2. rearm[t] # Nowhere => exception'[t] = "hook"
        BY <1>3, <1>7, <1>8, <3>1
      <3>3. QED
        BY <1>1, <3>1, <3>2 DEF Stepping
    <2>3. QED
      BY <1>1, <2>1, <2>2, HookedKept DEF Codes
  <1>10. Shots'
    <2>1. \A a : Awaits(t, a)' = Awaits(t, a)
      BY <1>1, SamePlace
    <2>2. over'[t] # Nowhere => over'[t][2] > 1 /\ controller'
      BY <1>1, HooksRest DEF Codes, Shots, Aims
    <2>3. exception'[t] = "one-shot" => over'[t] = Head(at'[t])
      BY <1>1, <1>3, <1>8
    <2>4. exception'[t] # "arming"
      BY <1>3
    <2>5. Aims(t)'
      BY <1>1, <1>6, <2>2, <2>3, <2>4 DEF Aims
    <2>6. QED
      BY <1>1, <2>1, <2>5, ShotsKept DEF Codes
  <1>11. QED
    BY <1>4, <1>5, <1>9, <1>10 DEF Codes, LHTyped

(* A patch that the system refuses: the entry stays STR's, which refused   *)
(* remembers; the rest is as if there had been nothing to patch.           *)
LEMMA RefusedCodes ==
    ASSUME Codes, NEW t \in GameThreads, PatchRefused(t), Handler(t) PROVE Codes'
  <1>1. UNCHANGED <<byte, at, tf, trace, steps, over, overSaved, owed>>
    BY DEF PatchRefused, Handler
  <1>2. UNCHANGED <<saved, armed, resolver, controller, wpc, next>>
    BY HooksRest
  <1>3. BytesOK' /\ HooksOK'
    BY <1>1, HooksRest DEF Codes, LHTyped, BytesOK
  <1>4. refused' = refused \union {exception[t]}
    BY DEF PatchRefused
  <1>5. CASE UNCHANGED <<exception, rearm>>
    <2>1. ThreadsOK'
      BY <1>1, <1>5 DEF Codes, LHTyped, ThreadsOK
    <2>2. Stepping(t)' = Stepping(t)
      BY <1>1, <1>5 DEF Stepping
    <2>3. rearm[t] # Nowhere => Stepping(t)
      BY DEF Codes, Hooked
    <2>4. exception'[t] = "hook" => Entering(t)'
      BY <1>1, <1>2, <1>5, EnteringKept DEF Codes
    <2>5. Hooked'
      BY <1>1, <1>5, <2>2, <2>3, <2>4, HookedKept DEF Codes
    <2>6. Shots'
      BY <1>1, <1>2, <1>5, BootstrapShots DEF Codes
    <2>7. QED
      BY <1>3, <2>1, <2>5, <2>6 DEF Codes, LHTyped
  <1>6. CASE /\ exception[t] = "step" /\ rearm' = [rearm EXCEPT ![t] = Nowhere]
             /\ exception' = [exception EXCEPT ![t] = "trace"]
    <2>1. ThreadsOK'
      BY <1>1, <1>6 DEF Codes, LHTyped, ThreadsOK, Exceptions
    <2>2. /\ \A u \in GameThreads : rearm'[u] = IF u = t THEN Nowhere ELSE rearm[u]
          /\ \A u \in GameThreads : exception'[u] = IF u = t THEN "trace" ELSE exception[u]
      BY <1>6 DEF Codes, LHTyped, ThreadsOK
    <2>3. "step" \in refused'
      BY <1>4, <1>6
    <2>4. ASSUME NEW u \in GameThreads, rearm'[u] # Nowhere
          PROVE  /\ armed'[rearm'[u]] /\ Stepping(u)'
                 /\ ~(wpc' = "patch" /\ Hooks[next'] = rearm'[u])
      <3>1. u # t /\ rearm'[u] = rearm[u] /\ exception'[u] = exception[u]
        BY <2>2, <2>4
      <3>2. armed[rearm[u]] /\ Stepping(u) /\ ~Patching(rearm[u])
        BY <2>4, <3>1 DEF Codes, Hooked
      <3>3. Stepping(u)'
        BY <1>1, <3>1, <3>2 DEF Stepping
      <3>4. QED
        BY <1>2, <3>1, <3>2, <3>3 DEF Patching
    <2>5. ASSUME NEW u \in GameThreads, exception'[u] = "hook" PROVE Entering(u)'
      BY <1>1, <1>2, <2>2, <2>5, EnteringKept DEF Codes
    <2>6. \A g \in Hook :
            /\ saved'[g] = "code"
            /\ armed'[g] => resolver'
            /\ Patching(g)' => armed'[g]
            /\ byte'[g][1] = "int3" => armed'[g] /\ ~Patching(g)'
      BY <1>1, <1>2 DEF Codes, Hooked, Patching
    <2>7. wpc' # "configure" => resolver'
      BY <1>2 DEF Codes, Hooked
    <2>8. Hooked'
      BY <2>3, <2>4, <2>5, <2>6, <2>7 DEF Hooked, Patching
    <2>9. exception'[t] \notin {"arming", "one-shot"}
      BY <2>2
    <2>10. Shots'
      BY <1>1, <2>9, FirstByteShots
    <2>11. QED
      BY <1>3, <2>1, <2>8, <2>10 DEF Codes, LHTyped
  <1>7. CASE /\ exception[t] = "arming" /\ exception' = [exception EXCEPT ![t] = "none"]
             /\ rearm' = rearm
    <2>1. ThreadsOK'
      BY <1>1, <1>7 DEF Codes, LHTyped, ThreadsOK, Exceptions
    <2>2. exception'[t] = "none"
      BY <1>7 DEF Codes, LHTyped, ThreadsOK
    <2>3. Hooked'
      BY <1>1, <1>7, <2>2, NoEntryPending, HookedKept DEF Codes
    <2>4. Shots'
      BY <1>1, <2>2, FirstByteShots
    <2>5. QED
      BY <1>3, <2>1, <2>3, <2>4 DEF Codes, LHTyped
  <1>8. QED
    BY <1>5, <1>6, <1>7 DEF PatchRefused

(* Nothing of all this changes.                                            *)
LEMMA CodesRest ==
    ASSUME Codes, UNCHANGED <<byte, saved, armed, resolver, controller, wpc, next, refused>>,
           UNCHANGED <<at, tf, exception, rearm, trace, steps, over, overSaved, owed>>
    PROVE  Codes'
  <1>1. LHTyped'
    BY DEF Codes, LHTyped, BytesOK, HooksOK, ThreadsOK
  <1>2. \A t \in GameThreads : Stepping(t)' = Stepping(t)
    BY DEF Stepping
  <1>3. \A t \in GameThreads : exception'[t] = "hook" => Entering(t)'
    BY EnteringKept DEF Codes
  <1>4. Hooked'
    BY <1>2, <1>3 DEF Codes, Hooked, Patching
  <1>5. Shots'
    BY BootstrapShots DEF Codes
  <1>6. QED
    BY <1>1, <1>4, <1>5 DEF Codes

LEMMA CodesNext == Codes /\ [LHNext]_LHvars => Codes'
  <1> SUFFICES ASSUME Codes, [LHNext]_LHvars PROVE Codes'
    OBVIOUS
  <1>1. CASE Bootstrap
    BY <1>1, BootstrapCodes
  <1>2. ASSUME NEW t \in GameThreads, Game(t) PROVE Codes'
    BY <1>2, EnterCodes, ExecuteCodes, ReturnCodes DEF Game
  <1>3. ASSUME NEW t \in GameThreads, Handler(t) PROVE Codes'
    <2>1. \/ Trap(t) \/ OneShot(t) \/ EnterHook(t) \/ NobodysInt3(t) \/ NobodysStep(t)
          \/ RearmEntryHook(t) \/ StopTrace(t) \/ CaptureLifecycleCall(t) \/ StepOn(t)
          \/ ReadBehindCall(t) \/ ArmStepOver(t) \/ PatchRefused(t)
      BY <1>3 DEF Handler
    <2>2. QED
      BY <1>3, <2>1, TrapCodes, OneShotCodes, EnterHookCodes, NobodysCodes, RearmCodes, TraceCodes,
         ReadCodes, ArmCodes, RefusedCodes
  <1>4. ASSUME NEW p \in Patchers, PatchByte(p) PROVE Codes'
    BY <1>4, CodesRest DEF PatchByte, hookVars, workerVars, traceVars, refusals
  <1>5. CASE UNCHANGED LHvars
    BY <1>5, CodesRest DEF LHvars, hookVars, workerVars, traceVars, refusals
  <1>6. QED
    BY <1>1, <1>2, <1>3, <1>4, <1>5 DEF LHNext

(* Nobody is stepping and nobody waits for a one-shot: the code is STR's   *)
(* own but for the armed hooks.                                            *)
LEMMA CodesAccounted == Codes => CodeAccounted
  <1> SUFFICES ASSUME Codes PROVE CodeAccounted
    OBVIOUS
  <1>1. \A h \in Hook : saved[h] = "code"
    BY DEF Codes, Hooked
  <1>2. ASSUME wpc # "patch", \A t \in GameThreads : ~Busy(t),
               NEW h \in Hook, NEW i \in 1 .. Last(h)
        PROVE  /\ byte[h][i] = "int3" => i = 1 /\ armed[h]
               /\ i = 1 /\ armed[h] => byte[h][i] = "int3" \/ "step" \in refused
    <2>1. ASSUME NEW t \in GameThreads PROVE at[t] = <<>> /\ exception[t] = "none"
      BY <1>2 DEF Busy
    <2>2. CASE i = 1
      <3>1. \A t \in GameThreads : rearm[t] = Nowhere
        BY <2>1 DEF Codes, Hooked, Stepping
      <3>2. QED
        BY <1>2, <2>2, <3>1, Names DEF Codes, Hooked, Patching
    <2>3. CASE i # 1
      <3>1. i \in 2 .. Last(h)
        BY <2>3, Lasts
      <3>2. \A t \in GameThreads : ~Awaits(t, <<h, i>>)
        BY <2>1, EmptyStack DEF Awaits, Calling
      <3>3. QED
        BY <2>3, <3>1, <3>2 DEF Codes, Shots
    <2>4. QED
      BY <2>2, <2>3
  <1>3. QED
    BY <1>1, <1>2 DEF CodeAccounted

(* The code is accounted for (Bridge.h 909-1068, Trace.h 127-283): for any *)
(* number of STR's threads and of hooked functions, whatever overlaps and  *)
(* however often arming fails half way, no retry saves an INT3 as STR's    *)
(* byte, and once everybody has left the only bytes changed are the first  *)
(* ones of the armed hooks - all of them, unless the system has refused to *)
(* arm one again.                                                          *)
THEOREM CodeIsAccounted == LHSpec => []CodeAccounted
  <1>1. Codes /\ [LHNext]_LHvars => Codes'
    BY CodesNext
  <1>2. QED
    BY <1>1, CodesInit, CodesAccounted, PTL DEF LHSpec

-----------------------------------------------------------------------------
LEMMA OneAtMost ==
    ASSUME NEW B, IsFiniteSet(B), ~(Cardinality(B) > 1), NEW s \in B, NEW t \in B PROVE s = t
  <1>1. SUFFICES ASSUME s # t PROVE FALSE
    OBVIOUS
  <1>2. Cardinality({s, t}) = 2
    <2>1. IsFiniteSet({t}) /\ Cardinality({t}) = 1
      BY FS_Singleton
    <2>2. Cardinality({t} \union {s}) = Cardinality({t}) + 1
      BY <1>1, <2>1, FS_AddElement
    <2>3. {t} \union {s} = {s, t}
      OBVIOUS
    <2>4. QED
      BY <2>1, <2>2, <2>3
  <1>3. Cardinality({s, t}) <= Cardinality(B) /\ Cardinality(B) \in Nat
    BY FS_Subset, FS_CardinalityType
  <1>4. QED
    BY <1>2, <1>3

(* One thread alone.  What is left of a step: its own thread.              *)
LEMMA LonelyStep ==
    ASSUME ThreadsOK, History, Undisturbed'
    PROVE  /\ Undisturbed
           /\ \A s, t \in GameThreads : Busy(s)' /\ Busy(t)' => s = t
           /\ \A t \in GameThreads : at'[t] \in Seq(Address \union {Nowhere}) => Len(at'[t]) <= 2
  <1> DEFINE B == {t \in GameThreads : Busy(t)'}
  <1>1. Undisturbed /\ ~(Cardinality(B) > 1) /\ \A t \in GameThreads : ~(Len(at'[t]) > 2)
    BY DEF Undisturbed, History
  <1>2. IsFiniteSet(B)
    BY ThreadsAssumption, FS_Subset
  <1>3. \A s, t \in B : s = t
    BY <1>1, <1>2, OneAtMost
  <1>4. \A t \in GameThreads : at'[t] \in Seq(Address \union {Nowhere}) => Len(at'[t]) <= 2
    <2> HIDE DEF B
    <2>1. ASSUME NEW t \in GameThreads, at'[t] \in Seq(Address \union {Nowhere})
          PROVE  Len(at'[t]) <= 2
      <3>1. Len(at'[t]) \in Nat
        BY <2>1
      <3>2. QED
        BY <1>1, <3>1
    <2>2. QED
      BY <2>1
  <1>5. QED
    BY <1>1, <1>3, <1>4

(* Alone but for the code: what the other threads keep when one acts.      *)
LEMMA OthersAlone ==
    ASSUME Codes, Lonely, Undisturbed, NEW u \in GameThreads, Game(u) \/ Handler(u),
           Busy(u) \/ UNCHANGED byte,
           NEW t \in GameThreads, t # u
    PROVE  Alone(t)'
  <1>1. /\ at'[t] = at[t] /\ tf'[t] = tf[t] /\ exception'[t] = exception[t]
        /\ rearm'[t] = rearm[t] /\ trace'[t] = trace[t] /\ over'[t] = over[t]
    BY OthersRest DEF Codes, LHTyped
  <1>2. /\ \A a : Here(t, a)' = Here(t, a) /\ There(t, a)' = There(t, a)
        /\ \A a : Calling(t, a)' = Calling(t, a)
    BY <1>1, Unmoved
  <1>3. Alone(t) /\ (Busy(u) => ~Busy(t))
    BY DEF Lonely
  <1>4. over[t] # Nowhere => UNCHANGED byte
    <2>1. over[t] # Nowhere => at[t] # <<>>
      <3>1. \A a : <<a>> # <<>> /\ <<Nowhere, a>> # <<>>
        OBVIOUS
      <3>2. \A a : Here(t, a) \/ There(t, a) \/ Calling(t, a) => at[t] # <<>>
        BY <3>1 DEF Here, There, Calling
      <3>3. QED
        BY <1>3, <3>2 DEF Alone
    <2>2. QED
      BY <1>3, <2>1 DEF Busy
  <1>5. Expected(t)' = Expected(t)
    BY <1>1 DEF Expected
  <1>6. over'[t] # Nowhere =>
          /\ exception'[t] \in {"none", "one-shot"} /\ ~tf'[t] /\ trace'[t] # Nowhere
          /\ byte'[over'[t][1]][over'[t][2]] = "int3"
          /\ \/ Here(t, over[t])' \/ There(t, over[t])'
             \/ Calling(t, over[t])' /\ Len(at'[t]) = 1
    <2>1. PICK a : a = over[t]
      OBVIOUS
    <2>2. over'[t] = a
      BY <1>1, <2>1
    <2>3. a # Nowhere =>
            /\ exception'[t] \in {"none", "one-shot"} /\ ~tf'[t] /\ trace'[t] # Nowhere
            /\ byte'[a[1]][a[2]] = "int3"
            /\ Here(t, a) \/ There(t, a) \/ (Calling(t, a) /\ Len(at'[t]) = 1)
      BY <1>1, <1>3, <1>4, <2>1 DEF Alone
    <2>4. QED
      BY <1>2, <2>2, <2>3
  <1>7. QED
    BY <1>1, <1>2, <1>3, <1>5, <1>6 DEF Alone

LEMMA Places ==
    /\ \A a : <<a>> # <<>> /\ Len(<<a>>) = 1 /\ Head(<<a>>) = a /\ Tail(<<a>>) = <<>>
    /\ \A a, b : <<a, b>> # <<>> /\ Len(<<a, b>>) = 2 /\ Head(<<a, b>>) = a /\ Tail(<<a, b>>) = <<b>>
    /\ \A a, b : <<a>> \o <<>> = <<a>> /\ <<a, b>> \o <<>> = <<a, b>>
  OBVIOUS

LEMMA AloneHere ==
    ASSUME Codes, NEW t \in GameThreads, Alone(t), InCode(t)
    PROVE  /\ at[t] = <<<<Function(t), Position(t)>>>> /\ Tail(at[t]) = <<>>
           /\ \A a : Here(t, a) => a = Head(at[t])
           /\ \A a : ~There(t, a)
  <1>1. at[t] # <<>> /\ Head(at[t]) # Nowhere /\ Head(at[t]) = <<Function(t), Position(t)>>
    BY WhereItRuns DEF Codes
  <1>2. \A a : ~There(t, a)
    BY <1>1, Places DEF There
  <1>3. PICK a \in Address : at[t] = <<a>>
    BY <1>1, <1>2 DEF Alone, Here
  <1>4. QED
    BY <1>1, <1>2, <1>3, Places DEF Here

LEMMA AloneThere ==
    ASSUME Codes, NEW t \in GameThreads, Alone(t), at[t] # <<>>, Head(at[t]) = Nowhere
    PROVE  /\ \E a \in Address : at[t] = <<Nowhere, a>> /\ Tail(at[t]) = <<a>>
           /\ over[t] # Nowhere => Tail(at[t]) = <<over[t]>>
           /\ ~InCode(t)
  <1>1. ASSUME NEW a \in Address, Here(t, a) PROVE FALSE
    <2>1. Head(at[t]) = a
      BY <1>1, Places DEF Here
    <2>2. QED
      BY <2>1, Addresses
  <1>2. \E a \in Address : at[t] = <<Nowhere, a>>
    BY <1>1 DEF Alone, There
  <1>3. over[t] # Nowhere => at[t] = <<Nowhere, over[t]>>
    <2>1. over[t] # Nowhere => over[t] \in Address
      BY DEF Codes, LHTyped, ThreadsOK
    <2>2. ~InCode(t)
      BY DEF InCode
    <2>3. QED
      BY <1>1, <2>1, <2>2 DEF Alone, There, Calling
  <1>4. ~InCode(t)
    BY DEF InCode
  <1>5. QED
    BY <1>2, <1>3, <1>4, Places

(* Its one-shot is armed only while it runs at full speed.                 *)
LEMMA NotOver ==
    ASSUME Codes, NEW t \in GameThreads, Alone(t), over[t] # Nowhere
    PROVE  /\ exception[t] \in {"none", "one-shot"} /\ ~tf[t] /\ trace[t] # Nowhere /\ over[t] \in Address
           /\ byte[over[t][1]][over[t][2]] = "int3"
           /\ InCode(t) => Head(at[t]) = over[t] \/ Calling(t, over[t])
  <1>1. over[t] \in Address
    BY DEF Codes, LHTyped, ThreadsOK
  <1>2. InCode(t) => Head(at[t]) = over[t] \/ Calling(t, over[t])
    BY AloneHere DEF Alone
  <1>3. QED
    BY <1>1, <1>2 DEF Alone

LEMMA EnterAlone ==
    ASSUME Codes, NEW t \in GameThreads, Alone(t), Enter(t),
           at'[t] \in Seq(Address \union {Nowhere}) => Len(at'[t]) <= 2, Codes'
    PROVE  Alone(t)' /\ at[t] = <<>>
  <1>1. /\ UNCHANGED <<byte, tf, exception, rearm, trace, over>> /\ exception[t] = "none"
        /\ at[t] # <<>> => Head(at[t]) = Nowhere
    BY DEF Enter, traceVars
  <1>2. PICK h \in Hook : at' = [at EXCEPT ![t] = <<<<h, 1>>>> \o @]
    BY DEF Enter
  <1>3. at'[t] = <<<<h, 1>>>> \o at[t] /\ <<h, 1>> \in Address
    BY <1>2, AnAddress, Lasts DEF Codes, LHTyped, ThreadsOK
  <1>4. at[t] = <<>>
    <2>1. SUFFICES ASSUME at[t] # <<>> PROVE FALSE
      OBVIOUS
    <2>2. PICK a \in Address : at[t] = <<Nowhere, a>>
      BY <1>1, <2>1, AloneThere
    <2>3. at'[t] = <<<<h, 1>>, Nowhere, a>>
      BY <1>3, <2>2
    <2>4. at'[t] \in Seq(Address \union {Nowhere})
      BY DEF Codes, LHTyped, ThreadsOK
    <2>5. Len(at'[t]) = 3
      BY <2>3
    <2>6. QED
      BY <2>4, <2>5
  <1>5. over[t] = Nowhere
    <2>1. \A a : ~Here(t, a) /\ ~There(t, a) /\ ~Calling(t, a)
      BY <1>4, Places DEF Here, There, Calling
    <2>2. QED
      BY <2>1 DEF Alone
  <1>6. ~tf[t]
    BY <1>1, <1>4 DEF Alone
  <1>7. PICK a \in Address : a = <<h, 1>>
    BY <1>3
  <1>8. Here(t, a)' /\ at'[t] # <<>>
    BY <1>3, <1>4, <1>7, Places DEF Here
  <1>9. Alone(t)'
    BY <1>1, <1>5, <1>6, <1>8 DEF Alone
  <1>10. QED
    BY <1>4, <1>9

LEMMA ExecuteAlone ==
    ASSUME Codes, NEW t \in GameThreads, Alone(t), Execute(t) PROVE Alone(t)'
  <1> DEFINE f == Function(t)
             p == Position(t)
  <1>1. UNCHANGED <<byte, tf, rearm, trace, steps, over>>
    BY DEF Execute, traceVars
  <1>2. /\ f \in Hook /\ p \in 1 .. Last(f) /\ p \in Nat /\ at[t] = <<<<f, p>>>>
        /\ (AtCall(t) => p + 1 \in 1 .. Last(f)) /\ Head(at[t]) = <<f, p>>
        /\ byte[f][p] = "code" /\ exception[t] = "none" /\ InCode(t) /\ Tail(at[t]) = <<>>
    BY WhereItRuns, AloneHere DEF Codes, Execute, Running
  <1>3. at'[t] = IF AtCall(t) THEN <<Nowhere, <<f, p + 1>>>> \o Tail(at[t])
                 ELSE IF p = Last(f) THEN Tail(at[t]) ELSE <<<<f, p + 1>>>> \o Tail(at[t])
    BY DEF Execute, Codes, LHTyped, ThreadsOK
  <1>4. exception'[t] = IF tf[t] THEN "step" ELSE "none"
    BY DEF Execute, Codes, LHTyped, ThreadsOK
  <1> HIDE DEF f, p
  <1>5. at'[t] = IF AtCall(t) THEN <<Nowhere, <<f, p + 1>>>>
                 ELSE IF p = Last(f) THEN <<>> ELSE <<<<f, p + 1>>>>
    BY <1>2, <1>3, Places
  <1>6. at'[t] = <<>> \/ \E a \in Address : Here(t, a)' \/ There(t, a)'
    <2>1. CASE ~AtCall(t) /\ p = Last(f)
      BY <1>5, <2>1
    <2>2. CASE AtCall(t) \/ p # Last(f)
      <3>1. p + 1 \in 1 .. Last(f)
        BY <1>2, <2>2, Lasts
      <3>2. PICK a \in Address : a = <<f, p + 1>>
        BY <1>2, <3>1, AnAddress
      <3>3. Here(t, a)' \/ There(t, a)'
        BY <1>5, <2>2, <3>2 DEF Here, There
      <3>4. QED
        BY <3>3
    <2>3. QED
      BY <2>1, <2>2
  <1>7. Expected(t)' = Expected(t)
    BY <1>1 DEF Expected
  <1>8. CASE over[t] = Nowhere
    BY <1>1, <1>2, <1>4, <1>6, <1>7, <1>8 DEF Alone
  <1>9. CASE over[t] # Nowhere
    <2>1. /\ ~tf[t] /\ trace[t] # Nowhere /\ byte[over[t][1]][over[t][2]] = "int3"
          /\ over[t] = <<f, p>> \/ Calling(t, over[t])
      BY <1>2, <1>9, NotOver
    <2>2. Calling(t, over[t])
      <3>1. over[t] # <<f, p>>
        BY <1>2, <2>1
      <3>2. QED
        BY <2>1, <3>1
    <2>3. AtCall(t) /\ over[t] = <<f, p + 1>>
      BY <2>2 DEF Calling, f, p
    <2>4. PICK a : a = over[t]
      OBVIOUS
    <2>5. There(t, a)' /\ over'[t] = a
      BY <1>1, <1>5, <2>3, <2>4 DEF There
    <2>6. There(t, over[t])'
      BY <2>5
    <2>7. QED
      BY <1>1, <1>4, <1>6, <1>7, <2>1, <2>6 DEF Alone
  <1>10. QED
    BY <1>8, <1>9

LEMMA ReturnAlone ==
    ASSUME Codes, NEW t \in GameThreads, Alone(t), ReturnFromCallee(t) PROVE Alone(t)'
  <1>1. /\ UNCHANGED <<byte, tf, rearm, trace, over>> /\ exception[t] = "none"
        /\ at[t] # <<>> /\ Head(at[t]) = Nowhere
    BY DEF ReturnFromCallee, traceVars, Running
  <1>2. at'[t] = Tail(at[t]) /\ exception'[t] = IF tf[t] THEN "step" ELSE "none"
    BY DEF ReturnFromCallee, Codes, LHTyped, ThreadsOK
  <1>3. PICK b \in Address : Tail(at[t]) = <<b>>
    BY <1>1, AloneThere
  <1>4. Here(t, b)'
    BY <1>2, <1>3 DEF Here
  <1>5. over[t] # Nowhere => Here(t, over[t])'
    BY <1>1, <1>2, AloneThere DEF Here
  <1>6. Expected(t)' = Expected(t)
    BY <1>1 DEF Expected
  <1>7. CASE over[t] = Nowhere
    BY <1>1, <1>2, <1>4, <1>6, <1>7 DEF Alone
  <1>8. CASE over[t] # Nowhere
    BY <1>1, <1>2, <1>4, <1>5, <1>6, <1>8 DEF Alone
  <1>9. QED
    BY <1>7, <1>8

(* No thread of ours dies: nobody's INT3 and nobody's step do not happen.  *)
LEMMA Somebodys ==
    ASSUME Codes, Lonely, Undisturbed, NEW t \in GameThreads
    PROVE  ~NobodysInt3(t) /\ ~NobodysStep(t)
  <1>0. Alone(t)
    BY DEF Lonely
  <1>1. ASSUME NobodysStep(t) PROVE FALSE
    BY <1>0, <1>1 DEF NobodysStep, Alone, Expected
  <1>2. ASSUME NobodysInt3(t) PROVE FALSE
    <2> DEFINE f == Function(t)
               p == Position(t)
    <2>1. /\ InCode(t) /\ byte[f][p] = "int3" /\ ~AtOneShot(t) /\ ~AtHook(t)
          /\ f \in Hook /\ p \in 1 .. Last(f) /\ at[t] # <<>>
          /\ Head(at[t]) = <<f, p>>
      BY <1>2, WhereItRuns DEF Codes, NobodysInt3, AtInt3
    <2>2. CASE p = 1
      <3>1. armed[f] /\ resolver
        BY <2>1, <2>2 DEF Codes, Hooked
      <3>2. QED
        BY <2>1, <2>2, <3>1 DEF AtHook
    <2>3. CASE p # 1
      <3> HIDE DEF f, p
      <3>1. p \in 2 .. Last(f)
        BY <2>1, <2>3, Lasts
      <3>2. PICK u \in GameThreads : Awaits(u, <<f, p>>)
        BY <2>1, <3>1 DEF Codes, Shots
      <3>3. at[u] # <<>> /\ over[u] = <<f, p>>
        BY <3>2, EmptyStack DEF Awaits, Calling
      <3>4. u = t
        BY <2>1, <3>3 DEF Lonely, Busy
      <3>5. <<f, p>> # Nowhere
        BY <2>1, AnAddress, Addresses
      <3>6. controller
        BY <3>3, <3>5 DEF Codes, Shots, Aims
      <3>7. QED
        BY <2>1, <3>3, <3>4, <3>6 DEF AtOneShot
    <2>4. QED
      BY <2>2, <2>3
  <1>3. QED
    BY <1>1, <1>2

LEMMA NoShotAtHook ==
    ASSUME Codes, NEW t \in GameThreads, Alone(t), AtInt3(t), ~AtOneShot(t), AtHook(t)
    PROVE  over[t] = Nowhere
  <1>1. SUFFICES ASSUME over[t] # Nowhere PROVE FALSE
    OBVIOUS
  <1>2. InCode(t) /\ Position(t) = 1
    BY DEF AtInt3, AtHook
  <1>3. controller
    BY <1>1 DEF Codes, Shots, Aims
  <1>4. Calling(t, over[t])
    BY <1>1, <1>2, <1>3, NotOver DEF AtOneShot
  <1>5. Position(t) >= 2
    BY <1>2, <1>4, WhereItRuns DEF Calling, Codes
  <1>6. QED
    BY <1>2, <1>5

LEMMA TrapAlone ==
    ASSUME Codes, NEW t \in GameThreads, Alone(t), Trap(t), Handler(t) PROVE Alone(t)'
  <1>1. /\ UNCHANGED <<byte, at, tf, rearm, trace, over>>
        /\ exception[t] = "none" /\ at[t] # <<>> /\ AtInt3(t)
    BY DEF Trap, Handler, traceVars, AtInt3, Running
  <1>2. \/ exception'[t] = "one-shot"
        \/ exception'[t] = "hook" /\ ~AtOneShot(t) /\ AtHook(t)
    BY DEF Trap, Codes, LHTyped, ThreadsOK
  <1>3. over[t] # Nowhere => exception'[t] = "one-shot"
    BY <1>1, <1>2, NoShotAtHook
  <1>4. Calling(t, over[t])' = Calling(t, over[t])
    BY <1>1 DEF Calling, InCode, AtCall, Function, Position
  <1>5. /\ \A a : Here(t, a)' = Here(t, a) /\ There(t, a)' = There(t, a)
        /\ Here(t, over[t])' = Here(t, over[t]) /\ There(t, over[t])' = There(t, over[t])
    BY <1>1 DEF Here, There
  <1>6. exception'[t] \notin {"none", "step", "trace", "arming"}
    BY <1>2
  <1>7. over'[t] # Nowhere =>
          /\ exception'[t] \in {"none", "one-shot"} /\ ~tf'[t] /\ trace'[t] # Nowhere
          /\ byte'[over'[t][1]][over'[t][2]] = "int3"
          /\ \/ Here(t, over[t])' \/ There(t, over[t])'
             \/ Calling(t, over[t])' /\ Len(at'[t]) = 1
    BY <1>1, <1>3, <1>4, <1>5 DEF Alone
  <1>8. at'[t] = <<>> \/ \E a \in Address : Here(t, a)' \/ There(t, a)'
    BY <1>1, <1>5 DEF Alone
  <1>9. QED
    BY <1>6, <1>7, <1>8 DEF Alone

LEMMA OneShotAlone ==
    ASSUME Codes, NEW t \in GameThreads, Alone(t), OneShot(t), Handler(t) PROVE Alone(t)'
  <1>1. /\ UNCHANGED <<at, rearm, trace>> /\ over'[t] = Nowhere /\ tf'[t]
        /\ exception[t] = "one-shot" /\ exception'[t] = "none"
    BY DEF OneShot, Handler, Codes, LHTyped, ThreadsOK
  <1>2. at[t] # <<>> /\ InCode(t) /\ over[t] = Head(at[t])
    BY <1>1 DEF Codes, Shots, Aims
  <1>3. over[t] # Nowhere
    BY <1>2, WhereItRuns DEF Codes
  <1>4. trace[t] # Nowhere
    BY <1>3 DEF Alone
  <1>5. \A a : Here(t, a)' = Here(t, a) /\ There(t, a)' = There(t, a)
    BY <1>1, Unmoved
  <1>6. QED
    BY <1>1, <1>2, <1>4, <1>5 DEF Alone, Expected

LEMMA EnterHookAlone ==
    ASSUME Codes, NEW t \in GameThreads, Alone(t), EnterHook(t), Handler(t) PROVE Alone(t)'
  <1>1. /\ UNCHANGED <<at, over>> /\ rearm'[t] = Function(t) /\ tf'[t]
        /\ exception[t] = "hook" /\ exception'[t] = "none"
    BY DEF EnterHook, Handler, Codes, LHTyped, ThreadsOK
  <1>2. at[t] # <<>> /\ Function(t) # Nowhere
    <2>1. Entering(t)
      BY <1>1 DEF Codes, Hooked
    <2>2. QED
      BY <2>1, WhereItRuns, Names DEF Codes, Entering
  <1>3. \A a : Here(t, a)' = Here(t, a) /\ There(t, a)' = There(t, a)
    BY <1>1, Unmoved
  <1>4. over'[t] = Nowhere
    BY <1>1 DEF Alone
  <1>5. QED
    BY <1>1, <1>2, <1>3, <1>4 DEF Alone, Expected

LEMMA StepAlone ==
    ASSUME Codes, NEW t \in GameThreads, Alone(t), Handler(t),
           \/ RearmEntryHook(t) \/ StopTrace(t) \/ CaptureLifecycleCall(t) \/ StepOn(t)
           \/ ReadBehindCall(t)
    PROVE  Alone(t)'
  <1> USE DEF Codes, LHTyped, ThreadsOK
  <1>1. at' = at /\ UNCHANGED over
    BY DEF Handler, RearmEntryHook, StopTrace, CaptureLifecycleCall, StepOn, ReadBehindCall
  <1>2. exception[t] \in {"step", "trace"}
    BY DEF RearmEntryHook, StopTrace, CaptureLifecycleCall, StepOn, ReadBehindCall, Continues
  <1>3. over'[t] = Nowhere /\ tf[t]
    BY <1>1, <1>2 DEF Alone
  <1>4. \A a : Here(t, a)' = Here(t, a) /\ There(t, a)' = There(t, a)
    BY <1>1, Unmoved
  <1>5. CASE RearmEntryHook(t)
    <2>1. exception'[t] = "trace" /\ tf'[t]
      BY <1>3, <1>5 DEF RearmEntryHook
    <2>2. QED
      BY <1>1, <1>3, <1>4, <2>1 DEF Alone
  <1>6. CASE StopTrace(t)
    <2>1. exception'[t] = "none" /\ ~tf'[t]
      BY <1>6 DEF StopTrace
    <2>2. QED
      BY <1>1, <1>3, <1>4, <2>1 DEF Alone
  <1>7. CASE CaptureLifecycleCall(t)
    <2>1. exception'[t] = "none" /\ ~tf'[t]
      BY <1>7 DEF CaptureLifecycleCall
    <2>2. QED
      BY <1>1, <1>3, <1>4, <2>1 DEF Alone
  <1>8. CASE StepOn(t)
    <2>1. exception'[t] = "none" /\ tf'[t] /\ trace'[t] # Nowhere /\ at[t] # <<>>
      BY <1>3, <1>8 DEF StepOn, Continues, InBounds, InCode
    <2>2. QED
      BY <1>1, <1>3, <1>4, <2>1 DEF Alone, Expected
  <1>9. CASE ReadBehindCall(t)
    <2>1. exception'[t] = "arming" /\ trace'[t] # Nowhere
      BY <1>9 DEF ReadBehindCall, Continues
    <2>2. QED
      BY <1>1, <1>3, <1>4, <2>1 DEF Alone
  <1>10. QED
    BY <1>5, <1>6, <1>7, <1>8, <1>9

LEMMA ArmAlone ==
    ASSUME Codes, NEW t \in GameThreads, Alone(t), ArmStepOver(t), Handler(t) PROVE Alone(t)'
  <1> DEFINE f == Function(t)
             p == Position(t)
  <1>1. /\ UNCHANGED <<at, rearm, trace>> /\ exception[t] = "arming"
        /\ exception'[t] = "none" /\ ~tf'[t] /\ over'[t] = <<f, p + 1>>
        /\ byte' = [byte EXCEPT ![f][p + 1] = "int3"]
    BY DEF ArmStepOver, Handler, Codes, LHTyped, ThreadsOK
  <1>2. at[t] # <<>> /\ InCode(t) /\ AtCall(t)
    BY <1>1 DEF Codes, Shots, Aims
  <1>3. f \in Hook /\ p \in Nat /\ p + 1 \in 1 .. Last(f) /\ at[t] = <<<<f, p>>>>
    BY <1>2, WhereItRuns, AloneHere DEF Codes
  <1>4. PICK b : b = <<f, p + 1>>
    OBVIOUS
  <1>5. Calling(t, b)
    BY <1>2, <1>4 DEF Calling
  <1>6. Calling(t, b)' /\ Len(at'[t]) = 1 /\ over'[t] = b
    BY <1>1, <1>3, <1>4, <1>5, Unmoved, Places
  <1>7. Calling(t, over[t])' /\ Len(at'[t]) = 1
    BY <1>6
  <1> HIDE DEF f, p
  <1>8. byte'[f][p + 1] = "int3"
    <2>1. \A g \in Hook : \A j \in 1 .. Last(g) :
            byte'[g][j] = IF g = f /\ j = p + 1 THEN "int3" ELSE byte[g][j]
      BY <1>1, <1>3, Patched DEF Codes, LHTyped, Bytes
    <2>2. QED
      BY <1>3, <2>1
  <1>9. byte'[over'[t][1]][over'[t][2]] = "int3"
    BY <1>1, <1>8
  <1>10. \A a : Here(t, a)' = Here(t, a) /\ There(t, a)' = There(t, a)
    BY <1>1, Unmoved
  <1>11. trace[t] # Nowhere
    BY <1>1 DEF Alone
  <1>12. QED
    BY <1>1, <1>2, <1>7, <1>9, <1>10, <1>11 DEF Alone

LEMMA RestAlone ==
    ASSUME NEW t \in GameThreads, Alone(t), UNCHANGED <<byte, at, tf, exception, rearm, trace, over>>
    PROVE  Alone(t)'
  <1>1. /\ InCode(t)' = InCode(t) /\ AtCall(t)' = AtCall(t)
        /\ Calling(t, over[t])' = Calling(t, over[t])
    BY DEF InCode, AtCall, Calling, Function, Position
  <1>2. QED
    BY <1>1 DEF Alone, Expected, Here, There

LEMMA RefusedAlone ==
    ASSUME Codes, NEW t \in GameThreads, Alone(t), PatchRefused(t), Handler(t)
    PROVE  Alone(t)' /\ (crashed' => crashed \/ Harmed')
  <1>1. UNCHANGED <<byte, at, tf, trace, over>> /\ refused' = refused \union {exception[t]}
    BY DEF PatchRefused, Handler
  <1>2. \A a : Here(t, a)' = Here(t, a) /\ There(t, a)' = There(t, a)
    BY <1>1, Unmoved
  <1>3. CASE exception[t] \in {"one-shot", "hook"} /\ UNCHANGED <<exception, rearm>>
    <2>1. Alone(t)'
      BY <1>1, <1>3, RestAlone
    <2>2. Harmed'
      BY <1>1, <1>3 DEF Harmed
    <2>3. QED
      BY <2>1, <2>2
  <1>4. CASE /\ exception[t] = "step" /\ exception' = [exception EXCEPT ![t] = "trace"]
             /\ UNCHANGED crashed
    <2>1. exception'[t] = "trace"
      BY <1>4 DEF Codes, LHTyped, ThreadsOK
    <2>2. over[t] = Nowhere /\ tf[t]
      BY <1>4 DEF Alone
    <2>3. Alone(t)'
      BY <1>1, <1>2, <2>1, <2>2 DEF Alone
    <2>4. QED
      BY <1>4, <2>3
  <1>5. CASE /\ exception[t] = "arming" /\ exception' = [exception EXCEPT ![t] = "none"]
             /\ UNCHANGED <<rearm, crashed>>
    <2>1. exception'[t] = "none"
      BY <1>5 DEF Codes, LHTyped, ThreadsOK
    <2>2. over[t] = Nowhere /\ at[t] # <<>>
      BY <1>5 DEF Codes, Shots, Aims
    <2>3. trace[t] # Nowhere
      BY <1>5 DEF Alone
    <2>4. Alone(t)'
      BY <1>1, <1>2, <2>1, <2>2, <2>3 DEF Alone, Expected
    <2>5. QED
      BY <1>5, <2>4
  <1>6. QED
    BY <1>3, <1>4, <1>5 DEF PatchRefused

LEMMA BootstrapAlone ==
    ASSUME Codes, Codes', Lonely, Undisturbed, Bootstrap, NEW t \in GameThreads
    PROVE  Alone(t)'
  <1>1. UNCHANGED <<at, tf, exception, rearm, trace, over>>
    BY DEF Bootstrap, traceVars
  <1>2. Alone(t)
    BY DEF Lonely
  <1>3. /\ \A a : Here(t, a)' = Here(t, a) /\ There(t, a)' = There(t, a)
        /\ \A a : Calling(t, a)' = Calling(t, a)
    BY <1>1, Unmoved
  <1>4. over[t] # Nowhere => byte'[over[t][1]][over[t][2]] = "int3"
    <2>1. SUFFICES ASSUME over[t] # Nowhere PROVE byte'[over[t][1]][over[t][2]] = "int3"
      OBVIOUS
    <2>2. /\ over[t] \in Address /\ over[t][1] \in Hook /\ over[t][2] \in 1 .. Last(over[t][1])
          /\ byte[over[t][1]][over[t][2]] = "int3"
      BY <1>2, <2>1, NotOver, Addresses
    <2>3. \/ UNCHANGED byte
          \/ byte' = [byte EXCEPT ![Hooks[next]][1] = "int3"] /\ wpc = "patch"
      <3>1. CASE Configure \/ ArmHook \/ HookRefused \/ InstallController
        BY <3>1 DEF Configure, ArmHook, HookRefused, InstallController
      <3>2. CASE PatchHook
        BY <3>2 DEF PatchHook
      <3>3. QED
        BY <3>1, <3>2 DEF Bootstrap
    <2>4. CASE byte' = [byte EXCEPT ![Hooks[next]][1] = "int3"] /\ wpc = "patch"
      <3> DEFINE h == Hooks[next]
      <3>1. h \in Hook
        BY <2>4 DEF Codes, LHTyped, HooksOK, Hook
      <3> HIDE DEF h
      <3>2. byte' = [byte EXCEPT ![h][1] = "int3"]
        BY <2>4 DEF h
      <3>3. \A g \in Hook : \A j \in 1 .. Last(g) :
              byte'[g][j] = IF g = h /\ j = 1 THEN "int3" ELSE byte[g][j]
        BY <3>1, <3>2, Lasts, Patched DEF Codes, LHTyped, Bytes
      <3>4. QED
        BY <2>2, <3>3
    <2>5. QED
      BY <2>2, <2>3, <2>4
  <1>5. Expected(t)' = Expected(t)
    BY <1>1 DEF Expected
  <1>6. over'[t] # Nowhere =>
          /\ exception'[t] \in {"none", "one-shot"} /\ ~tf'[t] /\ trace'[t] # Nowhere
          /\ byte'[over'[t][1]][over'[t][2]] = "int3"
          /\ \/ Here(t, over[t])' \/ There(t, over[t])'
             \/ Calling(t, over[t])' /\ Len(at'[t]) = 1
    <2>1. PICK a : a = over[t]
      OBVIOUS
    <2>2. over'[t] = a
      BY <1>1, <2>1
    <2>3. a # Nowhere =>
            /\ exception'[t] \in {"none", "one-shot"} /\ ~tf'[t] /\ trace'[t] # Nowhere
            /\ byte'[a[1]][a[2]] = "int3"
            /\ Here(t, a) \/ There(t, a) \/ (Calling(t, a) /\ Len(at'[t]) = 1)
      BY <1>1, <1>2, <1>4, <2>1 DEF Alone
    <2>4. QED
      BY <1>3, <2>2, <2>3
  <1>7. /\ at'[t] = at[t] /\ tf'[t] = tf[t] /\ exception'[t] = exception[t]
        /\ trace'[t] = trace[t] /\ rearm'[t] = rearm[t] /\ over'[t] = over[t]
    BY <1>1
  <1>8. at'[t] = <<>> \/ \E a \in Address : Here(t, a)' \/ There(t, a)'
    BY <1>2, <1>3, <1>7 DEF Alone
  <1>9. QED
    BY <1>2, <1>5, <1>6, <1>7, <1>8 DEF Alone

LEMMA LonelyInit == LHInit => Lonely
  <1>1. ASSUME LHInit, NEW t \in GameThreads PROVE ~Busy(t) /\ Alone(t)
    <2>1. at[t] = <<>> /\ exception[t] = "none" /\ ~tf[t] /\ over[t] = Nowhere
      BY <1>1 DEF LHInit
    <2>2. QED
      BY <2>1 DEF Busy, Alone
  <1>2. LHInit => ~crashed
    BY DEF LHInit
  <1>3. QED
    BY <1>1, <1>2 DEF Lonely

(* PatchByte.  Two protections of the page can only get in each other's    *)
(* way if they are under way at once.                                      *)
LEMMA OnePatch ==
    ASSUME PagesOK, History, ~overlapped'
    PROVE  /\ ~overlapped
           /\ \A p, q \in Patchers : patch'[p] # "none" /\ patch'[q] # "none" => p = q
  <1> DEFINE B == {p \in Patchers : patch'[p] # "none"}
  <1>1. ~overlapped /\ ~(Cardinality(B) > 1)
    BY DEF History
  <1>2. IsFiniteSet(Patchers)
    BY ThreadsAssumption, FS_AddElement DEF Patchers
  <1>3. IsFiniteSet(B)
    BY <1>2, FS_Subset
  <1>4. \A s, t \in B : s = t
    BY <1>1, <1>3, OneAtMost
  <1>5. QED
    BY <1>1, <1>4

(* What a step does to the page: nothing, or one of the three.             *)
LEMMA PageStep ==
    ASSUME LHNext
    PROVE  \/ UNCHANGED pageVars
           \/ \E p \in Patchers : Unprotect(p) \/ Protect(p) \/ Carries(p)
  <1>1. CASE Bootstrap
    BY <1>1 DEF Bootstrap, HookRefused, InstallController, Patchers
  <1>2. ASSUME NEW t \in GameThreads, Game(t) \/ Handler(t)
        PROVE  UNCHANGED pageVars \/ Carries(t)
    BY <1>2 DEF Game, Handler, PatchRefused
  <1>3. ASSUME NEW p \in Patchers, PatchByte(p)
        PROVE  UNCHANGED pageVars \/ Unprotect(p) \/ Protect(p)
    BY <1>3 DEF PatchByte, Fault
  <1>4. QED
    BY <1>1, <1>2, <1>3 DEF LHNext, Patchers

LEMMA PagesInit == LHInit => PagesOK /\ Paged
  BY DEF LHInit, PagesOK, Paged

LEMMA PagesNext == PagesOK /\ Paged /\ [LHNext]_LHvars => PagesOK' /\ Paged'
  <1> SUFFICES ASSUME PagesOK, Paged, [LHNext]_LHvars PROVE PagesOK' /\ Paged'
    OBVIOUS
  <1>1. CASE LHNext
    <2>1. PagesOK'
      BY <1>1, PageStep DEF PagesOK, pageVars, Unprotect, Protect, Carries
    <2>2. ASSUME ~overlapped', NEW q \in Patchers, patch'[q] = "open" PROVE writable'
      <3>1. /\ \A p \in Patchers : patch'[p] # "none" => p = q
            /\ patch[q] = "open" => writable
            /\ \A p \in Patchers : patch[p] # "none" /\ patch[q] # "none" => p = q
        BY <1>1, <2>2, OnePatch DEF LHNext, Paged
      <3>2. CASE UNCHANGED pageVars
        BY <2>2, <3>1, <3>2 DEF pageVars
      <3>3. ASSUME NEW p \in Patchers, Unprotect(p) PROVE writable'
        BY <3>3 DEF Unprotect
      <3>4. ASSUME NEW p \in Patchers, Protect(p) PROVE FALSE
        <4>1. p # q /\ patch'[q] = patch[q]
          BY <2>2, <3>4 DEF Protect, PagesOK
        <4>2. QED
          BY <2>2, <3>1, <3>4, <4>1 DEF Protect
      <3>5. ASSUME NEW p \in Patchers, Carries(p) PROVE writable'
        <4>1. patch[q] = "open" /\ UNCHANGED writable
          BY <2>2, <3>5 DEF Carries, PagesOK
        <4>2. QED
          BY <3>1, <4>1
      <3>6. QED
        BY <1>1, <3>2, <3>3, <3>4, <3>5, PageStep
    <2>3. ~overlapped' => \A p, q \in Patchers : patch'[p] # "none" /\ patch'[q] # "none" => p = q
      BY <1>1, OnePatch DEF LHNext
    <2>4. QED
      BY <2>1, <2>2, <2>3 DEF Paged
  <1>2. CASE UNCHANGED LHvars
    BY <1>2 DEF LHvars, pageVars, PagesOK, Paged
  <1>3. QED
    BY <1>1, <1>2

LEMMA LonelyNext ==
    ASSUME Codes, Lonely, PagesOK, Paged, [LHNext]_LHvars, Undisturbed' PROVE Lonely'
  <1>0. Codes'
    BY CodesNext
  <1>1. CASE LHNext
    <2>1. /\ Undisturbed
          /\ \A s, t \in GameThreads : Busy(s)' /\ Busy(t)' => s = t
          /\ \A t \in GameThreads : at'[t] \in Seq(Address \union {Nowhere}) => Len(at'[t]) <= 2
      BY <1>1, LonelyStep DEF LHNext, Codes, LHTyped
    <2>2. ~crashed
      BY <1>1 DEF LHNext
    <2>3. CASE Bootstrap
      <3>1. ~crashed'
        BY <2>2, <2>3 DEF Bootstrap
      <3>2. \A t \in GameThreads : Alone(t)'
        BY <1>0, <2>1, <2>3, BootstrapAlone
      <3>3. QED
        BY <2>1, <3>1, <3>2 DEF Lonely
    <2>4. ASSUME NEW u \in GameThreads, Game(u) PROVE Lonely'
      <3>1. UNCHANGED <<byte, crashed>>
        BY <2>4 DEF Game, Enter, Execute, ReturnFromCallee
      <3>2. Alone(u)
        BY <2>1 DEF Lonely
      <3>3. Alone(u)'
        BY <1>0, <2>1, <2>4, <3>2, EnterAlone, ExecuteAlone, ReturnAlone DEF Game
      <3>4. \A t \in GameThreads : t # u => Alone(t)'
        BY <2>1, <2>4, <3>1, OthersAlone
      <3>5. QED
        BY <2>1, <2>2, <3>1, <3>3, <3>4 DEF Lonely
    <2>5. ASSUME NEW u \in GameThreads, Handler(u) PROVE Lonely'
      <3>1. ~NobodysInt3(u) /\ ~NobodysStep(u) /\ Alone(u)
        BY <2>1, Somebodys DEF Lonely
      <3>2. \/ Trap(u) \/ OneShot(u) \/ EnterHook(u) \/ RearmEntryHook(u) \/ StopTrace(u)
            \/ CaptureLifecycleCall(u) \/ StepOn(u) \/ ReadBehindCall(u) \/ ArmStepOver(u)
            \/ PatchRefused(u)
        BY <2>5, <3>1 DEF Handler
      <3>3. Busy(u)
        BY <3>2 DEF Trap, OneShot, EnterHook, RearmEntryHook, StopTrace, CaptureLifecycleCall,
                    StepOn, ReadBehindCall, ArmStepOver, PatchRefused, AtInt3, Running, Continues, Busy
      <3>4. Alone(u)' /\ (crashed' => Harmed')
        <4>1. CASE PatchRefused(u)
          BY <2>2, <2>5, <3>1, <4>1, RefusedAlone
        <4>2. CASE ~PatchRefused(u)
          <5>1. UNCHANGED crashed
            BY <3>2, <4>2 DEF Trap, OneShot, EnterHook, RearmEntryHook, StopTrace,
                    CaptureLifecycleCall, StepOn, ReadBehindCall, ArmStepOver
          <5>2. QED
            BY <2>2, <2>5, <3>1, <3>2, <4>2, <5>1, TrapAlone, OneShotAlone, EnterHookAlone, StepAlone,
               ArmAlone
        <4>3. QED
          BY <4>1, <4>2
      <3>5. \A t \in GameThreads : t # u => Alone(t)'
        BY <2>1, <2>5, <3>3, OthersAlone
      <3>6. QED
        BY <2>1, <3>4, <3>5 DEF Lonely
    <2>6. ASSUME NEW p \in Patchers, PatchByte(p) PROVE Lonely'
      <3>1. UNCHANGED <<byte, at, tf, exception, rearm, trace, over>>
        BY <2>6 DEF PatchByte, traceVars
      <3>2. \A t \in GameThreads : Alone(t)'
        BY <2>1, <3>1, RestAlone DEF Lonely
      <3>3. crashed' => Harmed'
        <4>1. crashed' => Fault(p)
          BY <2>2, <2>6 DEF PatchByte, Unprotect, Protect
        <4>2. Fault(p) => overlapped
          BY DEF Fault, Paged
        <4>3. overlapped => overlapped'
          BY <1>1 DEF LHNext, History
        <4>4. QED
          BY <4>1, <4>2, <4>3 DEF Harmed
      <3>4. QED
        BY <2>1, <3>2, <3>3 DEF Lonely
    <2>7. QED
      BY <1>1, <2>3, <2>4, <2>5, <2>6 DEF LHNext
  <1>2. CASE UNCHANGED LHvars
    <2>1. /\ UNCHANGED <<byte, at, tf, exception, rearm, trace, over>>
          /\ UNCHANGED <<crashed, met, nested, overlapped, refused>>
      BY <1>2 DEF LHvars, traceVars, refusals
    <2>2. \A t \in GameThreads : Busy(t)' = Busy(t)
      BY <2>1 DEF Busy
    <2>3. \A t \in GameThreads : Alone(t) => Alone(t)'
      BY <2>1, RestAlone
    <2>4. QED
      BY <2>1, <2>2, <2>3 DEF Lonely, Undisturbed, Harmed
  <1>3. QED
    BY <1>1, <1>2

LEMMA LonelyKept == Codes /\ Lonely /\ PagesOK /\ Paged /\ [LHNext]_LHvars => Lonely'
  <1>1. ASSUME ~Undisturbed' PROVE Lonely'
    BY <1>1 DEF Lonely
  <1>2. QED
    BY <1>1, LonelyNext

(* A trace alone is safe (Trace.h 127-283, Bridge.h 533-543 and 909-1068): *)
(* whatever the number of threads, hooks and steps, while one thread at a  *)
(* time is in one call of a hooked function nobody's exception is without  *)
(* an owner, and the thread dies only if its PatchByte overlapped the      *)
(* bootstrap thread's, or if the system refused to take an INT3 away.      *)
THEOREM TraceIsSafeAlone == LHSpec => []AloneIsSafe
  <1> DEFINE Inv == Codes /\ Lonely /\ PagesOK /\ Paged
  <1>1. LHInit => Inv
    BY CodesInit, LonelyInit, PagesInit
  <1>2. Inv /\ [LHNext]_LHvars => Inv'
    BY CodesNext, LonelyKept, PagesNext
  <1>3. Inv => AloneIsSafe
    BY DEF Lonely, AloneIsSafe, Undisturbed, Harmed
  <1>4. QED
    BY <1>1, <1>2, <1>3, PTL DEF LHSpec

-----------------------------------------------------------------------------
LEMMA BeforeCalls ==
    ASSUME NEW p \in 1 .. Length, Before(p)
    PROVE  /\ p \in Nat /\ p >= 1 /\ p + 1 \in 1 .. Length
           /\ p \in CallSites => p >= 2
           /\ p \notin Publishing => Before(p + 1)
  <1>1. PICK q \in Publishing : p <= q
    BY DEF Before
  <1>2. q \in Int /\ q <= Length - 1 /\ Length \in Nat /\ p \in Nat /\ p >= 1
    BY <1>1, CodeAssumption
  <1>3. p + 1 \in 1 .. Length
    BY <1>1, <1>2
  <1>4. p \in CallSites => p >= 2
    BY CodeAssumption
  <1>5. ASSUME p \notin Publishing PROVE Before(p + 1)
    <2>1. ASSUME NEW r \in Publishing PROVE p + 1 <= r
      <3>1. p <= r /\ r # p /\ r \in Int
        BY <1>5, CodeAssumption DEF Before
      <3>2. QED
        BY <1>2, <3>1
    <2>2. QED
      BY <1>1, <1>3, <2>1 DEF Before
  <1>6. QED
    BY <1>2, <1>3, <1>4, <1>5

(* Where the thread is that owes its report.                               *)
LEMMA TracedAddress ==
    ASSUME NEW h \in Traced, NEW i \in 1 .. Length
    PROVE  /\ h \in Hook /\ Last(h) = Length /\ <<h, i>> \in Address /\ <<h, i>> # Nowhere
           /\ h # Nowhere
  <1>1. h \in Hook /\ Last(h) = Length /\ h # Nowhere
    BY HookAssumption DEF Last
  <1>2. <<h, i>> \in Address
    BY <1>1, AnAddress
  <1>3. QED
    BY <1>1, <1>2, Addresses

LEMMA HereIs ==
    ASSUME NEW t \in GameThreads, NEW h \in Traced, NEW i \in 1 .. Length, Here(t, <<h, i>>)
    PROVE  /\ at[t] # <<>> /\ InCode(t) /\ Function(t) = h /\ Position(t) = i
           /\ AtCall(t) <=> i \in CallSites
  <1>1. at[t] # <<>> /\ Head(at[t]) = <<h, i>>
    BY Places DEF Here
  <1>2. Function(t) = h /\ Position(t) = i
    BY <1>1 DEF Function, Position
  <1>3. InCode(t)
    BY <1>1, TracedAddress DEF InCode
  <1>4. AtCall(t) <=> i \in CallSites
    BY <1>2 DEF AtCall
  <1>5. QED
    BY <1>1, <1>2, <1>3, <1>4

LEMMA ThereIs ==
    ASSUME NEW t \in GameThreads, NEW a, There(t, a)
    PROVE  at[t] # <<>> /\ ~InCode(t) /\ Tail(at[t]) = <<a>>
  BY Places DEF There, InCode

LEMMA ReportingKept ==
    ASSUME NEW t \in GameThreads, Reporting(t), controller => controller',
           at'[t] = at[t], tf'[t] = tf[t], exception'[t] = exception[t],
           trace'[t] = trace[t], steps'[t] = steps[t], over'[t] = over[t]
    PROVE  Reporting(t)'
  <1>1. PICK h \in Traced, p \in 1 .. Length : trace[t] = h /\ Before(p) /\ Coming(t, h, p)
    BY DEF Reporting
  <1>2. \A a : Here(t, a)' = Here(t, a) /\ There(t, a)' = There(t, a)
    BY Unmoved
  <1>3. Coming(t, h, p)'
    BY <1>1, <1>2 DEF Coming
  <1>4. controller'
    BY DEF Reporting
  <1>5. QED
    BY <1>1, <1>3, <1>4 DEF Reporting, Before

LEMMA Reports ==
    ASSUME NEW t \in GameThreads, NEW h \in Traced, NEW p \in 1 .. Length,
           controller', trace'[t] = h, Before(p), Coming(t, h, p)'
    PROVE  Reporting(t)'
  BY DEF Reporting, Before

LEMMA ExecuteOwing ==
    ASSUME Codes, NEW t \in GameThreads, Alone(t), Execute(t), Game(t), Reporting(t)
    PROVE  Reporting(t)'
  <1>1. PICK h \in Traced, p \in 1 .. Length : trace[t] = h /\ Before(p) /\ Coming(t, h, p)
    BY DEF Reporting
  <1>2. /\ exception[t] = "none" /\ InCode(t) /\ byte[Function(t)][Position(t)] = "code"
        /\ UNCHANGED <<tf, trace, steps, over>>
    BY DEF Execute, Running, traceVars
  <1>3. /\ at'[t] = IF AtCall(t) THEN <<Nowhere, <<Function(t), Position(t) + 1>>>> \o Tail(at[t])
                    ELSE IF Position(t) = Last(Function(t)) THEN Tail(at[t])
                    ELSE <<<<Function(t), Position(t) + 1>>>> \o Tail(at[t])
        /\ exception'[t] = IF tf[t] THEN "step" ELSE "none"
    BY DEF Execute, Codes, LHTyped, ThreadsOK
  <1>4. Tail(at[t]) = <<>>
    BY <1>2, AloneHere
  <1>5. /\ p \in Nat /\ p >= 1 /\ p + 1 \in 1 .. Length
        /\ p \notin Publishing => Before(p + 1)
    BY <1>1, BeforeCalls
  <1>6. controller' /\ trace'[t] = h
    BY <1>1, <1>2, HooksRest DEF Reporting
  <1>7. Last(h) = Length /\ Length \in Nat
    BY TracedAddress, CodeAssumption
  <1>8. steps[t] \in Nat
    BY DEF Codes, LHTyped, ThreadsOK
  <1>9. CASE /\ tf[t] /\ over[t] = Nowhere /\ Here(t, <<h, p>>) /\ p \notin CallSites
             /\ steps[t] <= p - 1
    <2>1. Function(t) = h /\ Position(t) = p /\ ~AtCall(t)
      BY <1>9, HereIs
    <2>2. at'[t] = <<<<h, p + 1>>>>
      <3>1. p # Last(h)
        BY <1>5, <1>7
      <3>2. at'[t] = <<<<h, p + 1>>>> \o <<>>
        BY ONLY <1>3, <1>4, <2>1, <3>1
      <3>3. QED
        BY <3>2, Places
    <2>3. Before(p + 1)
      BY <1>5, <1>9, CodeAssumption
    <2>4. exception'[t] = "step" /\ tf'[t] /\ over'[t] = Nowhere /\ steps'[t] <= (p + 1) - 2
      BY <1>2, <1>3, <1>5, <1>8, <1>9
    <2>5. Here(t, <<h, p + 1>>)'
      BY <2>2 DEF Here
    <2>6. Coming(t, h, p + 1)'
      BY <2>4, <2>5 DEF Coming
    <2>7. QED
      BY <1>5, <1>6, <2>3, <2>6, Reports
  <1>10. CASE /\ ~tf[t] /\ over[t] = <<h, p + 1>> /\ p \in SteppedOver /\ steps[t] <= p - 1
              /\ Here(t, <<h, p>>) \/ There(t, <<h, p + 1>>) \/ Here(t, <<h, p + 1>>)
    <2>1. ~There(t, <<h, p + 1>>)
      BY <1>2, ThereIs
    <2>2. ~Here(t, <<h, p + 1>>)
      <3>1. <<h, p + 1>> # Nowhere
        BY <1>5, TracedAddress
      <3>2. byte[over[t][1]][over[t][2]] = "int3"
        BY <1>10, <3>1, NotOver
      <3>3. byte[h][p + 1] = "int3"
        BY <1>10, <3>2
      <3>4. QED
        BY <1>2, <1>5, <3>3, HereIs
    <2>3. Function(t) = h /\ Position(t) = p /\ AtCall(t)
      BY <1>10, <2>1, <2>2, HereIs DEF SteppedOver
    <2>4. at'[t] = <<Nowhere, <<h, p + 1>>>>
      BY <1>3, <1>4, <2>3, Places
    <2>5. There(t, <<h, p + 1>>)'
      BY <2>4 DEF There
    <2>6. /\ exception'[t] = "none" /\ ~tf'[t] /\ over'[t] = <<h, p + 1>>
          /\ p \in SteppedOver /\ steps'[t] <= p - 1
      BY <1>2, <1>3, <1>10
    <2>7. Coming(t, h, p)'
      BY <2>5, <2>6 DEF Coming
    <2>8. QED
      BY <1>1, <1>6, <2>7, Reports
  <1>11. QED
    BY <1>1, <1>2, <1>9, <1>10 DEF Coming

LEMMA ReturnOwing ==
    ASSUME Codes, NEW t \in GameThreads, ReturnFromCallee(t), Game(t), Reporting(t)
    PROVE  Reporting(t)'
  <1>1. PICK h \in Traced, p \in 1 .. Length : trace[t] = h /\ Before(p) /\ Coming(t, h, p)
    BY DEF Reporting
  <1>2. /\ exception[t] = "none" /\ ~InCode(t) /\ UNCHANGED <<tf, trace, steps, over>>
    BY DEF ReturnFromCallee, Running, traceVars, InCode
  <1>3. at'[t] = Tail(at[t]) /\ exception'[t] = IF tf[t] THEN "step" ELSE "none"
    BY DEF ReturnFromCallee, Codes, LHTyped, ThreadsOK
  <1>4. p + 1 \in 1 .. Length
    BY <1>1, BeforeCalls
  <1>5. ~Here(t, <<h, p>>) /\ ~Here(t, <<h, p + 1>>)
    BY <1>2, <1>4, HereIs
  <1>6. /\ ~tf[t] /\ over[t] = <<h, p + 1>> /\ p \in SteppedOver /\ steps[t] <= p - 1
        /\ There(t, <<h, p + 1>>)
    BY <1>1, <1>5 DEF Coming
  <1>7. Here(t, <<h, p + 1>>)'
    <2>1. at'[t] = <<<<h, p + 1>>>>
      BY <1>3, <1>6, ThereIs
    <2>2. QED
      BY <2>1 DEF Here
  <1>8. /\ exception'[t] = "none" /\ ~tf'[t] /\ over'[t] = <<h, p + 1>>
        /\ p \in SteppedOver /\ steps'[t] <= p - 1
    BY <1>2, <1>3, <1>6
  <1>9. Coming(t, h, p)'
    BY <1>7, <1>8 DEF Coming
  <1>10. controller' /\ trace'[t] = h
    BY <1>1, <1>2, HooksRest DEF Reporting
  <1>11. QED
    BY <1>1, <1>9, <1>10, Reports

LEMMA TrapOwing ==
    ASSUME Codes, NEW t \in GameThreads, Alone(t), Trap(t), Handler(t), Reporting(t)
    PROVE  Reporting(t)'
  <1>1. PICK h \in Traced, p \in 1 .. Length : trace[t] = h /\ Before(p) /\ Coming(t, h, p)
    BY DEF Reporting
  <1>2. /\ UNCHANGED <<at, tf, trace, steps, over>>
        /\ exception[t] = "none" /\ at[t] # <<>> /\ AtInt3(t)
    BY DEF Trap, Handler, traceVars, AtInt3, Running
  <1>3. \/ exception'[t] = "one-shot" /\ AtOneShot(t)
        \/ exception'[t] = "hook" /\ ~AtOneShot(t) /\ AtHook(t)
    BY DEF Trap, Codes, LHTyped, ThreadsOK
  <1>4. over[t] # Nowhere <=> exception'[t] = "one-shot"
    <2>1. AtOneShot(t) => over[t] # Nowhere
      BY <1>2, WhereItRuns DEF Codes, AtOneShot, AtInt3
    <2>2. ~AtOneShot(t) /\ AtHook(t) => over[t] = Nowhere
      BY <1>2, NoShotAtHook
    <2>3. QED
      BY <1>3, <2>1, <2>2
  <1>5. \A a : Here(t, a)' = Here(t, a) /\ There(t, a)' = There(t, a)
    BY <1>2, Unmoved
  <1>6. <<h, p + 1>> # Nowhere
    BY <1>1, BeforeCalls, TracedAddress
  <1>7. Coming(t, h, p)'
    BY <1>1, <1>2, <1>3, <1>4, <1>5, <1>6 DEF Coming
  <1>8. controller' /\ trace'[t] = h
    BY <1>1, <1>2, HooksRest DEF Reporting
  <1>9. QED
    BY <1>1, <1>7, <1>8, Reports

LEMMA OneShotOwing ==
    ASSUME Codes, CallsApart, NEW t \in GameThreads, OneShot(t), Handler(t), Reporting(t)
    PROVE  Reporting(t)'
  <1>1. PICK h \in Traced, p \in 1 .. Length : trace[t] = h /\ Before(p) /\ Coming(t, h, p)
    BY DEF Reporting
  <1>2. /\ exception[t] = "one-shot" /\ at' = at /\ UNCHANGED <<trace, steps>>
        /\ exception'[t] = "none" /\ over'[t] = Nowhere /\ tf'[t]
        /\ InCode(t) /\ over[t] = Head(at[t]) /\ over[t] # Nowhere
    <2>1. /\ exception[t] = "one-shot" /\ at' = at /\ UNCHANGED <<trace, steps>>
          /\ exception'[t] = "none" /\ over'[t] = Nowhere /\ tf'[t]
      BY DEF OneShot, Handler, Codes, LHTyped, ThreadsOK
    <2>2. at[t] # <<>> /\ InCode(t) /\ over[t] = Head(at[t])
      BY <2>1 DEF Codes, Shots, Aims
    <2>3. over[t] # Nowhere
      BY <2>2, WhereItRuns DEF Codes
    <2>4. QED
      BY <2>1, <2>2, <2>3
  <1>3. p \in Nat /\ p + 1 \in 1 .. Length /\ (p \notin Publishing => Before(p + 1))
    BY <1>1, BeforeCalls
  <1>4. /\ over[t] = <<h, p + 1>> /\ p \in SteppedOver /\ steps[t] <= p - 1
        /\ Here(t, <<h, p>>) \/ There(t, <<h, p + 1>>) \/ Here(t, <<h, p + 1>>)
    BY <1>1, <1>2 DEF Coming
  <1>5. Here(t, <<h, p + 1>>)
    <2>1. ~There(t, <<h, p + 1>>)
      BY <1>2, ThereIs
    <2>2. ASSUME Here(t, <<h, p>>) PROVE FALSE
      <3>1. Head(at[t]) = <<h, p>>
        BY <2>2, Places DEF Here
      <3>2. <<h, p>> = <<h, p + 1>>
        BY <1>2, <1>4, <3>1
      <3>3. QED
        BY <1>3, <3>2
    <2>3. QED
      BY <1>4, <2>1, <2>2
  <1>6. Here(t, <<h, p + 1>>)'
    BY <1>2, <1>5 DEF Here
  <1>7. p + 1 \notin CallSites /\ Before(p + 1)
    BY <1>3, <1>4 DEF CallsApart, SteppedOver
  <1>8. exception'[t] = "none" /\ steps'[t] <= (p + 1) - 1
    <2>1. steps[t] \in Nat
      BY DEF Codes, LHTyped, ThreadsOK
    <2>2. QED
      BY <1>2, <1>3, <1>4, <2>1
  <1>9. Coming(t, h, p + 1)'
    BY <1>2, <1>6, <1>7, <1>8 DEF Coming
  <1>10. controller' /\ trace'[t] = h
    BY <1>1, <1>2, HooksRest DEF Reporting
  <1>11. QED
    BY <1>3, <1>7, <1>9, <1>10, Reports

LEMMA EnterHookOwing ==
    ASSUME Codes, NEW t \in GameThreads, Alone(t), EnterHook(t), Handler(t),
           owed[t] => Reporting(t), owed'[t]
    PROVE  Reporting(t)'
  <1> DEFINE h == Function(t)
  <1>1. /\ h \in Hook /\ InCode(t) /\ exception[t] = "hook" /\ at[t] = <<<<h, 1>>>>
    <2>1. exception[t] = "hook"
      BY DEF EnterHook
    <2>2. at[t] # <<>> /\ InCode(t) /\ Position(t) = 1
      BY <2>1 DEF Codes, Hooked, Entering
    <2>3. QED
      BY <2>1, <2>2, WhereItRuns, AloneHere DEF Codes
  <1>2. /\ at' = at /\ UNCHANGED over /\ exception'[t] = "none" /\ tf'[t]
    BY DEF EnterHook, Handler, Codes, LHTyped, ThreadsOK
  <1>3. over[t] = Nowhere
    BY <1>1 DEF Alone
  <1>4. h \in Traced
    <2>1. SUFFICES ASSUME h \notin Traced PROVE FALSE
      OBVIOUS
    <2>2. owed' = owed
      BY <2>1 DEF EnterHook
    <2>3. PICK g \in Traced, p \in 1 .. Length : trace[t] = g /\ Before(p) /\ Coming(t, g, p)
      BY <2>2 DEF Reporting
    <2>4. p + 1 \in 1 .. Length
      BY <2>3, BeforeCalls
    <2>5. ~There(t, <<g, p + 1>>)
      BY <1>1, ThereIs
    <2>6. ~Here(t, <<g, p>>) /\ ~Here(t, <<g, p + 1>>)
      BY <2>1, <2>4, HereIs
    <2>7. QED
      BY <2>3, <2>5, <2>6 DEF Coming
  <1>5. trace'[t] = h /\ steps'[t] = 0 /\ controller /\ Publishing # {}
    <2>1. /\ trace' = [trace EXCEPT ![t] = h] /\ steps' = [steps EXCEPT ![t] = 0]
          /\ owed' = [owed EXCEPT ![t] = controller /\ Publishing # {}]
      BY <1>4 DEF EnterHook
    <2>2. trace'[t] = h /\ steps'[t] = 0
      BY <2>1 DEF Codes, LHTyped, ThreadsOK
    <2>3. owed'[t] = (controller /\ Publishing # {})
      BY <2>1 DEF Codes, LHTyped, ThreadsOK
    <2>4. QED
      BY <2>2, <2>3
  <1>6. PICK g \in Traced : g = h
    BY <1>4
  <1> HIDE DEF h
  <1>7. 1 \in 1 .. Length /\ Before(1) /\ 1 \notin CallSites
    <2>1. Length \in Nat /\ Length >= 1 /\ \A c \in CallSites : c \in Int /\ c >= 2
      BY CodeAssumption
    <2>2. Publishing \subseteq CallSites
      BY CodeAssumption
    <2>3. \A q \in Publishing : 1 <= q
      BY <2>1, <2>2
    <2>4. QED
      BY <1>5, <2>1, <2>3 DEF Before
  <1>8. Here(t, <<g, 1>>)'
    BY <1>1, <1>2, <1>6 DEF Here
  <1>9. Coming(t, g, 1)'
    BY <1>1, <1>2, <1>3, <1>5, <1>7, <1>8 DEF Coming
  <1>10. controller'
    BY <1>5, HooksRest
  <1>11. QED
    BY <1>5, <1>6, <1>7, <1>9, <1>10, Reports

LEMMA StepOwing ==
    ASSUME Codes, Lonely, Undisturbed, StepsEnough, NEW t \in GameThreads, Handler(t), Reporting(t),
           \/ RearmEntryHook(t) \/ StopTrace(t) \/ StepOn(t) \/ ReadBehindCall(t)
    PROVE  Reporting(t)'
  <1>1. PICK h \in Traced, p \in 1 .. Length : trace[t] = h /\ Before(p) /\ Coming(t, h, p)
    BY DEF Reporting
  <1>2. /\ p \in Nat /\ p >= 1 /\ p + 1 \in 1 .. Length /\ Length \in Nat
        /\ steps[t] \in Nat /\ h # Nowhere /\ h \in Hook /\ Last(h) = Length
    BY <1>1, BeforeCalls, CodeAssumption, TracedAddress DEF Codes, LHTyped, ThreadsOK
  <1>3. exception[t] \in {"step", "trace"}
    BY DEF RearmEntryHook, StopTrace, StepOn, ReadBehindCall, Continues
  <1>4. tf[t] /\ over[t] = Nowhere /\ Here(t, <<h, p>>) /\ steps[t] <= p - 2
    BY <1>1, <1>3 DEF Coming
  <1>5. InCode(t) /\ Function(t) = h /\ Position(t) = p /\ (AtCall(t) <=> p \in CallSites)
    BY <1>4, HereIs
  <1>6. controller /\ controller' /\ at' = at
    BY HooksRest DEF Reporting, Handler
  <1>7. Here(t, <<h, p>>)'
    BY <1>4, <1>6 DEF Here
  <1>8. CASE RearmEntryHook(t)
    <2>1. exception'[t] = "trace" /\ UNCHANGED <<tf, over, steps, trace>>
      BY <1>8 DEF RearmEntryHook, Codes, LHTyped, ThreadsOK
    <2>2. Coming(t, h, p)'
      BY <1>4, <1>7, <2>1 DEF Coming
    <2>3. QED
      BY <1>1, <1>6, <2>1, <2>2, Reports
  <1>9. CASE StopTrace(t)
    <2>1. Length - 2 <= MaxSteps /\ MaxSteps \in Nat
      BY BoundsAssumption DEF StepsEnough
    <2>2. steps[t] < MaxSteps
      BY <1>2, <1>4, <2>1
    <2>3. InBounds(t) /\ trace[t] # Nowhere
      BY <1>1, <1>2, <1>5 DEF InBounds
    <2>4. QED
      BY <1>9, <2>2, <2>3 DEF StopTrace, Continues
  <1>10. CASE StepOn(t)
    <2>1. /\ exception'[t] = "none" /\ UNCHANGED <<tf, over, trace>>
          /\ steps'[t] = steps[t] + 1
          /\ ~(AtCall(t) /\ (Position(t) \in Publishing \/ CanStepOver(t)))
      BY <1>10 DEF StepOn, Codes, LHTyped, ThreadsOK
    <2>2. ASSUME p \in CallSites PROVE FALSE
      <3>1. ~CanStepOver(t)
        BY <1>5, <2>1, <2>2
      <3>2. byte[h][p + 1] # "code"
        <4>1. p < Last(h)
          BY <1>2
        <4>2. QED
          BY <1>4, <1>5, <1>6, <3>1, <4>1 DEF CanStepOver
      <3>3. byte[h][p + 1] = "int3" /\ p + 1 \in 2 .. Last(h)
        <4>1. p + 1 \in 1 .. Last(h) /\ p + 1 \in 2 .. Last(h)
          BY <1>2
        <4>2. byte[h][p + 1] \in Bytes
          BY <1>2, <4>1 DEF Codes, LHTyped, BytesOK
        <4>3. QED
          BY <3>2, <4>1, <4>2 DEF Bytes
      <3>4. PICK u \in GameThreads : Awaits(u, <<h, p + 1>>)
        BY <1>2, <3>3 DEF Codes, Shots
      <3>5. at[u] # <<>> /\ over[u] = <<h, p + 1>>
        BY <3>4, EmptyStack DEF Awaits, Calling
      <3>6. u = t
        BY <1>3, <3>5 DEF Lonely, Busy
      <3>7. <<h, p + 1>> # Nowhere
        BY <1>2, TracedAddress
      <3>8. QED
        BY <1>4, <3>5, <3>6, <3>7
    <2>3. steps'[t] <= p - 1
      BY <1>2, <1>4, <2>1
    <2>4. Coming(t, h, p)'
      BY <1>4, <1>7, <2>1, <2>2, <2>3 DEF Coming
    <2>5. QED
      BY <1>1, <1>6, <2>1, <2>4, Reports
  <1>11. CASE ReadBehindCall(t)
    <2>1. /\ exception'[t] = "arming" /\ UNCHANGED <<tf, over, trace>>
          /\ steps'[t] = steps[t] + 1 /\ AtCall(t) /\ Position(t) \notin Publishing
      BY <1>11 DEF ReadBehindCall, Codes, LHTyped, ThreadsOK
    <2>2. p \in SteppedOver
      BY <1>5, <2>1 DEF SteppedOver
    <2>3. steps'[t] <= p - 1
      BY <1>2, <1>4, <2>1
    <2>4. Coming(t, h, p)'
      BY <1>4, <1>7, <2>1, <2>2, <2>3 DEF Coming
    <2>5. QED
      BY <1>1, <1>6, <2>1, <2>4, Reports
  <1>12. QED
    BY <1>8, <1>9, <1>10, <1>11

LEMMA ArmOwing ==
    ASSUME Codes, NEW t \in GameThreads, ArmStepOver(t), Handler(t), Reporting(t)
    PROVE  Reporting(t)'
  <1>1. PICK h \in Traced, p \in 1 .. Length : trace[t] = h /\ Before(p) /\ Coming(t, h, p)
    BY DEF Reporting
  <1>2. /\ at' = at /\ UNCHANGED <<trace, steps>> /\ exception[t] = "arming"
        /\ exception'[t] = "none" /\ ~tf'[t] /\ over'[t] = <<Function(t), Position(t) + 1>>
    BY DEF ArmStepOver, Handler, Codes, LHTyped, ThreadsOK
  <1>3. Here(t, <<h, p>>) /\ p \in SteppedOver /\ steps[t] <= p - 1
    BY <1>1, <1>2 DEF Coming
  <1>4. Function(t) = h /\ Position(t) = p
    BY <1>3, HereIs
  <1>5. Here(t, <<h, p>>)'
    BY <1>2, <1>3 DEF Here
  <1>6. over'[t] = <<h, p + 1>>
    BY <1>2, <1>4
  <1>7. Coming(t, h, p)'
    BY <1>2, <1>3, <1>5, <1>6 DEF Coming
  <1>8. controller' /\ trace'[t] = h
    BY <1>1, <1>2, HooksRest DEF Reporting
  <1>9. QED
    BY <1>1, <1>7, <1>8, Reports

LEMMA RefusedOwing ==
    ASSUME Codes, NEW t \in GameThreads, PatchRefused(t), Handler(t), Reporting(t),
           "arming" \notin refused'
    PROVE  Reporting(t)'
  <1>1. PICK h \in Traced, p \in 1 .. Length : trace[t] = h /\ Before(p) /\ Coming(t, h, p)
    BY DEF Reporting
  <1>2. /\ at' = at /\ UNCHANGED <<tf, trace, steps, over>> /\ refused' = refused \union {exception[t]}
    BY DEF PatchRefused, Handler
  <1>3. controller => controller'
    BY HooksRest
  <1>4. CASE UNCHANGED exception
    BY <1>2, <1>3, <1>4, ReportingKept
  <1>5. CASE exception[t] = "step" /\ exception' = [exception EXCEPT ![t] = "trace"]
    <2>1. exception'[t] = "trace"
      BY <1>5 DEF Codes, LHTyped, ThreadsOK
    <2>2. tf[t] /\ over[t] = Nowhere /\ Here(t, <<h, p>>) /\ steps[t] <= p - 2
      BY <1>1, <1>5 DEF Coming
    <2>3. Here(t, <<h, p>>)'
      BY <1>2, <2>2 DEF Here
    <2>4. Coming(t, h, p)'
      BY <1>2, <2>1, <2>2, <2>3 DEF Coming
    <2>5. QED
      BY <1>1, <1>2, <1>3, <2>4, Reports DEF Reporting
  <1>6. exception[t] # "arming"
    BY <1>2
  <1>7. QED
    BY <1>4, <1>5, <1>6 DEF PatchRefused

LEMMA OwingNext ==
    ASSUME CallsApart, StepsEnough
    PROVE  Codes /\ Lonely /\ Owing /\ [LHNext]_LHvars => Owing'
  <1> SUFFICES ASSUME Codes, Lonely, Owing, [LHNext]_LHvars, Undisturbed',
                      "arming" \notin refused', NEW t \in GameThreads, owed'[t]
               PROVE  Reporting(t)'
    BY DEF Owing
  <1>0. Codes'
    BY CodesNext
  <1>1. CASE LHNext
    <2>1. /\ Undisturbed
          /\ \A s \in GameThreads : at'[s] \in Seq(Address \union {Nowhere}) => Len(at'[s]) <= 2
      BY <1>1, LonelyStep DEF LHNext, Codes, LHTyped
    <2>2. Alone(t) /\ (owed[t] => Reporting(t))
      <3>1. refused \subseteq refused'
        <4>1. ASSUME Bootstrap \/ \E p \in Patchers : PatchByte(p) PROVE UNCHANGED refused
          BY <4>1 DEF Bootstrap, HookRefused, InstallController, PatchByte, refusals
        <4>2. QED
          BY <1>1, <4>1, RefusalsGrow DEF LHNext
      <3>2. QED
        BY <2>1, <3>1 DEF Lonely, Owing
    <2>3. CASE Bootstrap
      <3>1. UNCHANGED <<at, tf, exception, trace, steps, over, owed>>
        BY <2>3 DEF Bootstrap, traceVars
      <3>2. controller => controller'
        BY <2>3 DEF Bootstrap, Configure, ArmHook, PatchHook, HookRefused, InstallController
      <3>3. QED
        BY <2>2, <3>1, <3>2, ReportingKept
    <2>4. ASSUME NEW u \in GameThreads, Game(u) \/ Handler(u), u # t PROVE Reporting(t)'
      <3>1. /\ at'[t] = at[t] /\ tf'[t] = tf[t] /\ exception'[t] = exception[t]
            /\ trace'[t] = trace[t] /\ steps'[t] = steps[t]
            /\ over'[t] = over[t] /\ owed'[t] = owed[t]
        BY <2>4, OthersRest DEF Codes, LHTyped
      <3>2. controller' = controller
        BY <2>4, HooksRest
      <3>3. QED
        BY <2>2, <3>1, <3>2, ReportingKept
    <2>5. CASE Game(t)
      <3>1. ASSUME Enter(t) PROVE FALSE
        <4>1. at[t] = <<>>
          BY <1>0, <2>1, <2>2, <3>1, EnterAlone
        <4>2. owed' = [owed EXCEPT ![t] = at[t] # <<>> /\ @]
          BY <3>1 DEF Enter
        <4>3. owed'[t] = (at[t] # <<>> /\ owed[t])
          BY <4>2 DEF Codes, LHTyped, ThreadsOK
        <4>4. QED
          BY <4>1, <4>3
      <3>2. owed' = owed
        BY <2>5, <3>1 DEF Game, Execute, ReturnFromCallee
      <3>3. QED
        BY <2>2, <2>5, <3>1, <3>2, ExecuteOwing, ReturnOwing DEF Game
    <2>6. CASE Handler(t)
      <3>1. ~NobodysInt3(t) /\ ~NobodysStep(t)
        BY <2>1, Somebodys
      <3>2. ~CaptureLifecycleCall(t)
        BY DEF CaptureLifecycleCall, Codes, LHTyped, ThreadsOK
      <3>3. CASE EnterHook(t)
        BY <2>2, <2>6, <3>3, EnterHookOwing
      <3>4. CASE OneShot(t)
        BY <2>2, <2>6, <3>4, OneShotOwing DEF OneShot
      <3>5. CASE RearmEntryHook(t) \/ StopTrace(t) \/ StepOn(t) \/ ReadBehindCall(t)
        <4>1. owed' = owed
          BY <3>5 DEF RearmEntryHook, StopTrace, StepOn, ReadBehindCall
        <4>2. QED
          BY <2>1, <2>2, <2>6, <3>5, <4>1, StepOwing
      <3>6. CASE ArmStepOver(t)
        BY <2>2, <2>6, <3>6, ArmOwing DEF ArmStepOver
      <3>7. CASE Trap(t)
        BY <2>2, <2>6, <3>7, TrapOwing DEF Trap
      <3>8. CASE PatchRefused(t)
        BY <2>2, <2>6, <3>8, RefusedOwing DEF PatchRefused
      <3>9. QED
        BY <2>6, <3>1, <3>2, <3>3, <3>4, <3>5, <3>6, <3>7, <3>8 DEF Handler
    <2>7. ASSUME NEW p \in Patchers, PatchByte(p) PROVE Reporting(t)'
      <3>1. UNCHANGED <<at, tf, exception, trace, steps, over, owed, controller>>
        BY <2>7 DEF PatchByte, traceVars, workerVars
      <3>2. QED
        BY <2>2, <3>1, ReportingKept
    <2>8. QED
      BY <1>1, <2>3, <2>4, <2>5, <2>6, <2>7 DEF LHNext
  <1>2. CASE UNCHANGED LHvars
    <2>1. /\ UNCHANGED <<at, tf, exception, trace, steps, over, owed, controller>>
          /\ UNCHANGED <<met, nested, refused>>
      BY <1>2 DEF LHvars, workerVars, traceVars, refusals
    <2>2. Reporting(t)
      BY <2>1 DEF Owing, Undisturbed
    <2>3. QED
      BY <2>1, <2>2, ReportingKept
  <1>3. QED
    BY <1>1, <1>2

(* A trace alone finds its call (Trace.h 154-283): where no call directly  *)
(* follows one that is stepped over, and kMaxTraceSteps lasts for the      *)
(* function, a trace that began under the controller has reported what its *)
(* publishing call says before its thread leaves the function, unless the  *)
(* system has refused it a one-shot.                                       *)
THEOREM TracesReport ==
    ASSUME CallsApart, StepsEnough
    PROVE  LHSpec => []TraceReports
  <1> DEFINE Inv == Codes /\ Lonely /\ PagesOK /\ Paged /\ Owing
  <1>1. LHInit => Inv
    <2>1. LHInit => \A t \in GameThreads : ~owed[t]
      BY DEF LHInit
    <2>2. QED
      BY <2>1, CodesInit, LonelyInit, PagesInit DEF Owing
  <1>2. Inv /\ [LHNext]_LHvars => Inv'
    BY CodesNext, LonelyKept, PagesNext, OwingNext
  <1>3. Inv => TraceReports
    <2>1. ASSUME NEW t \in GameThreads, Reporting(t) PROVE Busy(t)
      <3>1. PICK h \in Traced, p \in 1 .. Length : Before(p) /\ Coming(t, h, p)
        BY <2>1 DEF Reporting
      <3>2. p + 1 \in 1 .. Length
        BY <3>1, BeforeCalls
      <3>3. Here(t, <<h, p>>) \/ Here(t, <<h, p + 1>>) \/ There(t, <<h, p + 1>>)
        BY <3>1 DEF Coming
      <3>4. QED
        BY <3>2, <3>3, Places DEF Busy, Here, There
    <2>2. QED
      BY <2>1 DEF Owing, TraceReports, Undisturbed
  <1>4. QED
    BY <1>1, <1>2, <1>3, PTL DEF LHSpec
-----------------------------------------------------------------------------
(* ProxyResolver.                                                          *)
USE WorkerAssumption, NoneAssumption, BoundAssumption
USE DEF Threads, MaybeForm, Mapping

LEMMA TypeInit == Init => TypeOK
  BY DEF Init, TypeOK

LEMMA ReportsAreCalls ==
    ASSUME NEW C \in SUBSET Connections, NEW f \in Forms PROVE ReportAll(C, f) \subseteq Call
  BY DEF ReportAll, Call

LEMMA RemovesAreCalls ==
    ASSUME NEW C \in SUBSET Connections PROVE RemoveAll(C) \subseteq Call
  BY DEF RemoveAll, Call

LEMMA RaiseType ==
    ASSUME TypeOK, NEW t \in Threads, NEW e \in Event, Raise(t, e)
    PROVE  /\ event' \in [Threads -> Event \union {NoEvent}]
           /\ toNotify' \in [Threads -> SUBSET Listeners]
  BY DEF TypeOK, Raise

LEMMA TypeNext == TypeOK /\ [Next]_vars => TypeOK'
  <1> SUFFICES ASSUME TypeOK, [Next]_vars PROVE TypeOK'
    OBVIOUS
  <1> USE DEF TypeOK, tables, registry, consumers
  <1>1. ASSUME NEW t \in STRThreads, NEW c \in Connections, NEW p \in Players,
               ObserveSender(t, c, p)
        PROVE  TypeOK'
    <2>1. calls' \in [Threads -> SUBSET Call]
      <3>1. playerToForm[p] # NoForm => ReportAll({c}, playerToForm[p]) \subseteq Call
        BY ReportsAreCalls
      <3>2. RemoveAll({c}) \subseteq Call
        BY RemovesAreCalls
      <3>3. QED
        BY <1>1, <3>1, <3>2 DEF ObserveSender
    <2>2. /\ connectionToPlayer' \in [Connections -> Players \union {NoPlayer}]
          /\ UNCHANGED <<playerToForm, registry, event, toNotify, consumers>>
          /\ events' \in Nat
      BY <1>1 DEF ObserveSender, STREvent
    <2>3. known' \subseteq Mapping
      BY <1>1 DEF ObserveSender, Remember
    <2>4. QED
      BY <2>1, <2>2, <2>3
  <1>2. ASSUME NEW t \in STRThreads, NEW p \in Players, NEW f \in Forms,
               ObservePlayerProxy(t, p, f)
        PROVE  TypeOK'
    <2>1. ReportAll(ConnectionsOf(p), f) \subseteq Call
      BY ReportsAreCalls DEF ConnectionsOf
    <2>2. QED
      BY <1>2, <2>1 DEF ObservePlayerProxy, STREvent, Remember
  <1>3. ASSUME NEW t \in STRThreads, NEW p \in Players, RemovePlayerProxy(t, p)
        PROVE  TypeOK'
    <2>1. RemoveAll(ConnectionsOf(p)) \subseteq Call
      BY RemovesAreCalls DEF ConnectionsOf
    <2>2. QED
      BY <1>3, <2>1 DEF RemovePlayerProxy, STREvent
  <1>4. ASSUME NEW t \in STRThreads, ClearMappings(t) PROVE TypeOK'
    BY <1>4 DEF ClearMappings, STREvent, Call
  <1>5. CASE FlushMappings
    <2> DEFINE D == {d \in Connections : Current(d) # NoForm}
    <2>1. ASSUME NEW c \in D PROVE ReportOf(c) \in Call
      BY DEF Current, ReportOf, Call
    <2>2. {ReportOf(c) : c \in D} \subseteq Call
      BY <2>1
    <2>3. calls' \in [Threads -> SUBSET Call]
      BY <1>5, <2>2 DEF FlushMappings
    <2>4. QED
      BY <1>5, <2>3 DEF FlushMappings
  <1>6. ASSUME NEW t \in Threads, NEW c \in Connections, NEW f \in Forms, Report(t, c, f)
        PROVE  TypeOK'
    <2>1. Mapped(c, f) \in Event
      BY DEF Mapped, Event
    <2>2. /\ event' \in [Threads -> Event \union {NoEvent}]
          /\ toNotify' \in [Threads -> SUBSET Listeners]
      BY <1>6, <2>1, RaiseType DEF Report, RaiseNothing
    <2>3. QED
      BY <1>6, <2>2 DEF Report, Makes
  <1>7. ASSUME NEW t \in Threads, NEW c \in Connections, Remove(t, c) PROVE TypeOK'
    <2>1. mappings[c] # NoForm => Removed(c) \in Event
      BY DEF Removed, Event
    <2>2. /\ event' \in [Threads -> Event \union {NoEvent}]
          /\ toNotify' \in [Threads -> SUBSET Listeners]
      BY <1>7, <2>1, RaiseType DEF Remove, RaiseNothing
    <2>3. QED
      BY <1>7, <2>2 DEF Remove, Makes
  <1>8. ASSUME NEW t \in Threads, Clear(t) PROVE TypeOK'
    <2>1. [type |-> "cleared"] \in Event
      BY DEF Event
    <2>2. /\ event' \in [Threads -> Event \union {NoEvent}]
          /\ toNotify' \in [Threads -> SUBSET Listeners]
      BY <1>8, <2>1, RaiseType DEF Clear, RaiseNothing
    <2>3. QED
      BY <1>8, <2>2 DEF Clear, Makes
  <1>9. ASSUME NEW t \in Threads, NEW l \in Listeners, Notify(t, l) PROVE TypeOK'
    <2>1. event[t] \in Event
      BY <1>9 DEF Notify
    <2>2. Believe(view[l], event[t]) \in [Connections -> MaybeForm]
      BY <2>1 DEF Believe, Event
    <2>3. HeardIn(event[t]) \subseteq Mapping
      BY <2>1 DEF HeardIn, Event
    <2>4. QED
      BY <1>9, <2>2, <2>3 DEF Notify
  <1>10. ASSUME NEW l \in Listeners, RegisterListener(l) PROVE TypeOK'
    BY <1>10 DEF RegisterListener, KnownMappings
  <1>11. ASSUME NEW l \in Listeners, PassSnapshot(l) PROVE TypeOK'
    BY <1>11 DEF PassSnapshot, Believe, Mapped
  <1>12. ASSUME NEW l \in Listeners, UnregisterListener(l) PROVE TypeOK'
    BY <1>12 DEF UnregisterListener
  <1>13. CASE UNCHANGED vars
    BY <1>13 DEF vars
  <1>14. QED
    BY <1>1, <1>2, <1>3, <1>4, <1>5, <1>6, <1>7, <1>8, <1>9, <1>10, <1>11, <1>12, <1>13
    DEF Next, MakeCall

(* Every variable keeps its type.                                          *)
THEOREM TypeCorrect == Spec => []TypeOK
  BY TypeInit, TypeNext, PTL DEF Spec
-----------------------------------------------------------------------------
(* NoMappingMissed is inductive as it stands.  A step of the bridge leaves *)
(* it alone: it concerns the registry and the consumers only.              *)

LEMMA MissedInit == Init => NoMappingMissed
  BY DEF Init, NoMappingMissed

(* A call that leaves a mapping as it is takes it from no listener: the    *)
(* thread that makes the call was not about to tell anybody.               *)
LEMMA CallKeepsMapping ==
    ASSUME TypeOK, NoMappingMissed,
           NEW t \in Threads, event[t] = NoEvent, NEW e, Raise(t, e) \/ RaiseNothing,
           UNCHANGED <<listeners, snapshot, heard>>,
           NEW l \in listeners', NEW d \in Connections,
           mappings'[d] # NoForm, mappings'[d] = mappings[d]
    PROVE  (<<d, mappings[d]>> \in heard[l] \/ AboutToHear(l, d, mappings[d]))'
  <1>1. l \in Listeners /\ l \in listeners /\ mappings[d] \in Forms
    BY DEF TypeOK
  <1>2. \A u \in Threads : u # t => event'[u] = event[u] /\ toNotify'[u] = toNotify[u]
    BY DEF TypeOK, Raise, RaiseNothing
  <1>3. Mapped(d, mappings[d]) # NoEvent
    BY <1>1 DEF Mapped, Event
  <1>4. <<d, mappings[d]>> \in heard[l] \/ AboutToHear(l, d, mappings[d])
    BY <1>1 DEF NoMappingMissed
  <1>5. AboutToHear(l, d, mappings[d]) => AboutToHear(l, d, mappings[d])'
    BY <1>2, <1>3 DEF AboutToHear, Mapped
  <1>6. QED
    BY <1>4, <1>5

LEMMA MissedNext == TypeOK /\ NoMappingMissed /\ [Next]_vars => NoMappingMissed'
  <1> SUFFICES ASSUME TypeOK, NoMappingMissed, [Next]_vars PROVE NoMappingMissed'
    OBVIOUS
  <1> USE DEF tables, registry, consumers
  <1>1. ASSUME UNCHANGED <<registry, event, toNotify, consumers>> PROVE NoMappingMissed'
    BY <1>1 DEF NoMappingMissed, AboutToHear, Mapped
  <1>2. ASSUME NEW t \in Threads, NEW c \in Connections, NEW f \in Forms, Report(t, c, f)
        PROVE  NoMappingMissed'
    <2>1. /\ event[t] = NoEvent /\ UNCHANGED <<listeners, snapshot, heard>>
          /\ mappings' = [mappings EXCEPT ![c] = f]
          /\ IF mappings[c] # f THEN Raise(t, Mapped(c, f)) ELSE RaiseNothing
      BY <1>2 DEF Report, Makes
    <2>2. ASSUME NEW l \in listeners', NEW d \in Connections, mappings'[d] # NoForm
          PROVE  (<<d, mappings[d]>> \in heard[l] \/ AboutToHear(l, d, mappings[d]))'
      <3>1. CASE d = c /\ mappings[c] # f
        <4>1. /\ l \in listeners /\ toNotify'[t] = listeners
              /\ event'[t] = Mapped(c, f) /\ mappings'[d] = f
          BY <2>1, <2>2, <3>1 DEF Raise, TypeOK
        <4>2. QED
          BY <3>1, <4>1 DEF AboutToHear, Mapped
      <3>2. CASE ~(d = c /\ mappings[c] # f)
        <4>1. mappings'[d] = mappings[d]
          BY <2>1, <3>2 DEF TypeOK
        <4>2. QED
          BY <2>1, <2>2, <4>1, CallKeepsMapping
      <3>3. QED
        BY <3>1, <3>2
    <2>3. QED
      BY <2>2 DEF NoMappingMissed
  <1>3. ASSUME NEW t \in Threads, NEW c \in Connections, Remove(t, c) PROVE NoMappingMissed'
    <2>1. /\ event[t] = NoEvent /\ UNCHANGED <<listeners, snapshot, heard>>
          /\ mappings' = [mappings EXCEPT ![c] = NoForm]
          /\ Raise(t, Removed(c)) \/ RaiseNothing
      BY <1>3 DEF Remove, Makes
    <2>2. ASSUME NEW l \in listeners', NEW d \in Connections, mappings'[d] # NoForm
          PROVE  (<<d, mappings[d]>> \in heard[l] \/ AboutToHear(l, d, mappings[d]))'
      <3>1. mappings'[d] = mappings[d]
        BY <2>1, <2>2 DEF TypeOK
      <3>2. QED
        BY <2>1, <2>2, <3>1, CallKeepsMapping
    <2>3. QED
      BY <2>2 DEF NoMappingMissed
  <1>4. ASSUME NEW t \in Threads, Clear(t) PROVE NoMappingMissed'
    BY <1>4 DEF Clear, NoMappingMissed
  <1>5. ASSUME NEW t \in Threads, NEW k \in Listeners, Notify(t, k) PROVE NoMappingMissed'
    <2>1. /\ event[t] # NoEvent /\ k \in toNotify[t]
          /\ heard' = [heard EXCEPT ![k] = @ \union HeardIn(event[t])]
          /\ toNotify' = [toNotify EXCEPT ![t] = @ \ {k}]
          /\ event' = [event EXCEPT ![t] = IF toNotify'[t] = {} THEN NoEvent ELSE @]
          /\ UNCHANGED <<mappings, listeners, snapshot>>
      BY <1>5 DEF Notify
    <2>2. ASSUME NEW l \in listeners, NEW d \in Connections, mappings[d] # NoForm
          PROVE  (<<d, mappings[d]>> \in heard[l] \/ AboutToHear(l, d, mappings[d]))'
      <3> DEFINE f == mappings[d]
      <3>1. l \in Listeners /\ f \in Forms
        BY <2>2 DEF TypeOK
      <3>2. heard[l] \subseteq heard'[l]
        BY <2>1, <3>1 DEF TypeOK
      <3>3. CASE <<d, f>> \in heard[l] \/ <<d, f>> \in snapshot[l]
        BY <2>1, <3>2, <3>3 DEF AboutToHear
      <3>4. ASSUME NEW u \in Threads, l \in toNotify[u], event[u] = Mapped(d, f)
            PROVE  <<d, f>> \in heard'[l] \/ AboutToHear(l, d, f)'
        <4>1. CASE u = t /\ l = k
          <5>1. HeardIn(event[t]) = {<<d, f>>}
            BY <3>4, <4>1 DEF HeardIn, Mapped
          <5>2. QED
            BY <2>1, <3>1, <4>1, <5>1 DEF TypeOK
        <4>2. CASE u # t \/ l # k
          <5>1. l \in toNotify'[u]
            BY <2>1, <3>4, <4>2 DEF TypeOK
          <5>2. event'[u] = Mapped(d, f)
            BY <2>1, <3>4, <5>1 DEF TypeOK
          <5>3. Mapped(d, f)' = Mapped(d, f)
            BY <2>1 DEF Mapped
          <5>4. QED
            BY <5>1, <5>2, <5>3 DEF AboutToHear
        <4>3. QED
          BY <4>1, <4>2
      <3>5. \/ <<d, f>> \in heard[l] \/ <<d, f>> \in snapshot[l]
            \/ \E u \in Threads : l \in toNotify[u] /\ event[u] = Mapped(d, f)
        BY <2>2 DEF NoMappingMissed, AboutToHear
      <3>6. QED
        BY <2>1, <3>3, <3>4, <3>5
    <2>3. QED
      BY <2>1, <2>2 DEF NoMappingMissed
  <1>6. ASSUME NEW k \in Listeners, RegisterListener(k) PROVE NoMappingMissed'
    BY <1>6
    DEF RegisterListener, NoMappingMissed, AboutToHear, KnownMappings, TypeOK, Mapped
  <1>7. ASSUME NEW k \in Listeners, PassSnapshot(k) PROVE NoMappingMissed'
    BY <1>7 DEF PassSnapshot, NoMappingMissed, AboutToHear, TypeOK, Mapped
  <1>8. ASSUME NEW k \in Listeners, UnregisterListener(k) PROVE NoMappingMissed'
    BY <1>8 DEF UnregisterListener, NoMappingMissed, AboutToHear, Mapped
  <1>9. QED
    BY <1>1, <1>2, <1>3, <1>4, <1>5, <1>6, <1>7, <1>8
    DEF Next, MakeCall, vars, ObserveSender, ObservePlayerProxy, RemovePlayerProxy,
        ClearMappings, FlushMappings

(* A registered listener has heard of every mapping in the registry, or is *)
(* about to: registering and taking the snapshot under one lock loses none. *)
THEOREM ListenersMissNothing == Spec => []NoMappingMissed
  BY TypeInit, TypeNext, MissedInit, MissedNext, PTL DEF Spec
-----------------------------------------------------------------------------
(* NeverInvented follows from AllKnown, which also speaks of the mappings  *)
(* that are on their way.                                                  *)

LEMMA KnownInit == Init => AllKnown
  BY DEF Init, AllKnown, NeverInvented, Current, Mapped, Event

(* A step of the tables adds the new join to "known", and calls made from  *)
(* it, or forgets a part of it.                                            *)
LEMMA TablesKnown ==
    ASSUME TypeOK, AllKnown, UNCHANGED <<registry, event, toNotify, consumers>>,
           known \subseteq known',
           \A c \in Connections : Current(c)' # NoForm => <<c, Current(c)'>> \in known',
           \A t \in Threads, c \in Connections, f \in Forms :
              [op |-> "report", connection |-> c, form |-> f] \in calls'[t] =>
                 <<c, f>> \in known'
    PROVE  AllKnown'
  <1> USE DEF AllKnown, registry, consumers
  <1>1. \A t \in Threads, c \in Connections, f \in Forms :
           (event[t] = Mapped(c, f) => <<c, f>> \in known)'
    BY DEF Mapped
  <1>2. NeverInvented'
    BY DEF NeverInvented
  <1>3. QED
    BY <1>1, <1>2

(* A registry call brings no new calls, tables or snapshots.               *)
LEMMA CallKeepsKnown ==
    ASSUME TypeOK, AllKnown, NEW t \in Threads, NEW k, Makes(t, k), NeverInvented',
           \A u \in Threads, d \in Connections, g \in Forms :
              event'[u] = Mapped(d, g) => <<d, g>> \in known
    PROVE  AllKnown'
  <1>1. /\ UNCHANGED <<tables, snapshot, known>>
        /\ \A u \in Threads : calls'[u] \subseteq calls[u]
    BY DEF Makes, consumers, TypeOK
  <1>2. \A c \in Connections : Current(c)' = Current(c)
    BY <1>1 DEF Current, tables
  <1>3. \A u \in Threads, d \in Connections, g \in Forms : Mapped(d, g)' = Mapped(d, g)
    BY DEF Mapped
  <1>4. QED
    BY <1>1, <1>2, <1>3 DEF AllKnown

LEMMA KnownNext == TypeOK /\ AllKnown /\ [Next]_vars => AllKnown'
  <1> SUFFICES ASSUME TypeOK, AllKnown, [Next]_vars PROVE AllKnown'
    OBVIOUS
  <1> USE DEF tables, registry, consumers
  <1>1. ASSUME NEW t \in STRThreads, NEW c \in Connections, NEW p \in Players,
               ObserveSender(t, c, p)
        PROVE  AllKnown'
    <2>1. known \subseteq known' /\ UNCHANGED <<registry, event, toNotify, consumers>>
      BY <1>1 DEF ObserveSender, Remember
    <2>2. ASSUME NEW d \in Connections, Current(d)' # NoForm
          PROVE  <<d, Current(d)'>> \in known'
      <3>1. connectionToPlayer' \in [Connections -> Players \union {NoPlayer}]
            /\ playerToForm' = playerToForm
        BY <1>1 DEF ObserveSender, TypeOK
      <3>2. Current(d)' \in Forms
        BY <2>2, <3>1 DEF Current, TypeOK
      <3>3. QED
        BY <1>1, <3>2 DEF ObserveSender, Remember
    <2>3. ASSUME NEW u \in Threads, NEW d \in Connections, NEW f \in Forms,
                 [op |-> "report", connection |-> d, form |-> f] \in calls'[u]
          PROVE  <<d, f>> \in known'
      <3>1. CASE [op |-> "report", connection |-> d, form |-> f] \in calls[u]
        BY <2>1, <3>1 DEF AllKnown
      <3>2. CASE [op |-> "report", connection |-> d, form |-> f] \notin calls[u]
        <4>1. d = c /\ f = playerToForm[p]
          BY <1>1, <2>3, <3>2 DEF ObserveSender, ReportAll, RemoveAll, TypeOK
        <4>2. Current(d)' = f
          BY <1>1, <4>1 DEF ObserveSender, Current, TypeOK
        <4>3. QED
          BY <2>2, <4>2
      <3>3. QED
        BY <3>1, <3>2
    <2>4. QED
      BY <2>1, <2>2, <2>3, TablesKnown
  <1>2. ASSUME NEW t \in STRThreads, NEW p \in Players, NEW g \in Forms,
               ObservePlayerProxy(t, p, g)
        PROVE  AllKnown'
    <2>1. known \subseteq known' /\ UNCHANGED <<registry, event, toNotify, consumers>>
      BY <1>2 DEF ObservePlayerProxy, Remember
    <2>2. ASSUME NEW d \in Connections, Current(d)' # NoForm
          PROVE  <<d, Current(d)'>> \in known'
      <3>1. Current(d)' \in Forms
        BY <1>2, <2>2 DEF ObservePlayerProxy, Current, TypeOK
      <3>2. QED
        BY <1>2, <3>1 DEF ObservePlayerProxy, Remember
    <2>3. ASSUME NEW u \in Threads, NEW d \in Connections, NEW f \in Forms,
                 [op |-> "report", connection |-> d, form |-> f] \in calls'[u]
          PROVE  <<d, f>> \in known'
      <3>1. CASE [op |-> "report", connection |-> d, form |-> f] \in calls[u]
        BY <2>1, <3>1 DEF AllKnown
      <3>2. CASE [op |-> "report", connection |-> d, form |-> f] \notin calls[u]
        <4>1. d \in ConnectionsOf(p) /\ f = g
          BY <1>2, <2>3, <3>2 DEF ObservePlayerProxy, ReportAll, TypeOK
        <4>2. Current(d)' = f
          BY <1>2, <4>1 DEF ObservePlayerProxy, ConnectionsOf, Current, TypeOK
        <4>3. QED
          BY <2>2, <4>2
      <3>3. QED
        BY <3>1, <3>2
    <2>4. QED
      BY <2>1, <2>2, <2>3, TablesKnown
  <1>3. ASSUME NEW t \in STRThreads, NEW p \in Players, RemovePlayerProxy(t, p)
        PROVE  AllKnown'
    <2>1. known' = known /\ UNCHANGED <<registry, event, toNotify, consumers>>
      BY <1>3 DEF RemovePlayerProxy
    <2>2. ASSUME NEW d \in Connections, Current(d)' # NoForm
          PROVE  <<d, Current(d)'>> \in known'
      <3>1. Current(d)' = Current(d)
        BY <1>3, <2>2 DEF RemovePlayerProxy, Current, TypeOK
      <3>2. QED
        BY <2>1, <2>2, <3>1 DEF AllKnown
    <2>3. ASSUME NEW u \in Threads, NEW d \in Connections, NEW f \in Forms,
                 [op |-> "report", connection |-> d, form |-> f] \in calls'[u]
          PROVE  <<d, f>> \in known'
      <3>1. [op |-> "report", connection |-> d, form |-> f] \in calls[u]
        BY <1>3, <2>3 DEF RemovePlayerProxy, RemoveAll, TypeOK
      <3>2. QED
        BY <2>1, <3>1 DEF AllKnown
    <2>4. QED
      BY <2>1, <2>2, <2>3, TablesKnown
  <1>4. ASSUME NEW t \in STRThreads, ClearMappings(t) PROVE AllKnown'
    <2>1. known' = known /\ UNCHANGED <<registry, event, toNotify, consumers>>
      BY <1>4 DEF ClearMappings
    <2>2. \A d \in Connections : Current(d)' = NoForm
      BY <1>4 DEF ClearMappings, Current
    <2>3. ASSUME NEW u \in Threads, NEW d \in Connections, NEW f \in Forms,
                 [op |-> "report", connection |-> d, form |-> f] \in calls'[u]
          PROVE  <<d, f>> \in known'
      <3>1. [op |-> "report", connection |-> d, form |-> f] \in calls[u]
        BY <1>4, <2>3 DEF ClearMappings, TypeOK
      <3>2. QED
        BY <2>1, <3>1 DEF AllKnown
    <2>4. QED
      BY <2>1, <2>2, <2>3, TablesKnown
  <1>5. CASE FlushMappings
    <2>1. known' = known /\ UNCHANGED <<tables, registry, event, toNotify, consumers>>
      BY <1>5 DEF FlushMappings
    <2>2. ASSUME NEW d \in Connections, Current(d)' # NoForm
          PROVE  <<d, Current(d)'>> \in known'
      <3>1. Current(d)' = Current(d)
        BY <2>1 DEF Current
      <3>2. QED
        BY <2>1, <2>2, <3>1 DEF AllKnown
    <2>3. ASSUME NEW u \in Threads, NEW d \in Connections, NEW f \in Forms,
                 [op |-> "report", connection |-> d, form |-> f] \in calls'[u]
          PROVE  <<d, f>> \in known'
      <3>1. CASE [op |-> "report", connection |-> d, form |-> f] \in calls[u]
        BY <2>1, <3>1 DEF AllKnown
      <3>2. CASE [op |-> "report", connection |-> d, form |-> f] \notin calls[u]
        <4>1. f = Current(d)
          BY <1>5, <2>3, <3>2 DEF FlushMappings, ReportOf, TypeOK
        <4>2. QED
          BY <2>1, <4>1 DEF AllKnown
      <3>3. QED
        BY <3>1, <3>2
    <2>4. QED
      BY <2>1, <2>2, <2>3, TablesKnown
  <1>6. ASSUME NEW t \in Threads, NEW c \in Connections, NEW f \in Forms, Report(t, c, f)
        PROVE  AllKnown'
    <2>1. /\ [op |-> "report", connection |-> c, form |-> f] \in calls[t]
          /\ mappings' = [mappings EXCEPT ![c] = f]
          /\ \/ Raise(t, Mapped(c, f)) 
             \/ RaiseNothing
      BY <1>6 DEF Report, Makes
    <2>2. <<c, f>> \in known
      BY <2>1 DEF AllKnown
    <2>3. ASSUME NEW u \in Threads, NEW d \in Connections, NEW g \in Forms,
                 event'[u] = Mapped(d, g)
          PROVE  <<d, g>> \in known
      <3>1. Mapped(d, g) # NoEvent
        BY DEF Mapped, Event
      <3>2. event'[u] = event[u] \/ event'[u] = Mapped(c, f)
        BY <2>1, <2>3, <3>1 DEF Raise, RaiseNothing, TypeOK
      <3>3. Mapped(d, g) = Mapped(c, f) => d = c /\ g = f
        BY DEF Mapped
      <3>4. QED
        BY <2>2, <2>3, <3>2, <3>3 DEF AllKnown
    <2>4. NeverInvented'
      BY <1>6, <2>1, <2>2 DEF NeverInvented, AllKnown, Report, Makes, TypeOK
    <2>5. QED
      BY <1>6, <2>3, <2>4, CallKeepsKnown DEF Report
  <1>7. ASSUME NEW t \in Threads, NEW c \in Connections, Remove(t, c) PROVE AllKnown'
    <2>1. /\ mappings' = [mappings EXCEPT ![c] = NoForm]
          /\ \/ Raise(t, Removed(c))
             \/ RaiseNothing
      BY <1>7 DEF Remove
    <2>2. ASSUME NEW u \in Threads, NEW d \in Connections, NEW g \in Forms,
                 event'[u] = Mapped(d, g)
          PROVE  <<d, g>> \in known
      <3>1. Mapped(d, g) # NoEvent /\ Mapped(d, g) # Removed(c)
        BY DEF Mapped, Removed, Event
      <3>2. event'[u] = event[u]
        BY <2>1, <2>2, <3>1 DEF Raise, RaiseNothing, TypeOK
      <3>3. QED
        BY <2>2, <3>2 DEF AllKnown
    <2>3. NeverInvented'
      BY <1>7, <2>1 DEF NeverInvented, AllKnown, Remove, Makes, TypeOK
    <2>4. QED
      BY <1>7, <2>2, <2>3, CallKeepsKnown DEF Remove
  <1>8. ASSUME NEW t \in Threads, Clear(t) PROVE AllKnown'
    <2>1. /\ mappings' = [c \in Connections |-> NoForm]
          /\ \/ Raise(t, [type |-> "cleared"])
             \/ RaiseNothing
      BY <1>8 DEF Clear
    <2>2. ASSUME NEW u \in Threads, NEW d \in Connections, NEW g \in Forms,
                 event'[u] = Mapped(d, g)
          PROVE  <<d, g>> \in known
      <3>1. Mapped(d, g) # NoEvent /\ Mapped(d, g) # [type |-> "cleared"]
        BY DEF Mapped, Event
      <3>2. event'[u] = event[u]
        BY <2>1, <2>2, <3>1 DEF Raise, RaiseNothing, TypeOK
      <3>3. QED
        BY <2>2, <3>2 DEF AllKnown
    <2>3. NeverInvented'
      BY <1>8, <2>1 DEF NeverInvented, AllKnown, Clear, Makes, TypeOK
    <2>4. QED
      BY <1>8, <2>2, <2>3, CallKeepsKnown DEF Clear
  <1>9. ASSUME NEW t \in Threads, NEW l \in Listeners, Notify(t, l) PROVE AllKnown'
    <2>1. /\ event[t] # NoEvent
          /\ view' = [view EXCEPT ![l] = Believe(@, event[t])]
          /\ event' = [event EXCEPT ![t] = IF toNotify'[t] = {} THEN NoEvent ELSE @]
          /\ UNCHANGED <<tables, calls, mappings, snapshot, known>>
      BY <1>9 DEF Notify
    <2>2. ASSUME NEW u \in Threads, NEW d \in Connections, NEW g \in Forms,
                 event'[u] = Mapped(d, g)
          PROVE  <<d, g>> \in known
      <3>1. Mapped(d, g) # NoEvent
        BY DEF Mapped, Event
      <3>2. event'[u] = event[u]
        BY <2>1, <2>2, <3>1 DEF TypeOK
      <3>3. QED
        BY <2>2, <3>2 DEF AllKnown
    <2>3. ASSUME NEW k \in Listeners, NEW d \in Connections, view'[k][d] # NoForm
          PROVE  <<d, view'[k][d]>> \in known
      <3>1. CASE view'[k][d] = view[k][d]
        BY <2>3, <3>1 DEF AllKnown, NeverInvented
      <3>2. CASE view'[k][d] # view[k][d]
        <4>1. k = l /\ view'[k] = Believe(view[l], event[t]) /\ event[t] \in Event
          BY <2>1, <3>2 DEF TypeOK
        <4>2. CASE event[t].type = "added"
          <5>1. PICK e \in [type : {"added"}, connection : Connections, form : Forms] :
                   event[t] = e
            BY <4>1, <4>2 DEF Event
          <5>2. event[t] = Mapped(e.connection, e.form)
            BY <5>1 DEF Mapped
          <5>3. <<e.connection, e.form>> \in known
            BY <5>1, <5>2 DEF AllKnown
          <5>4. d = e.connection /\ view'[k][d] = e.form
            BY <3>2, <4>1, <4>2, <5>1 DEF Believe, TypeOK
          <5>5. QED
            BY <5>3, <5>4
        <4>3. CASE event[t].type = "removed"
          <5>1. view'[k] = [view[l] EXCEPT ![event[t].connection] = NoForm]
            BY <4>1, <4>3 DEF Believe
          <5>2. QED
            BY <2>3, <3>2, <4>1, <5>1 DEF TypeOK
        <4>4. CASE event[t].type = "cleared"
          <5>1. view'[k][d] = NoForm
            BY <4>1, <4>4 DEF Believe
          <5>2. QED
            BY <2>3, <5>1
        <4>5. QED
          BY <4>1, <4>2, <4>3, <4>4 DEF Event
      <3>3. QED
        BY <3>1, <3>2
    <2>4. NeverInvented'
      BY <2>1, <2>3 DEF NeverInvented, AllKnown
    <2>5. QED
      BY <2>1, <2>2, <2>4 DEF AllKnown, Current
  <1>10. ASSUME NEW l \in Listeners, RegisterListener(l) PROVE AllKnown'
    <2>1. /\ snapshot' = [snapshot EXCEPT ![l] = KnownMappings]
          /\ view' = [view EXCEPT ![l] = [c \in Connections |-> NoForm]]
          /\ UNCHANGED <<tables, calls, mappings, event, known>>
      BY <1>10 DEF RegisterListener
    <2>2. KnownMappings \subseteq known
      BY DEF KnownMappings, AllKnown, NeverInvented
    <2>3. NeverInvented'
      BY <2>1 DEF NeverInvented, AllKnown, TypeOK
    <2>4. \A k \in Listeners : snapshot'[k] \subseteq known
      BY <2>1, <2>2 DEF AllKnown, TypeOK
    <2>5. QED
      BY <2>1, <2>3, <2>4 DEF AllKnown, Current, Mapped
  <1>11. ASSUME NEW l \in Listeners, PassSnapshot(l) PROVE AllKnown'
    <2>1. PICK m \in snapshot[l] :
             /\ snapshot' = [snapshot EXCEPT ![l] = @ \ {m}]
             /\ view' = [view EXCEPT ![l] = Believe(@, Mapped(m[1], m[2]))]
      BY <1>11 DEF PassSnapshot
    <2>2. UNCHANGED <<tables, calls, mappings, event, known>>
      BY <1>11 DEF PassSnapshot
    <2>3. m \in known /\ m \in Mapping
      BY DEF AllKnown, TypeOK
    <2>4. Believe(view[l], Mapped(m[1], m[2])) = [view[l] EXCEPT ![m[1]] = m[2]]
      BY DEF Believe, Mapped
    <2>5. ASSUME NEW k \in Listeners, NEW d \in Connections, view'[k][d] # NoForm
          PROVE  <<d, view'[k][d]>> \in known
      <3>1. view[k][d] # NoForm => <<d, view[k][d]>> \in known
        BY DEF AllKnown, NeverInvented
      <3>2. CASE k = l /\ d = m[1]
        <4>1. view'[k][d] = m[2] /\ m = <<m[1], m[2]>>
          BY <2>1, <2>3, <2>4, <3>2 DEF TypeOK, Mapping
        <4>2. QED
          BY <2>3, <3>2, <4>1
      <3>3. CASE k # l \/ d # m[1]
        <4>1. view'[k][d] = view[k][d]
          BY <2>1, <2>3, <2>4, <3>3 DEF TypeOK, Mapping
        <4>2. QED
          BY <2>5, <3>1, <4>1
      <3>4. QED
        BY <3>2, <3>3
    <2>6. NeverInvented'
      BY <2>2, <2>5 DEF NeverInvented, AllKnown
    <2>7. \A k \in Listeners : snapshot'[k] \subseteq known
      BY <2>1 DEF AllKnown, TypeOK
    <2>8. QED
      BY <2>2, <2>6, <2>7 DEF AllKnown, Current, Mapped
  <1>12. ASSUME NEW l \in Listeners, UnregisterListener(l) PROVE AllKnown'
    BY <1>12 DEF UnregisterListener, AllKnown, NeverInvented, Current, Mapped
  <1>13. CASE UNCHANGED vars
    BY <1>13 DEF vars, AllKnown, NeverInvented, Current, Mapped
  <1>14. QED
    BY <1>1, <1>2, <1>3, <1>4, <1>5, <1>6, <1>7, <1>8, <1>9, <1>10, <1>11, <1>12, <1>13
    DEF Next, MakeCall

(* A mapping in the registry, or in a consumer's mind, is one the bridge's *)
(* two tables held together at some moment, whatever raced with what.      *)
THEOREM NothingIsInvented == Spec => []NeverInvented
  <1>1. AllKnown => NeverInvented
    BY DEF AllKnown
  <1>2. QED
    BY <1>1, TypeInit, TypeNext, KnownInit, KnownNext, PTL DEF Spec
=============================================================================
