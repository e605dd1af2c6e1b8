---------------------------- MODULE Broker_proofs ----------------------------
(***************************************************************************)
(* The broker's safety properties for any number of threads, channels,     *)
(* calls and messages, and whatever the callbacks call.  They are about    *)
(* what is on the stacks of the threads, wherever on them: a thread in a   *)
(* callback has an unfinished start or delivery below.                     *)
(***************************************************************************)
EXTENDS Broker, TLAPS

Elements(s) == {s[i] : i \in DOMAIN s}

LEMMA GotoElements ==
    ASSUME NEW S, NEW o \in Seq(S), o # <<>>, NEW p \in S
    PROVE  /\ <<p>> \o Tail(o) \in Seq(S)
           /\ Elements(<<p>> \o Tail(o)) \subseteq Elements(o) \union {p}
           /\ p \in Elements(<<p>> \o Tail(o))
           /\ \A x \in Elements(o) : x = Head(o) \/ x \in Elements(<<p>> \o Tail(o))
<1> DEFINE s == <<p>> \o Tail(o)
<1>1. s \in Seq(S) /\ Len(s) = Len(o) /\ Len(o) >= 1 OBVIOUS
<1>2. s[1] = p /\ \A i \in 2 .. Len(o) : s[i] = o[i] OBVIOUS
<1> HIDE DEF s
<1>3. DOMAIN s = 1 .. Len(o) /\ DOMAIN o = 1 .. Len(o) /\ Len(o) \in Nat BY <1>1
<1>4. \A i \in DOMAIN s : s[i] = p \/ s[i] \in Elements(o) BY <1>2, <1>3 DEF Elements
<1>5. \A i \in DOMAIN o : o[i] = Head(o) \/ o[i] \in Elements(s)
  BY <1>1, <1>2, <1>3 DEF Elements
<1>6. p \in Elements(s) BY <1>1, <1>2, <1>3 DEF Elements
<1> QED BY <1>1, <1>4, <1>5, <1>6 DEF Elements, s

LEMMA TailElements ==
    ASSUME NEW S, NEW o \in Seq(S), o # <<>>
    PROVE  /\ Tail(o) \in Seq(S) /\ Elements(Tail(o)) \subseteq Elements(o)
           /\ \A x \in Elements(o) : x = Head(o) \/ x \in Elements(Tail(o))
<1> DEFINE s == Tail(o)
<1>1. s \in Seq(S) /\ Len(s) = Len(o) - 1 /\ Len(o) \in Nat /\ Len(o) >= 1 OBVIOUS
<1>2. \A i \in 1 .. Len(s) : s[i] = o[i + 1] OBVIOUS
<1>3. DOMAIN s = 1 .. Len(o) - 1 /\ DOMAIN o = 1 .. Len(o) BY <1>1
<1> HIDE DEF s
<1>4. \A i \in DOMAIN s : s[i] \in Elements(o) BY <1>1, <1>2, <1>3 DEF Elements
<1>5. \A i \in DOMAIN o : i # 1 => i - 1 \in DOMAIN s /\ s[i - 1] = o[i]
  BY <1>1, <1>2, <1>3
<1>6. \A i \in DOMAIN o : o[i] = Head(o) \/ o[i] \in Elements(s)
  BY <1>5 DEF Elements
<1> QED BY <1>1, <1>4, <1>6 DEF Elements, s

LEMMA PushElements ==
    ASSUME NEW S, NEW a \in Seq(S), NEW o \in Seq(S)
    PROVE  /\ a \o o \in Seq(S)
           /\ Elements(a \o o) \subseteq Elements(a) \union Elements(o)
           /\ Elements(o) \subseteq Elements(a \o o)
<1> DEFINE s == a \o o
<1>1. s \in Seq(S) /\ Len(s) = Len(a) + Len(o) /\ Len(a) \in Nat /\ Len(o) \in Nat OBVIOUS
<1>2. /\ \A i \in 1 .. Len(a) : s[i] = a[i]
      /\ \A i \in 1 .. Len(o) : s[Len(a) + i] = o[i]
  OBVIOUS
<1>3. /\ DOMAIN s = 1 .. Len(a) + Len(o) /\ DOMAIN a = 1 .. Len(a) /\ DOMAIN o = 1 .. Len(o)
  BY <1>1
<1> HIDE DEF s
<1>4. \A i \in DOMAIN s : i \in DOMAIN a \/ (i - Len(a) \in DOMAIN o /\ s[i] = o[i - Len(a)])
  BY <1>1, <1>2, <1>3
<1>5. \A i \in DOMAIN s : s[i] \in Elements(a) \union Elements(o)
  BY <1>2, <1>3, <1>4 DEF Elements
<1>6. \A i \in DOMAIN o : Len(a) + i \in DOMAIN s BY <1>1, <1>3
<1>7. \A i \in DOMAIN o : o[i] \in Elements(s) BY <1>2, <1>3, <1>6 DEF Elements
<1> QED BY <1>1, <1>5, <1>7 DEF Elements, s
-----------------------------------------------------------------------------
(* A step of thread t that puts nothing on its stack but what is in add,   *)
(* and takes off only the top, and perhaps the rest of a Send.             *)
StackOK == stack \in [Threads -> Seq(Places)]

Changes(t, add) ==
    /\ StackOK'
    /\ \A u \in Threads \ {t} : stack'[u] = stack[u]
    /\ Elements(stack'[t]) \subseteq Elements(stack[t]) \union add
    /\ \A x \in Elements(stack[t]) : x \in {Head(stack[t]), "route"} \/ x \in Elements(stack'[t])

LEMMA SetStack ==
    ASSUME StackOK, NEW t \in Threads, NEW s \in Seq(Places), stack' = [stack EXCEPT ![t] = s]
    PROVE  StackOK' /\ stack'[t] = s /\ \A u \in Threads \ {t} : stack'[u] = stack[u]
  BY DEF StackOK

LEMMA GotoChanges ==
    ASSUME StackOK, NEW t \in Threads, stack[t] # <<>>, NEW place \in Places, Goto(t, place)
    PROVE  Changes(t, {place}) /\ place \in Elements(stack'[t])
<1>1. stack[t] \in Seq(Places) BY DEF StackOK
<1> DEFINE s == <<place>> \o Tail(stack[t])
<1>2. stack' = [stack EXCEPT ![t] = s] BY DEF Goto
<1>3. /\ s \in Seq(Places) /\ Elements(s) \subseteq Elements(stack[t]) \union {place}
      /\ place \in Elements(s)
      /\ \A x \in Elements(stack[t]) : x = Head(stack[t]) \/ x \in Elements(s)
  BY <1>1, GotoElements
<1> HIDE DEF s
<1>4. StackOK' /\ stack'[t] = s /\ \A u \in Threads \ {t} : stack'[u] = stack[u]
  BY <1>2, <1>3, SetStack
<1> QED BY <1>3, <1>4 DEF Changes

LEMMA ReturnChanges ==
    ASSUME StackOK, NEW t \in Threads, stack[t] # <<>>, Return(t)
    PROVE  Changes(t, {}) /\ stack'[t] = Tail(stack[t])
<1>1. stack[t] \in Seq(Places) BY DEF StackOK
<1> DEFINE s == Tail(stack[t])
<1>2. stack' = [stack EXCEPT ![t] = s] BY DEF Return
<1>3. /\ s \in Seq(Places) /\ Elements(s) \subseteq Elements(stack[t])
      /\ \A x \in Elements(stack[t]) : x = Head(stack[t]) \/ x \in Elements(s)
  BY <1>1, TailElements
<1> HIDE DEF s
<1>4. StackOK' /\ stack'[t] = s /\ \A u \in Threads \ {t} : stack'[u] = stack[u]
  BY <1>2, <1>3, SetStack
<1> QED BY <1>3, <1>4 DEF Changes, s

LEMMA ReturnFalseChanges ==
    ASSUME StackOK, NEW t \in Threads, stack[t] # <<>>, ReturnFalse(t)
    PROVE  Changes(t, {})
<1>1. stack[t] \in Seq(Places) BY DEF StackOK
<1>2. CASE ~(Len(stack[t]) > 1 /\ stack[t][2] = "route")
  <2>1. Return(t) BY <1>2 DEF ReturnFalse, Return
  <2> QED BY <2>1, ReturnChanges
<1>3. CASE Len(stack[t]) > 1 /\ stack[t][2] = "route"
  <2> DEFINE o == Tail(stack[t])
             s == Tail(o)
  <2>1. stack' = [stack EXCEPT ![t] = s] BY <1>3 DEF ReturnFalse
  <2>2. o \in Seq(Places) /\ o # <<>> /\ Head(o) = "route" BY <1>1, <1>3
  <2>3. /\ Elements(o) \subseteq Elements(stack[t])
        /\ \A x \in Elements(stack[t]) : x = Head(stack[t]) \/ x \in Elements(o)
    BY <1>1, TailElements
  <2> HIDE DEF o
  <2>4. /\ s \in Seq(Places) /\ Elements(s) \subseteq Elements(o)
        /\ \A x \in Elements(o) : x = "route" \/ x \in Elements(s)
    BY <2>2, TailElements
  <2> HIDE DEF s
  <2>5. StackOK' /\ stack'[t] = s /\ \A u \in Threads \ {t} : stack'[u] = stack[u]
    BY <2>1, <2>4, SetStack
  <2> QED BY <2>3, <2>4, <2>5 DEF Changes
<1> QED BY <1>2, <1>3

EntryPlaces == {"test", "route", "setLogCallback", "register", "unregister"}

LEMMA PushChanges ==
    ASSUME StackOK, NEW t \in Threads, NEW a \in Seq(Places), NEW add,
           Elements(a) \subseteq add, stack' = [stack EXCEPT ![t] = a \o @]
    PROVE  Changes(t, add)
<1>1. stack[t] \in Seq(Places) BY DEF StackOK
<1> DEFINE s == a \o stack[t]
<1>2. stack' = [stack EXCEPT ![t] = s] OBVIOUS
<1>3. /\ s \in Seq(Places) /\ Elements(s) \subseteq Elements(a) \union Elements(stack[t])
      /\ Elements(stack[t]) \subseteq Elements(s)
  BY <1>1, PushElements
<1> HIDE DEF s
<1>4. StackOK' /\ stack'[t] = s /\ \A u \in Threads \ {t} : stack'[u] = stack[u]
  BY <1>2, <1>3, SetStack
<1> QED BY <1>3, <1>4 DEF Changes

LEMMA ShortElements ==
    ASSUME NEW S, NEW p \in S, NEW q \in S
    PROVE  /\ <<p>> \in Seq(S) /\ Elements(<<p>>) = {p}
           /\ <<p, q>> \in Seq(S) /\ Elements(<<p, q>>) = {p, q}
<1>1. <<p>> \in Seq(S) /\ DOMAIN <<p>> = {1} /\ <<p>>[1] = p OBVIOUS
<1>2. <<p, q>> \in Seq(S) /\ DOMAIN <<p, q>> = {1, 2} /\ <<p, q>>[1] = p /\ <<p, q>>[2] = q
  OBVIOUS
<1> QED BY <1>1, <1>2 DEF Elements

LEMMA EnterChanges ==
    ASSUME StackOK, NEW t \in Threads, NEW call \in Calls, Enter(t, call)
    PROVE  Changes(t, EntryPlaces)
<1> DEFINE a == Entry(call)
<1>1. \/ a = <<"test", "route">>
      \/ \E p \in EntryPlaces : a = <<p>>
  BY DEF Calls, Entry, EntryPlaces
<1> HIDE DEF a
<1>2. EntryPlaces \subseteq Places /\ "test" \in EntryPlaces /\ "route" \in EntryPlaces
  BY DEF Places, EntryPlaces
<1>3. a \in Seq(Places) /\ Elements(a) \subseteq EntryPlaces
  <2>1. ASSUME a = <<"test", "route">>
        PROVE  a \in Seq(Places) /\ Elements(a) \subseteq EntryPlaces
    <3>1. "test" \in Places /\ "route" \in Places BY <1>2
    <3>2. /\ <<"test", "route">> \in Seq(Places)
          /\ Elements(<<"test", "route">>) = {"test", "route"}
      BY <3>1, ShortElements
    <3>3. a \in Seq(Places) BY <2>1, <3>2
    <3>4. Elements(a) = {"test", "route"} BY <2>1, <3>2
    <3> QED BY <1>2, <3>3, <3>4
  <2>2. ASSUME NEW p \in EntryPlaces, a = <<p>>
        PROVE  a \in Seq(Places) /\ Elements(a) \subseteq EntryPlaces
    <3>1. p \in Places BY <1>2
    <3>2. <<p>> \in Seq(Places) /\ Elements(<<p>>) = {p} BY <3>1, ShortElements
    <3>3. a \in Seq(Places) BY <2>2, <3>2
    <3>4. Elements(a) = {p} BY <2>2, <3>2
    <3> QED BY <3>3, <3>4
  <2> QED BY <1>1, <2>1, <2>2
<1>4. stack' = [stack EXCEPT ![t] = a \o @] BY DEF Enter, a
<1> QED BY <1>3, <1>4, PushChanges

LEMMA LogChanges ==
    ASSUME StackOK, NEW t \in Threads, stack[t] # <<>>, NEW then \in Places,
           stack' = [stack EXCEPT ![t] = <<"logging", then>> \o Tail(@)]
    PROVE  Changes(t, {"logging", then})
<1>1. stack[t] \in Seq(Places) BY DEF StackOK
<1> DEFINE a == <<"logging", then>>
           o == Tail(stack[t])
           s == a \o o
<1>2. stack' = [stack EXCEPT ![t] = s] OBVIOUS
<1>3. /\ o \in Seq(Places) /\ Elements(o) \subseteq Elements(stack[t])
      /\ \A x \in Elements(stack[t]) : x = Head(stack[t]) \/ x \in Elements(o)
  BY <1>1, TailElements
<1>4. a \in Seq(Places) /\ Elements(a) = {"logging", then}
  <2>1. "logging" \in Places BY DEF Places
  <2>2. /\ <<"logging", then>> \in Seq(Places)
        /\ Elements(<<"logging", then>>) = {"logging", then}
    BY <2>1, ShortElements
  <2> QED BY <2>2
<1> HIDE DEF a, o
<1>5. /\ s \in Seq(Places) /\ Elements(s) \subseteq Elements(a) \union Elements(o)
      /\ Elements(o) \subseteq Elements(s)
  BY <1>3, <1>4, PushElements
<1> HIDE DEF s
<1>6. StackOK' /\ stack'[t] = s /\ \A u \in Threads \ {t} : stack'[u] = stack[u]
  BY <1>2, <1>5, SetStack
<1> QED BY <1>3, <1>4, <1>5, <1>6 DEF Changes
-----------------------------------------------------------------------------
(* RunningIsReady.  A thread that is past the start of the bridge, or at   *)
(* any other place of Start, relies on what was done on the way to it;     *)
(* flags only rise, but for _strBridgeAvailable, which another start takes *)
(* down for as long as it looks at the module.                             *)
Flags == <<running, active, available, transport, usable, loaded, bridgeUp>>

Good(place) ==
    /\ place \in {"queryTransport", "startTransport"} => loaded
    /\ place = "startTransport" => usable
    /\ place \in {"logActive", "activate", "run"} => transport /\ bridgeUp
    /\ place = "run" => active

PlacesGood == \A t \in Threads : \A p \in Elements(stack[t]) : Good(p)

Looking == \E t \in Threads : \E p \in Elements(stack[t]) : p \in StartPlaces

FlagsGood ==
    /\ {running, active, available, transport, usable, loaded, bridgeUp} \subseteq BOOLEAN
    /\ running => active /\ transport /\ bridgeUp
    /\ bridgeUp => loaded /\ usable
    /\ loaded /\ usable => available \/ Looking

Ready == StackOK /\ PlacesGood /\ FlagsGood

LEMMA HeadIsElement ==
    ASSUME StackOK, NEW t \in Threads, NEW place, At(t, place)
    PROVE  /\ stack[t] # <<>> /\ Head(stack[t]) = place /\ place \in Elements(stack[t])
           /\ place \in Places
<1>1. stack[t] \in Seq(Places) /\ stack[t] # <<>> /\ Head(stack[t]) = place
  BY DEF StackOK, At
<1>2. 1 \in DOMAIN stack[t] /\ stack[t][1] = place BY <1>1
<1> QED BY <1>1, <1>2 DEF Elements

(* What is on the stacks stays good when the flags only rise.              *)
LEMMA PlacesStayGood ==
    ASSUME Ready, NEW t \in Threads, NEW add, Changes(t, add),
           loaded => loaded', usable => usable', transport => transport', bridgeUp => bridgeUp', active => active',
           \A p \in add : Good(p)'
    PROVE  StackOK' /\ PlacesGood'
<1>1. ASSUME NEW u \in Threads, NEW p \in Elements(stack'[u]) PROVE Good(p)'
  <2>1. p \in Elements(stack[u]) \/ p \in add BY DEF Changes
  <2>2. CASE p \in Elements(stack[u])
    <3>1. Good(p) BY <2>2 DEF Ready, PlacesGood
    <3> QED BY <3>1 DEF Good
  <2> QED BY <2>1, <2>2
<1> QED BY <1>1 DEF Changes, PlacesGood

LEMMA LookingStays ==
    ASSUME NEW t \in Threads, NEW add, Changes(t, add), Looking,
           stack[t] # <<>> => Head(stack[t]) \notin StartPlaces
    PROVE  Looking'
<1>1. PICK u \in Threads : \E p \in Elements(stack[u]) : p \in StartPlaces BY DEF Looking
<1>2. PICK p \in Elements(stack[u]) : p \in StartPlaces BY <1>1
<1>3. p # "route" BY <1>2 DEF StartPlaces
<1>4. stack[u] # <<>> BY <1>2 DEF Elements
<1>5. p \in Elements(stack'[u]) BY <1>2, <1>3, <1>4 DEF Changes
<1> QED BY <1>2, <1>5 DEF Looking

(* The steps that leave the flags alone, and add nothing that needs them.  *)
LEMMA QuietStep ==
    ASSUME Ready, NEW t \in Threads, NEW add, Changes(t, add), UNCHANGED Flags,
           stack[t] # <<>> => Head(stack[t]) \notin StartPlaces, \A p \in add : Good(p)
    PROVE  Ready'
<1>1. UNCHANGED <<running, active, available, transport, usable, loaded, bridgeUp>> BY DEF Flags
<1>2. \A p \in add : Good(p)' BY <1>1 DEF Good
<1>3. StackOK' /\ PlacesGood' BY <1>1, <1>2, PlacesStayGood
<1>4. Looking => Looking' BY LookingStays
<1>5. FlagsGood' BY <1>1, <1>4 DEF Ready, FlagsGood
<1> QED BY <1>3, <1>5 DEF Ready

Plain == {"configure", "load", "logDisabled", "refuse", "logging", "copy", "unlock",
          "calling"} \union EntryPlaces

LEMMA PlainIsGood == \A p \in Plain : Good(p)
  BY DEF Plain, EntryPlaces, Good

LEMMA QuietPlain ==
    ASSUME Ready, NEW t \in Threads, NEW add, add \subseteq Plain, Changes(t, add),
           UNCHANGED Flags, stack[t] # <<>> => Head(stack[t]) \notin StartPlaces
    PROVE  Ready'
<1>1. \A p \in add : Good(p) BY PlainIsGood
<1> QED BY <1>1, QuietStep

(* What each way on adds to the stack.                                     *)
LEMMA GotoPlain ==
    ASSUME Ready, NEW t \in Threads, NEW here, At(t, here), here \notin StartPlaces,
           NEW place \in Plain, place \in Places, Goto(t, place), UNCHANGED Flags
    PROVE  Ready'
<1>1. StackOK BY DEF Ready
<1>2. stack[t] # <<>> /\ Head(stack[t]) = here BY <1>1, HeadIsElement
<1>3. Changes(t, {place}) BY <1>1, <1>2, GotoChanges
<1> QED BY <1>2, <1>3, QuietPlain

LEMMA ReturnQuiet ==
    ASSUME Ready, NEW t \in Threads, NEW here, At(t, here), here \notin StartPlaces,
           Return(t) \/ ReturnFalse(t), UNCHANGED Flags
    PROVE  Ready'
<1>1. StackOK BY DEF Ready
<1>2. stack[t] # <<>> /\ Head(stack[t]) = here BY <1>1, HeadIsElement
<1>3. Changes(t, {}) BY <1>1, <1>2, ReturnChanges, ReturnFalseChanges
<1> QED BY <1>2, <1>3, QuietPlain

LEMMA EnterQuiet ==
    ASSUME Ready, NEW t \in Threads, NEW call \in Calls, Enter(t, call), UNCHANGED Flags,
           stack[t] # <<>> => Head(stack[t]) \notin StartPlaces
    PROVE  Ready'
<1>1. Changes(t, EntryPlaces) BY EnterChanges DEF Ready
<1>2. EntryPlaces \subseteq Plain BY DEF Plain
<1> QED BY <1>1, <1>2, QuietPlain

LEMMA NoBridgeChanges ==
    ASSUME StackOK, NEW t \in Threads, stack[t] # <<>>, NoBridge(t)
    PROVE  Changes(t, {"logDisabled"})
<1>1. CASE mode = "str"
  <2>1. Changes(t, {}) BY <1>1, ReturnFalseChanges DEF NoBridge
  <2> QED BY <2>1 DEF Changes
<1>2. CASE mode # "str"
  <2>1. Goto(t, "logDisabled") BY <1>2 DEF NoBridge
  <2>2. "logDisabled" \in Places BY DEF Places
  <2> QED BY <2>1, <2>2, GotoChanges
<1> QED BY <1>1, <1>2

LEMMA FlagsUnchanged ==
    ASSUME UNCHANGED startVars
    PROVE  UNCHANGED Flags
  BY DEF startVars, Flags
-----------------------------------------------------------------------------
(* The steps of Start.                                                     *)
LEMMA TestReady ==
    ASSUME Ready, NEW t \in Threads, Test(t)
    PROVE  Ready'
<1>1. At(t, "test") /\ UNCHANGED Flags BY FlagsUnchanged DEF Test
<1>2. Return(t) \/ Goto(t, "configure") BY DEF Test
<1>3. "configure" \in Plain /\ "configure" \in Places BY DEF Plain, Places
<1>4. "test" \notin StartPlaces BY DEF StartPlaces
<1> QED BY <1>1, <1>2, <1>3, <1>4, ReturnQuiet, GotoPlain

LEMMA ConfigureReady ==
    ASSUME Ready, NEW t \in Threads, Configure(t)
    PROVE  Ready'
<1>1. At(t, "configure") /\ UNCHANGED Flags BY DEF Configure, Flags
<1>2. ReturnFalse(t) \/ (\E p \in {"logDisabled", "load"} : Goto(t, p)) BY DEF Configure
<1>3. {"logDisabled", "load"} \subseteq Plain \cap Places BY DEF Plain, Places
<1>4. "configure" \notin StartPlaces BY DEF StartPlaces
<1> QED BY <1>1, <1>2, <1>3, <1>4, ReturnQuiet, GotoPlain

LEMMA LoadModuleReady ==
    ASSUME Ready, NEW t \in Threads, LoadModule(t)
    PROVE  Ready'
<1>1. StackOK /\ At(t, "load") BY DEF Ready, LoadModule
<1>2. stack[t] # <<>> BY <1>1, HeadIsElement
<1>3. UNCHANGED <<running, active, transport, usable, bridgeUp>> /\ available' = FALSE
  BY DEF LoadModule
<1>4. CASE ~loaded /\ NoBridge(t) /\ UNCHANGED loaded
  <2>1. Changes(t, {"logDisabled"}) BY <1>1, <1>2, <1>4, NoBridgeChanges
  <2>2. Good("logDisabled")' BY DEF Good
  <2>3. StackOK' /\ PlacesGood' BY <1>3, <1>4, <2>1, <2>2, PlacesStayGood
  <2>4. FlagsGood' BY <1>3, <1>4 DEF Ready, FlagsGood
  <2> QED BY <2>3, <2>4 DEF Ready
<1>5. CASE Goto(t, "queryTransport") /\ loaded' = TRUE
  <2>1. "queryTransport" \in Places BY DEF Places
  <2>2. /\ Changes(t, {"queryTransport"})
        /\ "queryTransport" \in Elements(stack'[t])
    BY <1>1, <1>2, <1>5, <2>1, GotoChanges
  <2>3. Good("queryTransport")' BY <1>5 DEF Good
  <2>4. StackOK' /\ PlacesGood' BY <1>3, <1>5, <2>2, <2>3, PlacesStayGood
  <2>5. Looking' BY <2>2 DEF Looking, StartPlaces
  <2>6. FlagsGood' BY <1>3, <1>5, <2>5 DEF Ready, FlagsGood
  <2> QED BY <2>4, <2>6 DEF Ready
<1> QED BY <1>4, <1>5 DEF LoadModule

LEMMA QueryTransportReady ==
    ASSUME Ready, NEW t \in Threads, QueryTransport(t)
    PROVE  Ready'
<1>1. StackOK /\ At(t, "queryTransport") BY DEF Ready, QueryTransport
<1>2. /\ stack[t] # <<>> /\ Head(stack[t]) = "queryTransport"
      /\ "queryTransport" \in Elements(stack[t])
  BY <1>1, HeadIsElement
<1>3. UNCHANGED <<running, active, transport, usable, loaded, bridgeUp>> BY DEF QueryTransport
<1>4. loaded BY <1>2 DEF Ready, PlacesGood, Good
<1>5. CASE ~usable /\ NoBridge(t) /\ UNCHANGED available
  <2>1. Changes(t, {"logDisabled"}) BY <1>1, <1>2, <1>5, NoBridgeChanges
  <2>2. Good("logDisabled")' BY DEF Good
  <2>3. StackOK' /\ PlacesGood' BY <1>3, <2>1, <2>2, PlacesStayGood
  <2>4. FlagsGood' BY <1>3, <1>5 DEF Ready, FlagsGood
  <2> QED BY <2>3, <2>4 DEF Ready
<1>6. CASE usable /\ Goto(t, "startTransport") /\ available' = TRUE
  <2>1. "startTransport" \in Places BY DEF Places
  <2>2. Changes(t, {"startTransport"}) BY <1>1, <1>2, <1>6, <2>1, GotoChanges
  <2>3. Good("startTransport")' BY <1>3, <1>4, <1>6 DEF Good
  <2>4. StackOK' /\ PlacesGood' BY <1>3, <2>2, <2>3, PlacesStayGood
  <2>5. FlagsGood' BY <1>3, <1>6 DEF Ready, FlagsGood
  <2> QED BY <2>4, <2>5 DEF Ready
<1> QED BY <1>5, <1>6 DEF QueryTransport

LEMMA StartTransportReady ==
    ASSUME Ready, NEW t \in Threads, StartTransport(t)
    PROVE  Ready'
<1>1. StackOK /\ At(t, "startTransport") BY DEF Ready, StartTransport
<1>2. /\ stack[t] # <<>> /\ Head(stack[t]) = "startTransport"
      /\ "startTransport" \in Elements(stack[t])
  BY <1>1, HeadIsElement
<1>3. UNCHANGED <<running, active, available, usable, loaded>> BY DEF StartTransport
<1>4. loaded /\ usable BY <1>2 DEF Ready, PlacesGood, Good
<1>5. Head(stack[t]) \notin StartPlaces BY <1>2 DEF StartPlaces
<1>6. CASE ~bridgeUp /\ NoBridge(t) /\ UNCHANGED <<bridgeUp, transport>>
  <2>1. Changes(t, {"logDisabled"}) BY <1>1, <1>2, <1>6, NoBridgeChanges
  <2>2. UNCHANGED Flags BY <1>3, <1>6 DEF Flags
  <2>3. {"logDisabled"} \subseteq Plain BY DEF Plain
  <2> QED BY <1>5, <2>1, <2>2, <2>3, QuietPlain
<1>7. CASE bridgeUp' = TRUE /\ transport' = TRUE /\ Goto(t, "logActive")
  <2>1. "logActive" \in Places BY DEF Places
  <2>2. Changes(t, {"logActive"}) BY <1>1, <1>2, <1>7, <2>1, GotoChanges
  <2>3. Good("logActive")' BY <1>7 DEF Good
  <2>4. StackOK' /\ PlacesGood' BY <1>3, <1>7, <2>2, <2>3, PlacesStayGood
  <2>5. Looking => Looking' BY <1>5, <2>2, LookingStays
  <2>6. FlagsGood' BY <1>3, <1>4, <1>7, <2>5 DEF Ready, FlagsGood
  <2> QED BY <2>4, <2>6 DEF Ready
<1> QED BY <1>6, <1>7 DEF StartTransport

LEMMA ActivateReady ==
    ASSUME Ready, NEW t \in Threads, Activate(t)
    PROVE  Ready'
<1>1. StackOK /\ UNCHANGED <<available, transport, usable, loaded, bridgeUp>>
  BY DEF Ready, Activate
<1>2. CASE At(t, "activate") /\ active' = TRUE /\ Goto(t, "run") /\ UNCHANGED running
  <2>1. /\ stack[t] # <<>> /\ Head(stack[t]) = "activate"
        /\ "activate" \in Elements(stack[t])
    BY <1>1, <1>2, HeadIsElement
  <2>2. transport /\ bridgeUp BY <2>1 DEF Ready, PlacesGood, Good
  <2>3. "run" \in Places BY DEF Places
  <2>4. Changes(t, {"run"}) BY <1>1, <1>2, <2>1, <2>3, GotoChanges
  <2>5. Good("run")' BY <1>1, <1>2, <2>2 DEF Good
  <2>6. StackOK' /\ PlacesGood' BY <1>1, <1>2, <2>4, <2>5, PlacesStayGood
  <2>7. Head(stack[t]) \notin StartPlaces BY <2>1 DEF StartPlaces
  <2>8. Looking => Looking' BY <2>4, <2>7, LookingStays
  <2>9. FlagsGood' BY <1>1, <1>2, <2>2, <2>8 DEF Ready, FlagsGood
  <2> QED BY <2>6, <2>9 DEF Ready
<1>3. CASE At(t, "run") /\ running' = TRUE /\ Return(t) /\ UNCHANGED active
  <2>1. stack[t] # <<>> /\ Head(stack[t]) = "run" /\ "run" \in Elements(stack[t])
    BY <1>1, <1>3, HeadIsElement
  <2>2. active /\ transport /\ bridgeUp BY <2>1 DEF Ready, PlacesGood, Good
  <2>3. Changes(t, {}) BY <1>1, <1>3, <2>1, ReturnChanges
  <2>4. StackOK' /\ PlacesGood' BY <1>1, <1>3, <2>3, PlacesStayGood
  <2>5. Head(stack[t]) \notin StartPlaces BY <2>1 DEF StartPlaces
  <2>6. Looking => Looking' BY <2>3, <2>5, LookingStays
  <2>7. FlagsGood' BY <1>1, <1>3, <2>2, <2>6 DEF Ready, FlagsGood
  <2> QED BY <2>4, <2>7 DEF Ready
<1> QED BY <1>2, <1>3 DEF Activate

LEMMA LogReady ==
    ASSUME Ready, NEW t \in Threads, Log(t)
    PROVE  Ready'
<1>1. StackOK /\ UNCHANGED Flags BY FlagsUnchanged DEF Ready, Log
<1>2. PICK then \in {"activate", "refuse"} :
        /\ At(t, IF then = "activate" THEN "logActive" ELSE "logDisabled")
        /\ stack' = [stack EXCEPT ![t] = <<"logging", then>> \o Tail(@)]
  BY DEF Log
<1> DEFINE here == IF then = "activate" THEN "logActive" ELSE "logDisabled"
<1>3. stack[t] # <<>> /\ Head(stack[t]) = here /\ here \in Elements(stack[t])
  BY <1>1, <1>2, HeadIsElement
<1>4. then \in Places BY DEF Places
<1>5. Changes(t, {"logging", then}) BY <1>1, <1>2, <1>3, <1>4, LogChanges
<1>6. Good("logging") BY DEF Good
<1>7. Good(here) BY <1>3 DEF Ready, PlacesGood
<1>8. Good(then) BY <1>7 DEF Good
<1>9. here \notin StartPlaces BY DEF StartPlaces
<1> QED BY <1>1, <1>3, <1>5, <1>6, <1>8, <1>9, QuietStep

LEMMA LogCallbackReady ==
    ASSUME Ready, NEW t \in Threads, LogCallback(t)
    PROVE  Ready'
<1>1. StackOK /\ At(t, "logging") /\ UNCHANGED Flags BY FlagsUnchanged DEF Ready, LogCallback
<1>2. Return(t) \/ (\E call \in Calls : Enter(t, call))
  BY CallAssumption DEF LogCallback
<1>3. "logging" \notin StartPlaces BY DEF StartPlaces
<1>4. Head(stack[t]) \notin StartPlaces BY <1>1, <1>3, HeadIsElement
<1> QED BY <1>1, <1>2, <1>3, <1>4, ReturnQuiet, EnterQuiet
-----------------------------------------------------------------------------
(* The other steps only return, or enter a call.                           *)
LEMMA OtherReady ==
    ASSUME Ready, NEW t \in Threads,
           Refuse(t) \/ Route(t) \/ SetLogCallback(t) \/ RegisterChannel(t) \/ UnregisterChannel(t)
    PROVE  Ready'
<1> DEFINE Here == {"refuse", "route", "setLogCallback", "register", "unregister"}
<1>1. PICK here \in Here : At(t, here)
  BY DEF Refuse, Route, SetLogCallback, RegisterChannel, UnregisterChannel
<1>2. Return(t) \/ ReturnFalse(t)
  BY DEF Refuse, Route, SetLogCallback, RegisterChannel, UnregisterChannel
<1>3. UNCHANGED Flags
  BY FlagsUnchanged DEF Refuse, Route, SetLogCallback, RegisterChannel, UnregisterChannel
<1>4. here \notin StartPlaces BY <1>1 DEF StartPlaces
<1> QED BY <1>1, <1>2, <1>3, <1>4, ReturnQuiet

LEMMA CallApiReady ==
    ASSUME Ready, NEW t \in Threads, CallApi(t)
    PROVE  Ready'
<1>1. UNCHANGED Flags /\ stack[t] = <<>> BY FlagsUnchanged DEF CallApi
<1>2. PICK call \in Calls : Enter(t, call) BY DEF CallApi
<1> QED BY <1>1, <1>2, EnterQuiet

LEMMA ReceiveReady ==
    ASSUME Ready, Receive
    PROVE  Ready'
<1>1. StackOK /\ Receiver \in Threads BY DEF Ready, Threads
<1>2. UNCHANGED Flags /\ stack[Receiver] = <<>> BY FlagsUnchanged DEF Receive
<1> DEFINE s == <<"copy">>
<1>3. "copy" \in Places BY DEF Places
<1>4. s \in Seq(Places) /\ Elements(s) = {"copy"} BY <1>3, ShortElements
<1>5. stack' = [stack EXCEPT ![Receiver] = s] BY DEF Receive
<1> HIDE DEF s
<1>6. StackOK' /\ stack'[Receiver] = s /\ \A u \in Threads \ {Receiver} : stack'[u] = stack[u]
  BY <1>1, <1>4, <1>5, SetStack
<1>7. Elements(stack[Receiver]) = {} BY <1>2 DEF Elements
<1>8. Changes(Receiver, {"copy"}) BY <1>4, <1>6, <1>7 DEF Changes
<1>9. {"copy"} \subseteq Plain BY DEF Plain
<1> QED BY <1>1, <1>2, <1>8, <1>9, QuietPlain

LEMMA DeliverReady ==
    ASSUME Ready, Deliver
    PROVE  Ready'
<1>1. Receiver \in Threads /\ StackOK BY DEF Threads, Ready
<1>2. UNCHANGED Flags
  BY FlagsUnchanged DEF Deliver, CopyListeners, Unlock, CallListener, Finish
<1>3. PICK here \in {"copy", "unlock", "calling"} : At(Receiver, here)
  BY DEF Deliver, CopyListeners, Unlock, CallListener, Finish
<1>4. here \notin StartPlaces BY <1>3 DEF StartPlaces
<1>5. \/ \E p \in {"unlock", "calling"} : Goto(Receiver, p)
      \/ Return(Receiver)
      \/ UNCHANGED stack
      \/ \E call \in CallbackCalls : Enter(Receiver, call)
  BY DEF Deliver, CopyListeners, Unlock, CallListener, Finish
<1>6. {"unlock", "calling"} \subseteq Plain \cap Places BY DEF Plain, Places
<1>7. Head(stack[Receiver]) \notin StartPlaces BY <1>1, <1>3, <1>4, HeadIsElement
<1>8. CASE UNCHANGED stack
  <2>1. Changes(Receiver, {}) BY <1>1, <1>8 DEF Changes, StackOK
  <2> QED BY <1>1, <1>2, <1>7, <2>1, QuietPlain
<1>9. CASE \E call \in CallbackCalls : Enter(Receiver, call)
  BY <1>1, <1>2, <1>7, <1>9, CallAssumption, EnterQuiet
<1> QED BY <1>1, <1>2, <1>3, <1>4, <1>5, <1>6, <1>8, <1>9, GotoPlain, ReturnQuiet

LEMMA InitReady == Init => Ready
<1> SUFFICES ASSUME Init PROVE Ready OBVIOUS
<1>1. StackOK BY DEF Init, StackOK
<1>2. \A t \in Threads : Elements(stack[t]) = {} BY DEF Init, Elements
<1>3. FlagsGood BY DEF Init, FlagsGood
<1> QED BY <1>1, <1>2, <1>3 DEF Ready, PlacesGood

LEMMA NextReady == Ready /\ [Next]_vars => Ready'
<1> SUFFICES ASSUME Ready, [Next]_vars PROVE Ready' OBVIOUS
<1>1. ASSUME NEW t \in Threads, Start(t) PROVE Ready'
  BY <1>1, TestReady, ConfigureReady, LoadModuleReady, QueryTransportReady,
     StartTransportReady, LogReady, LogCallbackReady, ActivateReady, OtherReady DEF Start
<1>2. ASSUME NEW t \in Threads, Step(t) PROVE Ready'
  BY <1>1, <1>2, OtherReady DEF Step
<1>3. CASE UNCHANGED vars
  BY <1>3 DEF vars, startVars, Ready, StackOK, PlacesGood, Good, FlagsGood, Looking
<1>4. CASE Next BY <1>2, <1>4, ReceiveReady, DeliverReady, CallApiReady DEF Next
<1> QED BY <1>3, <1>4

LEMMA ReadyImplies == Ready => RunningIsReady
<1> SUFFICES ASSUME Ready, running PROVE RunningIsReady
  BY DEF RunningIsReady
<1>1. active /\ transport /\ bridgeUp /\ (available \/ Looking) BY DEF Ready, FlagsGood
<1>2. Looking => \E t \in Threads : \E i \in DOMAIN stack[t] : stack[t][i] \in StartPlaces
  BY DEF Looking, Elements
<1> QED BY <1>1, <1>2 DEF RunningIsReady

(* However many threads start the broker together, from calls or from      *)
(* callbacks: one that finds _running set (Runtime 492) finds the active   *)
(* backend and its transport, and the status says so once nobody starts.   *)
THEOREM StartedIsReady == Spec => []RunningIsReady
<1>1. Spec => []Ready BY InitReady, NextReady, PTL DEF Spec
<1> QED BY <1>1, ReadyImplies, PTL
-----------------------------------------------------------------------------
(* ReachesItsListeners.  Until the listeners are copied, those that stay   *)
(* are among the registered ones; afterwards they are called or copied.    *)
OfDelivery == {"copy", "unlock", "calling"}
Own        == Places \ OfDelivery
History    == <<listeners, seen, throughout, channel, copied, called>>

NotCopied ==
    "copy" \in Elements(stack[Receiver]) =>
        /\ stack[Receiver] = <<"copy">> /\ called = {}
        /\ throughout \subseteq Handles(OfChannel(channel))
        /\ Handles(OfChannel(channel)) \subseteq seen

Copied ==
    {"unlock", "calling"} \cap Elements(stack[Receiver]) # {} =>
        /\ throughout \subseteq called \union Handles(copied)
        /\ called \union Handles(copied) \subseteq seen

Told == StackOK /\ NotCopied /\ Copied

LEMMA Widen ==
    ASSUME NEW t, NEW add, Changes(t, add), NEW more, add \subseteq more
    PROVE  Changes(t, more)
  BY DEF Changes

(* A step outside Deliver begins at a place of its own, and adds such.     *)
LEMMA GotoOwn ==
    ASSUME StackOK, NEW t \in Threads, stack[t] # <<>>, NEW place \in Own, Goto(t, place)
    PROVE  Changes(t, Own)
<1>1. Changes(t, {place}) BY GotoChanges DEF Own
<1> QED BY <1>1, Widen

LEMMA BackOwn ==
    ASSUME StackOK, NEW t \in Threads, stack[t] # <<>>, Return(t) \/ ReturnFalse(t)
    PROVE  Changes(t, Own)
<1>1. Changes(t, {}) BY ReturnChanges, ReturnFalseChanges
<1> QED BY <1>1, Widen

LEMMA EnterOwn ==
    ASSUME StackOK, NEW t \in Threads, NEW call \in Calls, Enter(t, call)
    PROVE  Changes(t, Own)
<1>1. EntryPlaces \subseteq Own BY DEF EntryPlaces, Own, Places, OfDelivery
<1> QED BY <1>1, EnterChanges, Widen

LEMMA StepIsOwn ==
    ASSUME StackOK, NEW t \in Threads, Step(t)
    PROVE  Changes(t, Own) /\ stack[t] # <<>> /\ Head(stack[t]) \notin OfDelivery
<1> DEFINE Going == {"configure", "load", "logDisabled", "queryTransport", "startTransport",
                     "logActive", "run"}
<1>1. PICK here \in Own : At(t, here)
  BY DEF Step, Start, Test, Configure, LoadModule, QueryTransport, StartTransport, Log,
         LogCallback, Activate, Refuse, Route, SetLogCallback, RegisterChannel,
         UnregisterChannel, Own, Places, OfDelivery
<1>2. stack[t] # <<>> /\ Head(stack[t]) \notin OfDelivery
  BY <1>1, HeadIsElement DEF Own
<1>3. \/ Return(t) \/ ReturnFalse(t) \/ NoBridge(t)
      \/ \E p \in Going : Goto(t, p)
      \/ \E call \in Calls : Enter(t, call)
      \/ \E then \in {"activate", "refuse"} :
            stack' = [stack EXCEPT ![t] = <<"logging", then>> \o Tail(@)]
  BY CallAssumption
     DEF Step, Start, Test, Configure, LoadModule, QueryTransport, StartTransport, Log,
         LogCallback, Activate, Refuse, Route, SetLogCallback, RegisterChannel,
         UnregisterChannel
<1>4. ASSUME NoBridge(t) PROVE Changes(t, Own)
  <2>1. Changes(t, {"logDisabled"}) BY <1>2, <1>4, NoBridgeChanges
  <2>2. {"logDisabled"} \subseteq Own BY DEF Own, Places, OfDelivery
  <2> QED BY <2>1, <2>2, Widen
<1>5. ASSUME NEW then \in {"activate", "refuse"},
             stack' = [stack EXCEPT ![t] = <<"logging", then>> \o Tail(@)]
      PROVE  Changes(t, Own)
  <2>1. then \in Places /\ {"logging", then} \subseteq Own BY DEF Own, Places, OfDelivery
  <2>2. Changes(t, {"logging", then}) BY <1>2, <1>5, <2>1, LogChanges
  <2> QED BY <2>1, <2>2, Widen
<1>6. Going \subseteq Own BY DEF Own, Places, OfDelivery
<1> HIDE DEF Going
<1> QED BY <1>2, <1>3, <1>4, <1>5, <1>6, GotoOwn, BackOwn, EnterOwn

(* Such a step leaves a delivery where it is.                              *)
LEMMA OwnKeepsPlace ==
    ASSUME StackOK, NEW t \in Threads, Changes(t, Own),
           stack[t] = <<>> \/ Head(stack[t]) # "copy",
           "copy" \in Elements(stack[Receiver]) => stack[Receiver] = <<"copy">>
    PROVE  /\ Elements(stack'[Receiver]) \cap OfDelivery \subseteq Elements(stack[Receiver])
           /\ "copy" \in Elements(stack'[Receiver]) => stack'[Receiver] = stack[Receiver]
<1>1. CASE t # Receiver
  <2>1. Receiver \in Threads BY DEF Threads
  <2> QED BY <1>1, <2>1 DEF Changes
<1>2. CASE t = Receiver
  <2>1. Elements(stack'[t]) \cap OfDelivery \subseteq Elements(stack[t])
    BY DEF Changes, Own
  <2>2. "copy" \notin Elements(stack[t])
    <3>1. CASE stack[t] = <<>> BY <3>1 DEF Elements
    <3>2. CASE stack[t] # <<>> /\ Head(stack[t]) # "copy" BY <1>2, <3>2
    <3> QED BY <3>1, <3>2
  <2> QED BY <1>2, <2>1, <2>2 DEF OfDelivery
<1> QED BY <1>1, <1>2

LEMMA QuietTold ==
    ASSUME Told, NEW t \in Threads, Changes(t, Own), UNCHANGED History,
           stack[t] = <<>> \/ Head(stack[t]) # "copy"
    PROVE  Told'
<1>1. UNCHANGED <<listeners, seen, throughout, channel, copied, called>> BY DEF History
<1>2. /\ Elements(stack'[Receiver]) \cap OfDelivery \subseteq Elements(stack[Receiver])
      /\ "copy" \in Elements(stack'[Receiver]) => stack'[Receiver] = stack[Receiver]
  BY OwnKeepsPlace DEF Told, NotCopied
<1>3. UNCHANGED Handles(copied) /\ UNCHANGED Handles(OfChannel(channel))
  BY <1>1 DEF Handles, OfChannel
<1>4. StackOK' BY DEF Changes
<1>5. NotCopied' BY <1>1, <1>2, <1>3 DEF Told, NotCopied
<1>6. Copied' BY <1>1, <1>2, <1>3 DEF Told, Copied, OfDelivery
<1> QED BY <1>4, <1>5, <1>6 DEF Told

LEMMA RegisterTold ==
    ASSUME Told, NEW t \in Threads, RegisterChannel(t)
    PROVE  Told'
<1>1. Step(t) BY DEF Step
<1>2. Changes(t, Own) /\ stack[t] # <<>> /\ Head(stack[t]) # "copy"
  BY <1>1, StepIsOwn DEF Told, OfDelivery
<1>3. UNCHANGED <<throughout, channel, copied, called>>
  BY DEF RegisterChannel, deliveryVars
<1>4. PICK c \in Channels :
        IF \E l \in listeners : l.channel = c
        THEN UNCHANGED <<listeners, nextHandle, seen>>
        ELSE /\ listeners' = listeners \union {[handle |-> nextHandle, channel |-> c]}
             /\ nextHandle' = nextHandle + 1
             /\ seen' = IF Delivering /\ c = channel THEN seen \union {nextHandle} ELSE seen
  BY DEF RegisterChannel
<1>5. CASE UNCHANGED <<listeners, nextHandle, seen>>
  BY <1>2, <1>3, <1>5, QuietTold DEF History
<1>6. CASE /\ listeners' = listeners \union {[handle |-> nextHandle, channel |-> c]}
           /\ seen' = IF Delivering /\ c = channel THEN seen \union {nextHandle} ELSE seen
  <2>1. /\ Elements(stack'[Receiver]) \cap OfDelivery \subseteq Elements(stack[Receiver])
        /\ "copy" \in Elements(stack'[Receiver]) => stack'[Receiver] = stack[Receiver]
    BY <1>2, OwnKeepsPlace DEF Told, NotCopied
  <2>2. Handles(OfChannel(channel)) \subseteq Handles(OfChannel(channel))'
    BY <1>3, <1>6 DEF Handles, OfChannel
  <2>3. \A h \in Handles(OfChannel(channel))' :
            h \in Handles(OfChannel(channel)) \/ (h = nextHandle /\ c = channel)
    BY <1>3, <1>6 DEF Handles, OfChannel
  <2>4. seen \subseteq seen' BY <1>6
  <2>5. UNCHANGED Handles(copied) BY <1>3 DEF Handles
  <2>6. ASSUME "copy" \in Elements(stack'[Receiver]) PROVE Handles(OfChannel(channel))' \subseteq seen'
    <3>1. "copy" \in Elements(stack[Receiver]) BY <2>1, <2>6 DEF OfDelivery
    <3>2. Delivering BY <3>1 DEF Delivering, Elements
    <3>3. Handles(OfChannel(channel)) \subseteq seen BY <3>1 DEF Told, NotCopied
    <3> QED BY <1>6, <2>3, <2>4, <3>2, <3>3
  <2>7. NotCopied' BY <1>3, <2>1, <2>2, <2>6 DEF Told, NotCopied, OfDelivery
  <2>8. Copied' BY <1>3, <2>1, <2>4, <2>5 DEF Told, Copied, OfDelivery
  <2>9. StackOK' BY <1>2 DEF Changes
  <2> QED BY <2>7, <2>8, <2>9 DEF Told
<1> QED BY <1>4, <1>5, <1>6

LEMMA UnregisterTold ==
    ASSUME Told, NEW t \in Threads, UnregisterChannel(t)
    PROVE  Told'
<1>1. Step(t) BY DEF Step
<1>2. Changes(t, Own) /\ stack[t] # <<>> /\ Head(stack[t]) # "copy"
  BY <1>1, StepIsOwn DEF Told, OfDelivery
<1>3. UNCHANGED <<seen, channel, copied, called>>
  BY DEF UnregisterChannel, deliveryVars
<1>4. PICK handle \in 1 .. nextHandle :
        /\ listeners' = {l \in listeners : l.handle # handle}
        /\ throughout' = throughout \ {handle}
  BY DEF UnregisterChannel
<1>5. /\ Elements(stack'[Receiver]) \cap OfDelivery \subseteq Elements(stack[Receiver])
      /\ "copy" \in Elements(stack'[Receiver]) => stack'[Receiver] = stack[Receiver]
  BY <1>2, OwnKeepsPlace DEF Told, NotCopied
<1>6. Handles(OfChannel(channel))' = Handles(OfChannel(channel)) \ {handle}
  BY <1>3, <1>4 DEF Handles, OfChannel
<1>7. UNCHANGED Handles(copied) BY <1>3 DEF Handles
<1>8. NotCopied' BY <1>3, <1>4, <1>5, <1>6 DEF Told, NotCopied, OfDelivery
<1>9. Copied' BY <1>3, <1>4, <1>5, <1>7 DEF Told, Copied, OfDelivery
<1>10. StackOK' BY <1>2 DEF Changes
<1> QED BY <1>8, <1>9, <1>10 DEF Told

LEMMA StepTold ==
    ASSUME Told, NEW t \in Threads, Step(t)
    PROVE  Told'
<1>1. CASE RegisterChannel(t) \/ UnregisterChannel(t)
  BY <1>1, RegisterTold, UnregisterTold
<1>2. CASE ~(RegisterChannel(t) \/ UnregisterChannel(t))
  <2>1. UNCHANGED History
    BY <1>2 DEF Step, Start, Test, Configure, LoadModule, QueryTransport, StartTransport, Log,
         LogCallback, Activate, Refuse, Route, SetLogCallback, History, listenerVars,
         deliveryVars
  <2>2. Changes(t, Own) /\ Head(stack[t]) # "copy" BY StepIsOwn DEF Told, OfDelivery
  <2> QED BY <2>1, <2>2, QuietTold
<1> QED BY <1>1, <1>2

LEMMA CallApiTold ==
    ASSUME Told, NEW t \in Threads, CallApi(t)
    PROVE  Told'
<1>1. stack[t] = <<>> /\ UNCHANGED History
  BY DEF CallApi, History, listenerVars, deliveryVars
<1>2. PICK call \in Calls : Enter(t, call) BY DEF CallApi
<1>3. Changes(t, Own) BY <1>2, EnterOwn DEF Told
<1> QED BY <1>1, <1>3, QuietTold

LEMMA ReceiveTold ==
    ASSUME Told, Receive
    PROVE  Told'
<1>1. Receiver \in Threads /\ StackOK BY DEF Threads, Told
<1> DEFINE s == <<"copy">>
<1>2. "copy" \in Places BY DEF Places
<1>3. s \in Seq(Places) /\ Elements(s) = {"copy"} BY <1>2, ShortElements
<1>4. stack' = [stack EXCEPT ![Receiver] = s] BY DEF Receive
<1> HIDE DEF s
<1>5. StackOK' /\ stack'[Receiver] = s BY <1>1, <1>3, <1>4, SetStack
<1>6. /\ UNCHANGED listeners /\ called' = {} /\ throughout' = seen'
      /\ seen' = Handles(OfChannel(channel'))
  BY DEF Receive
<1>7. Handles(OfChannel(channel))' = seen' BY <1>6 DEF Handles, OfChannel
<1>8. NotCopied' BY <1>5, <1>6, <1>7 DEF NotCopied, s
<1>9. Copied' BY <1>3, <1>5 DEF Copied
<1> QED BY <1>5, <1>8, <1>9 DEF Told

LEMMA DeliverTold ==
    ASSUME Told, Deliver
    PROVE  Told'
<1>1. Receiver \in Threads /\ StackOK BY DEF Threads, Told
<1>2. ASSUME CopyListeners PROVE Told'
  <2>1. /\ stack[Receiver] # <<>> /\ Head(stack[Receiver]) = "copy"
        /\ "copy" \in Elements(stack[Receiver])
    BY <1>1, <1>2, HeadIsElement DEF CopyListeners
  <2>2. stack[Receiver] = <<"copy">> /\ NotCopied BY <2>1 DEF Told, NotCopied
  <2> DEFINE s == <<"unlock">>
  <2>3. "unlock" \in Places BY DEF Places
  <2>4. s \in Seq(Places) /\ Elements(s) = {"unlock"} BY <2>3, ShortElements
  <2>5. s = <<"unlock">> \o Tail(stack[Receiver]) BY <2>2
  <2>6. stack' = [stack EXCEPT ![Receiver] = s]
    BY <1>2, <2>5 DEF CopyListeners, Goto
  <2> HIDE DEF s
  <2>7. StackOK' /\ stack'[Receiver] = s BY <1>1, <2>4, <2>6, SetStack
  <2>8. copied' = OfChannel(channel) /\ UNCHANGED <<throughout, called, seen>>
    BY <1>2 DEF CopyListeners
  <2>9. Handles(copied)' = Handles(OfChannel(channel)) BY <2>8 DEF Handles
  <2>10. Copied' BY <2>1, <2>2, <2>8, <2>9 DEF Copied, NotCopied
  <2>11. NotCopied' BY <2>4, <2>7 DEF NotCopied
  <2> QED BY <2>7, <2>10, <2>11 DEF Told
<1>3. ASSUME Unlock PROVE Told'
  <2>1. At(Receiver, "unlock") /\ Goto(Receiver, "calling") BY <1>3 DEF Unlock
  <2>2. /\ stack[Receiver] # <<>> /\ Head(stack[Receiver]) = "unlock"
        /\ "unlock" \in Elements(stack[Receiver])
    BY <1>1, <2>1, HeadIsElement
  <2>3. "calling" \in Places BY DEF Places
  <2>4. Changes(Receiver, {"calling"}) BY <1>1, <2>1, <2>2, <2>3, GotoChanges
  <2>5. UNCHANGED <<throughout, called, copied, seen>> BY <1>3 DEF Unlock, deliveryVars
  <2>6. UNCHANGED Handles(copied) BY <2>5 DEF Handles
  <2>7. Copied' BY <2>2, <2>5, <2>6 DEF Told, Copied
  <2>8. "copy" \notin Elements(stack[Receiver])
    <3>1. stack[Receiver] # <<"copy">> BY <2>2
    <3> QED BY <3>1 DEF Told, NotCopied
  <2>9. "copy" \notin Elements(stack'[Receiver]) BY <2>4, <2>8 DEF Changes
  <2>10. NotCopied' BY <2>9 DEF NotCopied
  <2> QED BY <2>4, <2>7, <2>10 DEF Told, Changes
<1>4. ASSUME CallListener PROVE Told'
  <2>1. /\ stack[Receiver] # <<>> /\ Head(stack[Receiver]) = "calling"
        /\ "calling" \in Elements(stack[Receiver])
    BY <1>1, <1>4, HeadIsElement DEF CallListener
  <2>2. Changes(Receiver, Own)
    <3>1. CASE UNCHANGED stack
      <4>1. Changes(Receiver, {}) BY <1>1, <3>1 DEF Changes, StackOK
      <4> QED BY <4>1, Widen
    <3>2. CASE \E call \in CallbackCalls : Enter(Receiver, call)
      BY <1>1, <3>2, CallAssumption, EnterOwn
    <3> QED BY <1>4, <3>1, <3>2 DEF CallListener
  <2>3. PICK l \in copied : copied' = copied \ {l} /\ called' = called \union {l.handle}
    BY <1>4 DEF CallListener
  <2>4. UNCHANGED <<throughout, seen>> BY <1>4 DEF CallListener, listenerVars
  <2>5. (called \union Handles(copied))' = called \union Handles(copied)
    BY <2>3 DEF Handles
  <2>6. Copied' BY <2>1, <2>4, <2>5 DEF Told, Copied
  <2>7. "copy" \notin Elements(stack[Receiver])
    <3>1. stack[Receiver] # <<"copy">> BY <2>1
    <3> QED BY <3>1 DEF Told, NotCopied
  <2>8. "copy" \notin Elements(stack'[Receiver])
    BY <2>2, <2>7 DEF Changes, Own, OfDelivery
  <2>9. NotCopied' BY <2>8 DEF NotCopied
  <2> QED BY <2>2, <2>6, <2>9 DEF Told, Changes
<1>5. ASSUME Finish PROVE Told'
  <2>1. At(Receiver, "calling") /\ Return(Receiver) BY <1>5 DEF Finish
  <2>2. stack[Receiver] # <<>> /\ Head(stack[Receiver]) = "calling"
    BY <1>1, <2>1, HeadIsElement
  <2>3. Changes(Receiver, Own) BY <1>1, <2>1, <2>2, BackOwn
  <2>4. UNCHANGED History BY <1>5 DEF Finish, History, deliveryVars
  <2>5. Head(stack[Receiver]) # "copy" BY <2>2
  <2> QED BY <1>1, <2>3, <2>4, <2>5, QuietTold
<1> QED BY <1>2, <1>3, <1>4, <1>5 DEF Deliver

LEMMA InitTold == Init => Told
<1> SUFFICES ASSUME Init PROVE Told OBVIOUS
<1>1. StackOK BY DEF Init, StackOK
<1>2. Elements(stack[Receiver]) = {} BY DEF Init, Elements, Threads
<1> QED BY <1>1, <1>2 DEF Told, NotCopied, Copied

LEMMA NextTold == Told /\ [Next]_vars => Told'
<1> SUFFICES ASSUME Told, [Next]_vars PROVE Told' OBVIOUS
<1>1. CASE UNCHANGED vars
  BY <1>1 DEF vars, listenerVars, deliveryVars, Told, StackOK, NotCopied, Copied, Handles,
     OfChannel
<1>2. CASE Next BY <1>2, ReceiveTold, DeliverTold, CallApiTold, StepTold DEF Next
<1> QED BY <1>1, <1>2

LEMMA ToldImplies == Told => ReachesItsListeners
<1> SUFFICES ASSUME Told, At(Receiver, "calling"), copied = {} PROVE ReachesItsListeners
  BY DEF ReachesItsListeners
<1>1. "calling" \in Elements(stack[Receiver]) BY HeadIsElement DEF Told, Threads
<1>2. Handles(copied) = {} BY DEF Handles
<1> QED BY <1>1, <1>2 DEF Told, Copied, ReachesItsListeners

(* A listener that stays registered all through a delivery is called, and  *)
(* nobody who was never registered during it, with any number of threads   *)
(* and channels and whatever the callbacks call (Runtime 1333-1356).       *)
THEOREM DeliversToListeners == Spec => []ReachesItsListeners
<1>1. Spec => []Told BY InitTold, NextTold, PTL DEF Spec
<1> QED BY <1>1, ToldImplies, PTL
-----------------------------------------------------------------------------
(* TypeOK.  The stacks and the flags are typed by the two invariants       *)
(* above; what is left are the counters, the mutexes and the registry.     *)
Counters ==
    /\ mode \in {"off", "str", "auto", "udp"} /\ identity \in Nat /\ raced \in BOOLEAN
    /\ calls \in 0 .. MaxCalls /\ messages \in 0 .. MaxMessages

Mutexes == logLock \in Threads \union {Nobody} /\ listenerLock \in Threads \union {Nobody}

Given == 1 .. nextHandle - 1
Listener == [handle : Given, channel : Channels]

Registry ==
    /\ nextHandle \in Nat \ {0} /\ listeners \subseteq Listener
    /\ \A l, m \in listeners : l # m => l.handle # m.handle /\ l.channel # m.channel
    /\ channel \in Channels /\ copied \subseteq Listener
    /\ called \subseteq Given /\ seen \subseteq Given /\ throughout \subseteq Given

LEMMA TypedInit == Init => Counters /\ Mutexes /\ Registry
<1> SUFFICES ASSUME Init PROVE Counters /\ Mutexes /\ Registry OBVIOUS
<1>1. Counters
  <2>1. mode \in {"off", "str", "auto", "udp"} /\ raced \in BOOLEAN BY DEF Init
  <2>2. identity = 0 /\ calls = 0 /\ messages = 0 BY DEF Init
  <2> QED BY <2>1, <2>2, BoundsAssumption DEF Counters
<1>2. Mutexes BY DEF Init, Mutexes
<1>3. channel \in Channels BY ChannelAssumption DEF Init
<1>4. Registry BY <1>3 DEF Init, Registry
<1> QED BY <1>1, <1>2, <1>4

LEMMA EnterCounts ==
    ASSUME Counters, NEW t, NEW call, Enter(t, call), UNCHANGED <<mode, identity, messages>>,
           raced' \in BOOLEAN
    PROVE  Counters'
  BY BoundsAssumption DEF Counters, Enter

LEMMA CountersNext ==
    ASSUME Counters, Next
    PROVE  Counters'
<1> USE DEF startVars, listenerVars, deliveryVars
<1>0. raced' \in BOOLEAN BY DEF Next, StartHistory, Counters
<1>1. CASE Receive
  BY <1>0, <1>1, BoundsAssumption DEF Receive, Counters
<1>2. CASE Deliver
  <2>1. UNCHANGED <<mode, identity, messages>>
    BY <1>2 DEF Deliver, CopyListeners, Unlock, CallListener, Finish
  <2>2. UNCHANGED calls \/ \E call \in CallbackCalls : Enter(Receiver, call)
    BY <1>2 DEF Deliver, CopyListeners, Unlock, CallListener, Finish
  <2> QED BY <1>0, <2>1, <2>2, EnterCounts DEF Counters
<1>3. ASSUME NEW t \in Threads, CallApi(t) PROVE Counters'
  BY <1>0, <1>3, EnterCounts DEF CallApi
<1>4. ASSUME NEW t \in Threads, Step(t) PROVE Counters'
  <2>1. UNCHANGED <<mode, messages>> /\ (UNCHANGED identity \/ identity' = identity + 1)
    BY <1>4 DEF Step, Start, Test, Configure, LoadModule, QueryTransport, StartTransport, Log,
         LogCallback, Activate, Refuse, Route, SetLogCallback, RegisterChannel,
         UnregisterChannel
  <2>2. UNCHANGED calls \/ (UNCHANGED identity /\ \E call \in LogCallbackCalls : Enter(t, call))
    BY <1>4 DEF Step, Start, Test, Configure, LoadModule, QueryTransport, StartTransport, Log,
         LogCallback, Activate, Refuse, Route, SetLogCallback, RegisterChannel,
         UnregisterChannel
  <2>3. CASE UNCHANGED calls BY <1>0, <2>1, <2>3 DEF Counters
  <2>4. CASE UNCHANGED identity /\ \E call \in LogCallbackCalls : Enter(t, call)
    BY <1>0, <2>1, <2>4, EnterCounts
  <2> QED BY <2>2, <2>3, <2>4
<1> QED BY <1>1, <1>2, <1>3, <1>4 DEF Next

LEMMA MutexesNext ==
    ASSUME Mutexes, Next
    PROVE  Mutexes'
<1> USE DEF startVars, listenerVars, deliveryVars
<1>1. CASE Receive \/ Deliver
  BY <1>1 DEF Receive, Deliver, CopyListeners, Unlock, CallListener, Finish, Mutexes, Threads
<1>2. ASSUME NEW t \in Threads, CallApi(t) \/ Step(t) PROVE Mutexes'
  BY <1>2 DEF CallApi, Step, Start, Test, Configure, LoadModule, QueryTransport, StartTransport,
       Log, LogCallback, Activate, Refuse, Route, SetLogCallback, RegisterChannel,
       UnregisterChannel, Mutexes
<1> QED BY <1>1, <1>2 DEF Next

LEMMA RegistryNext ==
    ASSUME Registry, Next
    PROVE  Registry'
<1> DEFINE Book == <<listeners, nextHandle, channel, copied, called, seen, throughout>>
<1>1. CASE UNCHANGED Book
  BY <1>1 DEF Registry, Given, Listener
<1>2. CASE Receive
  <2>1. /\ UNCHANGED <<listeners, nextHandle>> /\ channel' \in Channels
        /\ seen' = Handles(OfChannel(channel')) /\ throughout' = seen'
        /\ called' = {} /\ copied' = {}
    BY <1>2 DEF Receive
  <2>2. Handles(OfChannel(channel')) \subseteq Given'
    BY <2>1 DEF Handles, OfChannel, Registry, Listener, Given
  <2> QED BY <2>1, <2>2 DEF Registry, Listener, Given
<1>3. CASE Deliver
  <2>1. UNCHANGED <<listeners, nextHandle, channel, seen, throughout>>
    BY <1>3 DEF Deliver, CopyListeners, Unlock, CallListener, Finish, listenerVars, deliveryVars
  <2>2. \/ copied' = OfChannel(channel) /\ UNCHANGED called
        \/ UNCHANGED <<copied, called>>
        \/ \E l \in copied : copied' = copied \ {l} /\ called' = called \union {l.handle}
    BY <1>3 DEF Deliver, CopyListeners, Unlock, CallListener, Finish, deliveryVars
  <2>3. copied' \subseteq Listener /\ called' \subseteq Given
    BY <2>2 DEF Registry, OfChannel, Listener
  <2> QED BY <2>1, <2>3 DEF Registry, Listener, Given
<1>4. ASSUME NEW t \in Threads, RegisterChannel(t) PROVE Registry'
  <2>1. UNCHANGED <<channel, copied, called, throughout>>
    BY <1>4 DEF RegisterChannel, deliveryVars
  <2>2. CASE UNCHANGED <<listeners, nextHandle, seen>>
    BY <1>1, <2>1, <2>2
  <2>3. CASE ~UNCHANGED <<listeners, nextHandle, seen>>
    <3>1. PICK c \in Channels :
            /\ \A l \in listeners : l.channel # c
            /\ listeners' = listeners \union {[handle |-> nextHandle, channel |-> c]}
            /\ nextHandle' = nextHandle + 1
            /\ seen' \in {seen, seen \union {nextHandle}}
      BY <1>4, <2>3 DEF RegisterChannel
    <3>2. Given' = Given \union {nextHandle} /\ nextHandle \notin Given
      BY <3>1 DEF Given, Registry
    <3>3. Listener \subseteq Listener' /\ [handle |-> nextHandle, channel |-> c] \in Listener'
      BY <3>2 DEF Listener
    <3>4. listeners' \subseteq Listener'
      BY <3>1, <3>3 DEF Registry
    <3>5. \A l \in listeners : l.handle # nextHandle
      BY <3>2 DEF Registry, Listener
    <3>6. \A l, m \in listeners' : l # m => l.handle # m.handle /\ l.channel # m.channel
      BY <3>1, <3>5 DEF Registry
    <3>7. nextHandle' \in Nat \ {0} BY <3>1 DEF Registry
    <3>8. /\ called' \subseteq Given' /\ seen' \subseteq Given' /\ throughout' \subseteq Given'
          /\ copied' \subseteq Listener' /\ channel' \in Channels
      BY <2>1, <3>1, <3>2, <3>3 DEF Registry
    <3> QED BY <3>4, <3>6, <3>7, <3>8 DEF Registry
  <2> QED BY <2>2, <2>3
<1>5. ASSUME NEW t \in Threads, UnregisterChannel(t) PROVE Registry'
  <2>1. /\ UNCHANGED <<nextHandle, seen, channel, copied, called>>
        /\ listeners' \subseteq listeners /\ throughout' \subseteq throughout
    BY <1>5 DEF UnregisterChannel, deliveryVars
  <2> QED BY <2>1 DEF Registry, Listener, Given
<1>6. ASSUME NEW t \in Threads, CallApi(t) \/ Step(t), ~RegisterChannel(t), ~UnregisterChannel(t)
      PROVE  UNCHANGED Book
  BY <1>6 DEF CallApi, Step, Start, Test, Configure, LoadModule, QueryTransport, StartTransport,
       Log, LogCallback, Activate, Refuse, Route, SetLogCallback, listenerVars, deliveryVars
<1> HIDE DEF Book
<1> QED BY <1>1, <1>2, <1>3, <1>4, <1>5, <1>6 DEF Next

LEMMA TypedStep ==
    Counters /\ Mutexes /\ Registry /\ [Next]_vars => (Counters /\ Mutexes /\ Registry)'
<1> SUFFICES ASSUME Counters, Mutexes, Registry, [Next]_vars
             PROVE  (Counters /\ Mutexes /\ Registry)'
  OBVIOUS
<1>1. CASE UNCHANGED vars
  BY <1>1 DEF vars, startVars, listenerVars, deliveryVars, Counters, Mutexes, Registry, Given,
     Listener
<1>2. CASE Next BY <1>2, CountersNext, MutexesNext, RegistryNext
<1> QED BY <1>1, <1>2

(* Every variable keeps its type, with any number of threads: in           *)
(* particular a channel never has two listeners, and no handle is given    *)
(* out twice.                                                              *)
THEOREM BrokerTypes == Spec => []TypeOK
<1>1. Spec => [](Ready /\ Counters /\ Mutexes /\ Registry)
  BY InitReady, NextReady, TypedInit, TypedStep, PTL DEF Spec
<1>2. Ready /\ Counters /\ Mutexes /\ Registry => TypeOK
  <2> SUFFICES ASSUME Ready, Counters, Mutexes, Registry PROVE TypeOK OBVIOUS
  <2>1. /\ stack \in [Threads -> Seq(Places)]
        /\ {running, active, available, transport, usable, loaded, bridgeUp, raced}
             \subseteq BOOLEAN
    BY DEF Ready, StackOK, FlagsGood, Counters
  <2>2. {called, seen, throughout} \subseteq SUBSET (1 .. nextHandle - 1)
    BY DEF Registry, Given
  <2>3. {logLock, listenerLock} \subseteq Threads \union {Nobody}
    BY DEF Mutexes
  <2> QED BY <2>1, <2>2, <2>3 DEF TypeOK, Counters, Registry, Given, Listener
<1> QED BY <1>1, <1>2, PTL
-----------------------------------------------------------------------------
(* IdentitySettles.  As long as no two Starts are under way at once, none  *)
(* is left past the test of _running when another has set it.              *)
Frames == UNION {Elements(stack[t]) : t \in Threads}

Settled ==
    /\ StackOK
    /\ ~raced => /\ \A a, b \in Starts : a = b
                 /\ running => "configure" \notin Frames

NotMade == Places \ {"configure"}

(* A Start on a stack is one of Starts.                                    *)
LEMMA FrameStarts ==
    ASSUME NEW t \in Threads, NEW p \in Elements(stack[t]), p \in Starting
    PROVE  \E i \in DOMAIN stack[t] : stack[t][i] = p /\ <<t, i>> \in Starts
<1>1. PICK i \in DOMAIN stack[t] : stack[t][i] = p BY DEF Elements
<1>2. <<t, i>> \in {<<t, k>> : k \in {j \in DOMAIN stack[t] : stack[t][j] \in Starting}}
  BY <1>1
<1>3. <<t, i>> \in Starts BY <1>2 DEF Starts
<1> QED BY <1>1, <1>3

LEMMA DeliverChanges ==
    ASSUME StackOK, Receive \/ Deliver
    PROVE  Changes(Receiver, NotMade)
<1>1. Receiver \in Threads BY DEF Threads
<1>2. CASE Receive
  <2>1. stack[Receiver] = <<>> /\ "copy" \in Places BY <1>2 DEF Receive, Places
  <2>2. <<"copy">> \in Seq(Places) /\ Elements(<<"copy">>) = {"copy"} BY <2>1, ShortElements
  <2>3. StackOK' /\ stack'[Receiver] = <<"copy">>
        /\ \A u \in Threads \ {Receiver} : stack'[u] = stack[u]
    BY <1>1, <1>2, <2>2, SetStack DEF Receive
  <2>4. Elements(stack[Receiver]) = {} BY <2>1 DEF Elements
  <2>5. "copy" \in NotMade BY DEF NotMade, Places
  <2> QED BY <2>2, <2>3, <2>4, <2>5 DEF Changes
<1>3. CASE Deliver
  <2>1. \/ stack[Receiver] # <<>> /\ \E p \in {"unlock", "calling"} : Goto(Receiver, p)
        \/ stack[Receiver] # <<>> /\ Return(Receiver)
        \/ UNCHANGED stack
        \/ \E call \in CallbackCalls : Enter(Receiver, call)
    BY <1>3 DEF Deliver, CopyListeners, Unlock, CallListener, Finish, At
  <2>2. {"unlock", "calling"} \subseteq NotMade \cap Places BY DEF NotMade, Places
  <2>3. EntryPlaces \subseteq NotMade BY DEF NotMade, Places, EntryPlaces
  <2>4. ASSUME NEW p \in {"unlock", "calling"}, stack[Receiver] # <<>>, Goto(Receiver, p)
        PROVE  Changes(Receiver, NotMade)
    <3>1. Changes(Receiver, {p}) BY <1>1, <2>2, <2>4, GotoChanges
    <3> QED BY <2>2, <3>1, Widen
  <2>5. ASSUME stack[Receiver] # <<>>, Return(Receiver) PROVE Changes(Receiver, NotMade)
    <3>1. Changes(Receiver, {}) BY <1>1, <2>5, ReturnChanges
    <3> QED BY <3>1, Widen
  <2>6. ASSUME UNCHANGED stack PROVE Changes(Receiver, NotMade)
    BY <2>6 DEF Changes, StackOK
  <2>7. ASSUME NEW call \in CallbackCalls, Enter(Receiver, call)
        PROVE  Changes(Receiver, NotMade)
    <3>1. Changes(Receiver, EntryPlaces) BY <1>1, <2>7, CallAssumption, EnterChanges
    <3> QED BY <2>3, <3>1, Widen
  <2> QED BY <2>1, <2>4, <2>5, <2>6, <2>7
<1> QED BY <1>2, <1>3

(* Only the test of _running, found not set, lets a Start make an identity.*)
LEMMA StepChanges ==
    ASSUME StackOK, NEW t \in Threads, Step(t), ~Test(t) \/ running
    PROVE  Changes(t, NotMade)
<1> DEFINE Going == {"load", "logDisabled", "queryTransport", "startTransport", "logActive",
                     "run"}
<1>1. PICK here \in Places : At(t, here)
  BY DEF Step, Start, Test, Configure, LoadModule, QueryTransport, StartTransport, Log,
         LogCallback, Activate, Refuse, Route, SetLogCallback, RegisterChannel,
         UnregisterChannel, Places
<1>2. stack[t] # <<>> BY <1>1, HeadIsElement
<1>3. \/ Return(t) \/ ReturnFalse(t) \/ NoBridge(t)
      \/ \E p \in Going : Goto(t, p)
      \/ \E call \in Calls : Enter(t, call)
      \/ \E then \in {"activate", "refuse"} :
            stack' = [stack EXCEPT ![t] = <<"logging", then>> \o Tail(@)]
  BY CallAssumption
     DEF Step, Start, Test, Configure, LoadModule, QueryTransport, StartTransport, Log,
         LogCallback, Activate, Refuse, Route, SetLogCallback, RegisterChannel,
         UnregisterChannel
<1>4. ASSUME NoBridge(t) PROVE Changes(t, NotMade)
  <2>1. Changes(t, {"logDisabled"}) BY <1>2, <1>4, NoBridgeChanges
  <2>2. {"logDisabled"} \subseteq NotMade BY DEF NotMade, Places
  <2> QED BY <2>1, <2>2, Widen
<1>5. ASSUME NEW then \in {"activate", "refuse"},
             stack' = [stack EXCEPT ![t] = <<"logging", then>> \o Tail(@)]
      PROVE  Changes(t, NotMade)
  <2>1. then \in Places /\ {"logging", then} \subseteq NotMade BY DEF NotMade, Places
  <2>2. Changes(t, {"logging", then}) BY <1>2, <1>5, <2>1, LogChanges
  <2> QED BY <2>1, <2>2, Widen
<1>6. ASSUME NEW p \in Going, Goto(t, p) PROVE Changes(t, NotMade)
  <2>1. p \in Places /\ {p} \subseteq NotMade BY DEF NotMade, Places
  <2>2. Changes(t, {p}) BY <1>2, <1>6, <2>1, GotoChanges
  <2> QED BY <2>1, <2>2, Widen
<1>7. ASSUME NEW call \in Calls, Enter(t, call) PROVE Changes(t, NotMade)
  <2>1. Changes(t, EntryPlaces) BY <1>7, EnterChanges
  <2>2. EntryPlaces \subseteq NotMade BY DEF NotMade, Places, EntryPlaces
  <2> QED BY <2>1, <2>2, Widen
<1>8. ASSUME Return(t) \/ ReturnFalse(t) PROVE Changes(t, NotMade)
  <2>1. Changes(t, {}) BY <1>2, <1>8, ReturnChanges, ReturnFalseChanges
  <2> QED BY <2>1, Widen
<1> HIDE DEF Going
<1> QED BY <1>3, <1>4, <1>5, <1>6, <1>7, <1>8

LEMMA NextChanges ==
    ASSUME StackOK, Next
    PROVE  \E t \in Threads : Changes(t, NotMade) \/ (~running /\ Test(t) /\ Changes(t, Places))
<1>1. CASE Receive \/ Deliver
  BY <1>1, DeliverChanges DEF Threads
<1>2. ASSUME NEW t \in Threads, CallApi(t) PROVE Changes(t, NotMade)
  <2>1. PICK call \in Calls : Enter(t, call) BY <1>2 DEF CallApi
  <2>2. Changes(t, EntryPlaces) BY <2>1, EnterChanges
  <2>3. EntryPlaces \subseteq NotMade BY DEF NotMade, Places, EntryPlaces
  <2> QED BY <2>2, <2>3, Widen
<1>3. ASSUME NEW t \in Threads, Step(t), Test(t), ~running PROVE Changes(t, Places)
  <2>1. Changes(t, Own) BY <1>3, StepIsOwn
  <2> QED BY <2>1, Widen DEF Own
<1>4. ASSUME NEW t \in Threads, Step(t)
      PROVE  Changes(t, NotMade) \/ (~running /\ Test(t) /\ Changes(t, Places))
  BY <1>3, <1>4, StepChanges
<1> QED BY <1>1, <1>2, <1>4 DEF Next

(* _running is set by a Start that then returns.                           *)
LEMMA RunningRises ==
    ASSUME StackOK, Next, running' # running
    PROVE  \E t \in Threads : At(t, "run") /\ Step(t)
<1>1. Receive \/ Deliver \/ (\E t \in Threads : CallApi(t)) => running' = running
  BY DEF Receive, Deliver, CopyListeners, Unlock, CallListener, Finish, CallApi, startVars
<1>2. ASSUME NEW t \in Threads, Step(t) PROVE At(t, "run")
  BY <1>2 DEF Step, Start, Test, Configure, LoadModule, QueryTransport, StartTransport, Log,
       LogCallback, Activate, Refuse, Route, SetLogCallback, RegisterChannel,
       UnregisterChannel, startVars
<1> QED BY <1>1, <1>2 DEF Next

LEMMA NotMadeFrames ==
    ASSUME NEW t \in Threads, Changes(t, NotMade), "configure" \notin Frames
    PROVE  "configure" \notin Frames'
<1>1. "configure" \notin NotMade BY DEF NotMade
<1>2. \A u \in Threads : "configure" \notin Elements(stack[u]) BY DEF Frames
<1>3. \A u \in Threads : "configure" \notin Elements(stack'[u]) BY <1>1, <1>2 DEF Changes
<1> QED BY <1>3 DEF Frames

LEMMA SettledNext == Settled /\ [Next]_vars => Settled'
<1> SUFFICES ASSUME Settled, [Next]_vars PROVE Settled' OBVIOUS
<1>1. CASE UNCHANGED vars
  BY <1>1 DEF vars, startVars, Settled, StackOK, Starts, Frames
<1>2. CASE Next
  <2>1. StackOK' BY <1>2, NextChanges DEF Settled, Changes
  <2>2. CASE raced' BY <2>1, <2>2 DEF Settled
  <2>3. CASE ~raced' /\ Starts' = {}
    <3>1. \A t \in Threads : "configure" \notin Elements(stack[t])'
      <4>1. ASSUME NEW t \in Threads, "configure" \in Elements(stack[t])' PROVE FALSE
        <5>1. "configure" \in Starting BY DEF Starting
        <5>2. PICK i \in DOMAIN stack'[t] : stack'[t][i] = "configure"
          BY <4>1 DEF Elements
        <5>3. <<t, i>> \in {<<t, k>> : k \in {j \in DOMAIN stack'[t] : stack'[t][j] \in Starting}}
          BY <5>1, <5>2
        <5>4. <<t, i>> \in Starts' BY <5>3 DEF Starts
        <5> QED BY <2>3, <5>4
      <4> QED BY <4>1
    <3>2. "configure" \notin Frames' BY <3>1 DEF Frames
    <3> QED BY <2>1, <2>3, <3>2 DEF Settled
  <2>4. CASE ~raced' /\ Starts' # {}
    <3>1. ~raced /\ \A a, b \in Starts' : a = b BY <1>2, <2>4 DEF Next, StartHistory
    <3>2. ASSUME running, running' PROVE "configure" \notin Frames'
      <4>1. "configure" \notin Frames BY <3>1, <3>2 DEF Settled
      <4>2. \E t \in Threads : Changes(t, NotMade) BY <1>2, <3>2, NextChanges DEF Settled
      <4> QED BY <4>1, <4>2, NotMadeFrames
    <3>3. ASSUME ~running, running' PROVE "configure" \notin Frames'
      <4>1. PICK t \in Threads : At(t, "run") /\ Step(t)
        BY <1>2, <3>3, RunningRises DEF Settled
      <4>2. "run" \in Elements(stack[t]) /\ "run" \in Starting
        BY <4>1, HeadIsElement DEF Settled, Starting
      <4>3. "configure" \notin Frames
        <5>1. ASSUME NEW u \in Threads, "configure" \in Elements(stack[u]) PROVE FALSE
          <6>1. "configure" \in Starting BY DEF Starting
          <6>2. PICK i \in DOMAIN stack[t] : stack[t][i] = "run" /\ <<t, i>> \in Starts
            BY <4>2, FrameStarts
          <6>3. PICK j \in DOMAIN stack[u] :
                  stack[u][j] = "configure" /\ <<u, j>> \in Starts
            BY <5>1, <6>1, FrameStarts
          <6>4. <<t, i>> = <<u, j>> BY <3>1, <6>2, <6>3 DEF Settled
          <6>5. t = u /\ i = j BY <6>4
          <6> QED BY <6>2, <6>3, <6>5
        <5> QED BY <5>1 DEF Frames
      <4>4. ~Test(t) BY <4>1 DEF Test, At
      <4>5. Changes(t, NotMade) BY <4>1, <4>4, StepChanges DEF Settled
      <4> QED BY <4>3, <4>5, NotMadeFrames
    <3>4. running' => "configure" \notin Frames' BY <3>2, <3>3
    <3> QED BY <2>1, <3>1, <3>4 DEF Settled
  <2> QED BY <2>2, <2>3, <2>4
<1> QED BY <1>1, <1>2

LEMMA SettledInit == Init => Settled
<1> SUFFICES ASSUME Init PROVE Settled OBVIOUS
<1>1. StackOK BY DEF Init, StackOK
<1>2. \A t \in Threads : DOMAIN stack[t] = {} BY DEF Init
<1>3. Starts = {} BY <1>2 DEF Starts
<1>4. ~running BY DEF Init
<1> QED BY <1>1, <1>3, <1>4 DEF Settled

(* A running broker keeps its identity, unless one of two Starts that were *)
(* under way at once makes it anew (Runtime 492-511): for any number of    *)
(* threads and calls, whatever the callbacks call and however often the    *)
(* bridge could not be started before.                                     *)
THEOREM IdentityIsKept == Spec => IdentitySettles
<1>1. ASSUME Settled, [Next]_vars
      PROVE  [identity' # identity => ~running \/ raced]_vars
  <2>1. ASSUME NEW t \in Threads, Step(t), identity' # identity
        PROVE  At(t, "configure")
    BY <2>1 DEF Step, Start, Test, Configure, LoadModule, QueryTransport, StartTransport, Log,
         LogCallback, Activate, Refuse, Route, SetLogCallback, RegisterChannel,
         UnregisterChannel, startVars
  <2>2. Receive \/ Deliver \/ (\E t \in Threads : CallApi(t)) => identity' = identity
    BY DEF Receive, Deliver, CopyListeners, Unlock, CallListener, Finish, CallApi, startVars
  <2>3. ASSUME NEW t \in Threads, At(t, "configure") PROVE ~running \/ raced
    <3>1. "configure" \in Elements(stack[t]) BY <1>1, <2>3, HeadIsElement DEF Settled
    <3>2. "configure" \in Frames BY <3>1 DEF Frames
    <3> QED BY <1>1, <3>2 DEF Settled
  <2>4. Next => (identity' # identity => ~running \/ raced) BY <2>1, <2>2, <2>3 DEF Next
  <2> QED BY <1>1, <2>4
<1>2. Settled /\ [Next]_vars => [identity' # identity => ~running \/ raced]_vars
  BY <1>1
<1>3. Spec => []Settled BY SettledInit, SettledNext, PTL DEF Spec
<1> QED BY <1>2, <1>3, PTL DEF Spec, IdentitySettles
=============================================================================
