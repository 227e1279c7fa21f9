------------------------- MODULE DeviceSystemProofs -------------------------
(***************************************************************************)
(* What holds of DeviceSystem for all devices, places and worlds.          *)
(***************************************************************************)
EXTENDS DeviceSystem, FiniteSetTheorems, SequenceTheorems, TLAPS

----------------------------------------------------------------------------
(***************************************************************************)
(* Sequences of calls, and the sets of what is in them.                    *)
(***************************************************************************)
In(s) == {s[k] : k \in DOMAIN s}

\* SetToSeq lists all of a finite set, and nothing else.
LEMMA ListedAll ==
    ASSUME NEW S, IsFiniteSet(S), NEW s, s = Sq!SetToSeq(S)
    PROVE  s \in Seq(S) /\ In(s) = S /\ DOMAIN s = 1 .. Len(s)
<1> DEFINE n == Cardinality(S)
<1>1. n \in Nat /\ ExistsBijection(1 .. n, S)
  BY FS_CardinalityType
<1>2. PICK f \in [1 .. n -> S] : Sq!IsInjective(f)
  BY <1>1 DEF ExistsBijection, Bijection, Injection, IsInjective,
              Sq!IsInjective
<1>3. s \in [1 .. n -> S] /\ Sq!IsInjective(s)
  <2>1. Sq!Cardinality(S) = Cardinality(S)
    BY DEF Sq!Cardinality, Cardinality
  <2> QED BY <1>2, <2>1 DEF Sq!SetToSeq
<1>4. s \in Injection(1 .. n, S)
  BY <1>3 DEF Injection, IsInjective, Sq!IsInjective
<1>5. IsFiniteSet(1 .. n) /\ Cardinality(1 .. n) = n
  BY <1>1, FS_Interval
<1>6. s \in Surjection(1 .. n, S)
  BY <1>4, <1>5, FS_Injection
<1>7. s \in Seq(S) /\ DOMAIN s = 1 .. Len(s)
  BY <1>1, <1>3
<1> QED BY <1>3, <1>6, <1>7 DEF In, Surjection

\* Each makes the same call on every member of a set.
LEMMA EachIs ==
    ASSUME NEW S, IsFiniteSet(S), NEW op, NEW with,
           NEW e, e = Each(S, op, with)
    PROVE  /\ \A x \in S : Call(op, x, with) \in In(e)
           /\ \A c \in In(e) : \E x \in S : c = Call(op, x, with)
           /\ e \in Seq(In(e))
<1>1. PICK s : s = Sq!SetToSeq(S)
  OBVIOUS
<1>2. s \in Seq(S) /\ In(s) = S /\ DOMAIN s = 1 .. Len(s) /\ Len(s) \in Nat
  BY <1>1, ListedAll
<1>3. e = [i \in DOMAIN s |-> Call(op, s[i], with)]
  BY <1>1 DEF Each
<1>4. \A i \in 1 .. Len(s) : s[i] \in S
  BY <1>2
<1>5. \A x \in S : Call(op, x, with) \in In(e)
  BY <1>2, <1>3 DEF In
<1>6. \A c \in In(e) : \E x \in S : c = Call(op, x, with)
  BY <1>2, <1>3, <1>4 DEF In
<1>7. \A i \in 1 .. Len(s) : e[i] \in In(e)
  BY <1>2, <1>3 DEF In
<1> QED BY <1>2, <1>3, <1>5, <1>6, <1>7

LEMMA InConcat ==
    ASSUME NEW S, NEW s \in Seq(S), NEW t \in Seq(S)
    PROVE  s \o t \in Seq(S) /\ In(s \o t) = In(s) \cup In(t)
<1>1. /\ s \o t \in Seq(S) /\ Len(s \o t) = Len(s) + Len(t)
      /\ Len(s) \in Nat /\ Len(t) \in Nat
      /\ \A i \in 1 .. Len(s) + Len(t) :
           (s \o t)[i] = IF i <= Len(s) THEN s[i] ELSE t[i - Len(s)]
      /\ DOMAIN s = 1 .. Len(s) /\ DOMAIN t = 1 .. Len(t)
      /\ DOMAIN (s \o t) = 1 .. Len(s) + Len(t)
  BY ConcatProperties, LenProperties
<1>2. ASSUME NEW x \in In(s) PROVE x \in In(s \o t)
  <2>1. PICK k \in 1 .. Len(s) : x = s[k]
    BY <1>1 DEF In
  <2> QED BY <1>1, <2>1 DEF In
<1>3. ASSUME NEW x \in In(t) PROVE x \in In(s \o t)
  <2>1. PICK k \in 1 .. Len(t) : x = t[k]
    BY <1>1 DEF In
  <2>2. Len(s) + k \in 1 .. Len(s) + Len(t) /\ (s \o t)[Len(s) + k] = x
    BY <1>1, <2>1
  <2> QED BY <1>1, <2>2 DEF In
<1>4. ASSUME NEW x \in In(s \o t) PROVE x \in In(s) \cup In(t)
  <2>1. PICK k \in 1 .. Len(s) + Len(t) : x = (s \o t)[k]
    BY <1>1 DEF In
  <2>2. CASE k <= Len(s)
    BY <1>1, <2>1, <2>2 DEF In
  <2>3. CASE ~(k <= Len(s))
    <3>1. k - Len(s) \in 1 .. Len(t) /\ x = t[k - Len(s)]
      BY <1>1, <2>1, <2>3
    <3> QED BY <1>1, <3>1 DEF In
  <2> QED BY <2>2, <2>3
<1> QED BY <1>1, <1>2, <1>3, <1>4

LEMMA InTail ==
    ASSUME NEW S, NEW s \in Seq(S), s # <<>>
    PROVE  /\ Head(s) \in S /\ Tail(s) \in Seq(S)
           /\ In(s) = {Head(s)} \cup In(Tail(s))
           /\ Head(s) = s[1] /\ Len(s) \in Nat \ {0}
<1>1. /\ Head(s) \in S /\ Tail(s) \in Seq(S) /\ Len(s) \in Nat \ {0}
      /\ Head(s) = s[1] /\ Len(Tail(s)) = Len(s) - 1
      /\ \A k \in 1 .. Len(Tail(s)) : Tail(s)[k] = s[k + 1]
      /\ DOMAIN s = 1 .. Len(s) /\ DOMAIN Tail(s) = 1 .. Len(Tail(s))
  BY HeadTailProperties, LenProperties, EmptySeq
<1>2. ASSUME NEW x \in In(s), x # Head(s) PROVE x \in In(Tail(s))
  <2>1. PICK k \in 1 .. Len(s) : x = s[k]
    BY <1>1 DEF In
  <2>2. k - 1 \in 1 .. Len(Tail(s)) /\ Tail(s)[k - 1] = x
    BY <1>1, <1>2, <2>1
  <2> QED BY <1>1, <2>2 DEF In
<1>3. ASSUME NEW x \in In(Tail(s)) PROVE x \in In(s)
  <2>1. PICK k \in 1 .. Len(Tail(s)) : x = Tail(s)[k]
    BY <1>1 DEF In
  <2> QED BY <1>1, <2>1 DEF In
<1>4. Head(s) \in In(s)
  BY <1>1 DEF In
<1> QED BY <1>1, <1>2, <1>3, <1>4

LEMMA InNil == In(<<>>) = {}
BY DEF In
LEMMA InOne == ASSUME NEW x PROVE In(<<x>>) = {x}
BY DEF In
LEMMA InTwo == ASSUME NEW x, NEW y PROVE In(<<x, y>>) = {x, y}
BY DEF In
LEMMA InThree == ASSUME NEW x, NEW y, NEW z PROVE In(<<x, y, z>>) = {x, y, z}
BY DEF In
LEMMA InSeq ==
    ASSUME NEW S, NEW T, NEW s \in Seq(S), In(s) \subseteq T PROVE s \in Seq(T)
BY LenProperties DEF In

\* Head and tail determine a sequence.

LEMMA SameSeq ==
    ASSUME NEW S, NEW s \in Seq(S), NEW t \in Seq(S), s # <<>>, t # <<>>,
           Head(s) = Head(t), Tail(s) = Tail(t)
    PROVE  s = t
<1>1. /\ Len(Tail(s)) = Len(s) - 1 /\ Len(Tail(t)) = Len(t) - 1
      /\ \A i \in 1 .. Len(Tail(s)) : Tail(s)[i] = s[i+1]
      /\ \A i \in 1 .. Len(Tail(t)) : Tail(t)[i] = t[i+1]
      /\ Len(s) \in Nat /\ Len(t) \in Nat /\ Head(s) = s[1] /\ Head(t) = t[1]
   BY HeadTailProperties, LenProperties
<1>2. Len(s) = Len(t)
  <2> DEFINE m == Len(s) n == Len(t) k == Len(Tail(s)) l == Len(Tail(t))
  <2>1. k = l
    OBVIOUS
  <2>2. m \in Nat /\ n \in Nat /\ k = m - 1 /\ l = n - 1
    BY <1>1
  <2> HIDE DEF m, n, k, l
  <2>3. m - 1 = n - 1
    BY <2>1, <2>2, Zenon
  <2>4. m = n
    BY <2>2, <2>3
  <2> QED BY <2>4 DEF m, n
<1>3. ASSUME NEW i \in 1 .. Len(s) PROVE s[i] = t[i]
  <2>1. CASE i = 1
    BY <1>1, <2>1
  <2>2. CASE i # 1
    <3>1. i - 1 \in 1 .. Len(Tail(s)) /\ i - 1 \in 1 .. Len(Tail(t))
          /\ (i-1)+1 = i
      BY <1>1, <1>2, <2>2
    <3> QED BY <1>1, <3>1
  <2> QED BY <2>1, <2>2
<1> QED BY <1>2, <1>3, SeqEqual

LEMMA Cons ==
    ASSUME NEW S, NEW a \in S, NEW s \in Seq(S)
    PROVE  /\ <<a>> \o s \in Seq(S) /\ <<a>> \o s # <<>>
           /\ Head(<<a>> \o s) = a /\ Tail(<<a>> \o s) = s
  OBVIOUS

LEMMA HeadOfConcat ==
    ASSUME NEW S, NEW u \in Seq(S), NEW s \in Seq(S), u # <<>>
    PROVE  /\ u \o s \in Seq(S) /\ u \o s # <<>>
           /\ Head(u \o s) = Head(u) /\ Tail(u \o s) = Tail(u) \o s
  OBVIOUS

LEMMA Cons2 ==
    ASSUME NEW S, NEW a \in S, NEW b \in S, NEW s \in Seq(S)
    PROVE  /\ <<a, b>> \o s \in Seq(S) /\ <<a, b>> \o s # <<>>
           /\ Head(<<a, b>> \o s) = a /\ Tail(<<a, b>> \o s) = <<b>> \o s
<1>1. Head(<<a, b>>) = a /\ Tail(<<a, b>>) = <<b>> /\ <<a,b>> # <<>>
      /\ <<a,b>> \in Seq(S)
  OBVIOUS
<1> QED BY <1>1, HeadOfConcat

LEMMA OneAndTwo ==
    ASSUME NEW a, NEW b, NEW c
    PROVE  <<a>> \o <<b,c>> = <<a,b,c>>
<1> DEFINE S == {a,b,c}
<1>1. <<a>> \in Seq(S) /\ <<b,c>> \in Seq(S) /\ <<a,b,c>> \in Seq(S)
      /\ <<a>> \o <<b,c>> \in Seq(S)
  OBVIOUS
<1>2. Head(<<a>> \o <<b,c>>) = a /\ Tail(<<a>> \o <<b,c>>) = <<b,c>>
      /\ <<a>> \o <<b,c>> # <<>>
  BY <1>1, Cons, a \in S
<1>3. Head(<<a,b,c>>) = a /\ Tail(<<a,b,c>>) = <<b,c>> /\ <<a,b,c>> # <<>>
  OBVIOUS
<1> QED BY <1>1, <1>2, <1>3, SameSeq

LEMMA OneAndFour ==
    ASSUME NEW a, NEW b, NEW c, NEW d, NEW e
    PROVE  <<a>> \o <<b,c,d,e>> = <<a,b,c,d,e>>
<1> DEFINE S == {a,b,c,d,e}
<1>1. <<a>> \in Seq(S) /\ <<b,c,d,e>> \in Seq(S) /\ <<a,b,c,d,e>> \in Seq(S)
      /\ <<a>> \o <<b,c,d,e>> \in Seq(S)
  OBVIOUS
<1>2. Head(<<a>> \o <<b,c,d,e>>) = a
      /\ Tail(<<a>> \o <<b,c,d,e>>) = <<b,c,d,e>> /\ <<a>> \o <<b,c,d,e>> # <<>>
  BY <1>1, Cons, a \in S
<1>3. Head(<<a,b,c,d,e>>) = a /\ Tail(<<a,b,c,d,e>>) = <<b,c,d,e>>
      /\ <<a,b,c,d,e>> # <<>>
  OBVIOUS
<1> QED BY <1>1, <1>2, <1>3, SameSeq

LEMMA TwoAndOne ==
    ASSUME NEW a, NEW b, NEW c
    PROVE  <<a,b>> \o <<c>> = <<a,b,c>>
<1> DEFINE S == {a,b,c}
<1>1. <<a,b>> \in Seq(S) /\ <<c>> \in Seq(S) /\ <<a,b,c>> \in Seq(S)
      /\ <<a,b>> \o <<c>> \in Seq(S) /\ <<b>> \o <<c>> \in Seq(S)
      /\ <<b,c>> \in Seq(S)
  OBVIOUS
<1>2. <<b>> \o <<c>> = <<b,c>>
  <2>1. Head(<<b>> \o <<c>>) = b /\ Tail(<<b>> \o <<c>>) = <<c>>
        /\ <<b>> \o <<c>> # <<>>
    BY <1>1, Cons, b \in S
  <2>2. Head(<<b,c>>) = b /\ Tail(<<b,c>>) = <<c>> /\ <<b,c>> # <<>>
    OBVIOUS
  <2> QED BY <1>1, <2>1, <2>2, SameSeq
<1>3. Head(<<a,b>> \o <<c>>) = a
      /\ Tail(<<a,b>> \o <<c>>) = <<b>> \o <<c>> /\ <<a,b>> \o <<c>> # <<>>
  BY <1>1, Cons2, a \in S, b \in S
<1>4. Head(<<a,b,c>>) = a /\ Tail(<<a,b,c>>) = <<b,c>> /\ <<a,b,c>> # <<>>
  OBVIOUS
<1> QED BY <1>1, <1>2, <1>3, <1>4, SameSeq

----------------------------------------------------------------------------
(***************************************************************************)
(* Calls, and what a step does to the stacks.                              *)
(***************************************************************************)
DeviceOps == {"add", "mergePut", "refresh", "modify", "remove",
              "injectDevice", "check", "record", "index", "unmarkAllDirty",
              "markDirty", "scan", "push", "request", "getDeviceMeta"}
LEMMA CallTypes ==
    ASSUME NEW c \in AnyCall
    PROVE  /\ c.op \in DeviceOps => c \in DeviceCalls /\ c.on \in Devices
           /\ c.op \notin DeviceOps => c.on \in Plugins /\ c \notin DeviceCalls
           /\ c.op = "add" => c.with \in Mounts \cup {NoMount}
           /\ c.op = "mergePut" => c.with \in {"here", "gone"}
           /\ c.op \in {"observe", "ignore", "forget"} => c.with \in Observers
           /\ c.op \in {"setEnable", "setDetect"} => c.with \in {"on", "off"}
           /\ c \in DeviceCalls <=> c.op \in DeviceOps
           /\ c \in DetectCalls <=> c.op = "setDetect"
BY DEF AnyCall, DeviceCalls, PluginCalls, DetectCalls, DeviceOps

\* The calls that a device's thread or handler makes on its behalf.
Tidy(d) ==
    {Call(op, d, "") : op \in {"record", "index", "modify", "unmarkAllDirty",
                               "markDirty", "scan", "push"}}
    \cup {Call("mergePut", d, with) : with \in {"here", "gone"}}
LEMMA TidyCalls ==
    ASSUME NEW d \in Devices, NEW c \in Tidy(d)
    PROVE  /\ c \in AnyCall /\ c \in WorkCalls /\ OthersDo(c)
           /\ c.on = d
           /\ c.op \in {"record", "index", "modify", "unmarkAllDirty",
                        "markDirty", "scan", "push", "mergePut"}
<1>1. /\ c.on = d /\ c \in DeviceCalls
      /\ c.op \in {"record", "index", "modify", "unmarkAllDirty",
                   "markDirty", "scan", "push", "mergePut"}
  <2>1. CASE \E op \in {"record", "index", "modify", "unmarkAllDirty",
                        "markDirty", "scan", "push"} : c = Call(op, d, "")
    <3>1. PICK op \in {"record", "index", "modify", "unmarkAllDirty",
                       "markDirty", "scan", "push"} : c = Call(op, d, "")
      BY <2>1
    <3>2. c \in [op : {"refresh", "modify", "remove", "injectDevice", "check",
                      "record", "index", "unmarkAllDirty", "markDirty",
                      "scan", "push", "request", "getDeviceMeta"},
                on : Devices, with : {""}]
      BY <3>1 DEF Call
    <3> QED BY <3>1, <3>2 DEF Call, DeviceCalls
  <2>2. CASE \E with \in {"here", "gone"} : c = Call("mergePut", d, with)
    BY <2>2 DEF Call, DeviceCalls
  <2> QED BY <2>1, <2>2 DEF Tidy
<1> QED BY <1>1 DEF AnyCall, WorkCalls, WorkOps, OthersDo

\* What is said once more of a step: the calls that it may take off the
\* stacks, and those that it puts on them.
Moves(gone, new) ==
    /\ AllCalls' \subseteq AllCalls \cup new
    /\ AllCalls \subseteq AllCalls' \cup gone
    /\ new \subseteq AllCalls'

LEMMA ThenIs ==
    ASSUME CallsInv, NEW t \in Threads, ~Idle(t), NEW more \in Seq(AnyCall),
           Then(t, more)
    PROVE  /\ stack' \in [Threads -> Seq(AnyCall)]
           /\ stack'[t] = more \o Tail(stack[t])
           /\ \A u \in Threads \ {t} : stack'[u] = stack[u]
           /\ CallsOf(t) = {Next1(t)} \cup In(Tail(stack[t]))
           /\ CallsOf(t)' = In(more) \cup In(Tail(stack[t]))
           /\ \A u \in Threads \ {t} : CallsOf(u)' = CallsOf(u)
           /\ Next1(t) \in AnyCall /\ Next1(t) \in CallsOf(t)
           /\ Moves({Next1(t)}, In(more))
<1>1. stack[t] \in Seq(AnyCall) /\ stack[t] # <<>>
  BY DEF CallsInv, Idle
<1>2. /\ Head(stack[t]) \in AnyCall /\ Tail(stack[t]) \in Seq(AnyCall)
      /\ In(stack[t]) = {Head(stack[t])} \cup In(Tail(stack[t]))
  BY <1>1, InTail
<1>3. /\ more \o Tail(stack[t]) \in Seq(AnyCall)
      /\ In(more \o Tail(stack[t])) = In(more) \cup In(Tail(stack[t]))
  BY <1>2, InConcat, ZenonT(30)
<1>4. /\ stack' \in [Threads -> Seq(AnyCall)]
      /\ stack'[t] = more \o Tail(stack[t])
      /\ \A u \in Threads \ {t} : stack'[u] = stack[u]
  BY <1>3 DEF CallsInv, Then
<1>5. \A u \in Threads : CallsOf(u) = In(stack[u]) /\ CallsOf(u)' = In(stack'[u])
  BY DEF CallsOf, In
<1>6. /\ CallsOf(t) = {Next1(t)} \cup In(Tail(stack[t]))
      /\ CallsOf(t)' = In(more) \cup In(Tail(stack[t]))
      /\ \A u \in Threads \ {t} : CallsOf(u)' = CallsOf(u)
  BY <1>2, <1>3, <1>4, <1>5 DEF Next1
<1>7. Moves({Next1(t)}, In(more))
  <2>1. \A u \in Threads : CallsOf(u)' \subseteq CallsOf(u) \cup In(more)
    BY <1>6
  <2>2. \A u \in Threads : CallsOf(u) \subseteq CallsOf(u)' \cup {Next1(t)}
    BY <1>6
  <2>3. In(more) \subseteq CallsOf(t)'
    BY <1>6
  <2> QED BY <2>1, <2>2, <2>3 DEF Moves, AllCalls
<1> QED BY <1>2, <1>4, <1>6, <1>7 DEF Next1

LEMMA BeginIs ==
    ASSUME CallsInv, NEW t \in Threads, NEW more \in Seq(AnyCall),
           Begin(t, more)
    PROVE  /\ stack' \in [Threads -> Seq(AnyCall)]
           /\ stack'[t] = more
           /\ \A u \in Threads \ {t} : stack'[u] = stack[u]
           /\ CallsOf(t) = {} /\ CallsOf(t)' = In(more)
           /\ \A u \in Threads \ {t} : CallsOf(u)' = CallsOf(u)
           /\ Moves({}, In(more))
<1>1. /\ stack' \in [Threads -> Seq(AnyCall)]
      /\ stack'[t] = more /\ stack[t] = <<>>
      /\ \A u \in Threads \ {t} : stack'[u] = stack[u]
  BY DEF CallsInv, Begin, Idle
<1>2. \A u \in Threads : CallsOf(u) = In(stack[u]) /\ CallsOf(u)' = In(stack'[u])
  BY DEF CallsOf, In
<1>3. /\ CallsOf(t) = {} /\ CallsOf(t)' = In(more)
      /\ \A u \in Threads \ {t} : CallsOf(u)' = CallsOf(u)
  BY <1>1, <1>2, InNil
<1>4. Moves({}, In(more))
  <2>1. \A u \in Threads : CallsOf(u)' \subseteq CallsOf(u) \cup In(more)
    BY <1>3
  <2>2. \A u \in Threads : CallsOf(u) \subseteq CallsOf(u)'
    BY <1>3
  <2>3. In(more) \subseteq CallsOf(t)'
    BY <1>3
  <2> QED BY <2>1, <2>2, <2>3 DEF Moves, AllCalls
<1> QED BY <1>1, <1>3, <1>4

\* The calls of threads other than the main loop stay the ones they make.
LEMMA CallsKept ==
    ASSUME CallsInv, world' = world, stack' \in [Threads -> Seq(AnyCall)],
           NEW new, \A c \in new : OthersDo(c),
           \A u \in Threads \ {"main"} : CallsOf(u)' \subseteq CallsOf(u) \cup new
    PROVE  CallsInv'
<1>1. \A c : OthersDo(c)' <=> OthersDo(c)
  BY DEF OthersDo, Discovered, Polled, build
<1>2. \A u \in Threads \ {"main"} : \A c \in CallsOf(u)' : OthersDo(c)
  BY DEF CallsInv
<1> QED BY <1>1, <1>2 DEF CallsInv

LEMMA ThenCalls ==
    ASSUME CallsInv, NEW t \in Threads, ~Idle(t), NEW more \in Seq(AnyCall),
           Then(t, more), world' = world,
           t # "main" => \A c \in In(more) : OthersDo(c)
    PROVE  CallsInv'
<1>1. /\ stack' \in [Threads -> Seq(AnyCall)]
      /\ CallsOf(t) = {Next1(t)} \cup In(Tail(stack[t]))
      /\ CallsOf(t)' = In(more) \cup In(Tail(stack[t]))
      /\ \A u \in Threads \ {t} : CallsOf(u)' = CallsOf(u)
  BY ThenIs
<1> DEFINE new == IF t = "main" THEN {} ELSE In(more)
<1>2. \A c \in new : OthersDo(c)
  OBVIOUS
<1>3. \A u \in Threads \ {"main"} : CallsOf(u)' \subseteq CallsOf(u) \cup new
  BY <1>1
<1> HIDE DEF new
<1> QED BY <1>1, <1>2, <1>3, CallsKept

LEMMA BeginCalls ==
    ASSUME CallsInv, NEW t \in Threads, NEW more \in Seq(AnyCall),
           Begin(t, more), world' = world,
           t # "main" => \A c \in In(more) : OthersDo(c)
    PROVE  CallsInv'
<1>1. /\ stack' \in [Threads -> Seq(AnyCall)]
      /\ CallsOf(t)' = In(more)
      /\ \A u \in Threads \ {t} : CallsOf(u)' = CallsOf(u)
  BY BeginIs
<1> DEFINE new == IF t = "main" THEN {} ELSE In(more)
<1>2. \A c \in new : OthersDo(c)
  OBVIOUS
<1>3. \A u \in Threads \ {"main"} : CallsOf(u)' \subseteq CallsOf(u) \cup new
  BY <1>1
<1> HIDE DEF new
<1> QED BY <1>1, <1>2, <1>3, CallsKept

LEMMA SameCalls ==
    ASSUME CallsInv, stack' = stack, world' = world
    PROVE  CallsInv' /\ Moves({}, {})
<1>1. \A u \in Threads : CallsOf(u)' = CallsOf(u)
  BY DEF CallsOf
<1>2. stack' \in [Threads -> Seq(AnyCall)]
  BY DEF CallsInv
<1> DEFINE none == {}
<1>3. \A c \in none : OthersDo(c)
  OBVIOUS
<1>4. \A u \in Threads \ {"main"} : CallsOf(u)' \subseteq CallsOf(u) \cup none
  BY <1>1
<1> HIDE DEF none
<1>5. CallsInv'
  BY <1>2, <1>3, <1>4, CallsKept
<1>6. AllCalls' = AllCalls
  BY <1>1 DEF AllCalls
<1> QED BY <1>5, <1>6 DEF Moves

\* A call that is made first: who makes it, and what it is.
LEMMA FirstCall ==
    ASSUME CallsInv, NEW t \in Threads, ~Idle(t)
    PROVE  /\ Next1(t) \in AnyCall /\ Next1(t) \in CallsOf(t)
           /\ Next1(t) \in AllCalls
           /\ t # "main" => OthersDo(Next1(t))
<1>1. stack[t] \in Seq(AnyCall) /\ stack[t] # <<>>
  BY DEF CallsInv, Idle
<1>2. Head(stack[t]) \in AnyCall /\ Head(stack[t]) \in In(stack[t])
  BY <1>1, InTail
<1>3. Next1(t) \in AnyCall /\ Next1(t) \in CallsOf(t)
  BY <1>2 DEF Next1, CallsOf, In
<1> QED BY <1>3 DEF CallsInv, AllCalls

----------------------------------------------------------------------------
(***************************************************************************)
(* The calls on devices.                                                   *)
(***************************************************************************)
Told(d) == {Call(IF o = "DeviceDb" THEN "record" ELSE "index", d, "") :
            o \in observers[Home[d]]}
TidyStep(t, d) == \E more \in Seq(Tidy(d)) : Then(t, more)
Becomes(t, d, s) ==
    /\ dev' = [dev EXCEPT ![d] = s]
    /\ \E more \in Seq(Tidy(d)) :
         Then(t, more) /\ (Changed(dev[d], s) => Told(d) \subseteq In(more))

LEMMA SomeTidy ==
    ASSUME NEW d \in Devices
    PROVE  /\ <<>> \in Seq(Tidy(d))
           /\ \A op \in {"record", "index", "modify", "unmarkAllDirty",
                         "markDirty", "scan", "push"} :
                <<Call(op, d, "")>> \in Seq(Tidy(d)) /\ Call(op, d, "") \in Tidy(d)
           /\ \A with \in {"here", "gone"} :
                <<Call("mergePut", d, with)>> \in Seq(Tidy(d))
           /\ <<Call("unmarkAllDirty", d, ""), Call("scan", d, "")>>
                \in Seq(Tidy(d))
<1>1. \A op \in {"record", "index", "modify", "unmarkAllDirty",
                 "markDirty", "scan", "push"} : Call(op, d, "") \in Tidy(d)
  BY DEF Tidy
<1>2. \A with \in {"here", "gone"} : Call("mergePut", d, with) \in Tidy(d)
  BY DEF Tidy
<1>3. \A c \in Tidy(d) : <<c>> \in Seq(Tidy(d))
  OBVIOUS
<1>4. \A b, c \in Tidy(d) : <<b, c>> \in Seq(Tidy(d))
  OBVIOUS
<1>5. <<>> \in Seq(Tidy(d))
  OBVIOUS
<1>6. Call("unmarkAllDirty", d, "") \in Tidy(d) /\ Call("scan", d, "") \in Tidy(d)
  BY <1>1
<1>7. <<Call("unmarkAllDirty", d, ""), Call("scan", d, "")>> \in Seq(Tidy(d))
  BY <1>4, <1>6
<1> QED BY <1>1, <1>2, <1>3, <1>5, <1>7

LEMMA TellIs ==
    ASSUME NEW d \in Devices, NEW who
    PROVE  /\ Tell(d, who) \in Seq(Tidy(d))
           /\ "DeviceDb" \in who => Call("record", d, "") \in In(Tell(d, who))
           /\ "MediaIndexer" \in who => Call("index", d, "") \in In(Tell(d, who))
<1>1. PICK a : a = IF "DeviceDb" \in who THEN <<Call("record", d, "")>> ELSE <<>>
  OBVIOUS
<1>2. PICK b : b = IF "MediaIndexer" \in who THEN <<Call("index", d, "")>> ELSE <<>>
  OBVIOUS
<1>3. a \in Seq(Tidy(d)) /\ b \in Seq(Tidy(d))
  BY <1>1, <1>2, SomeTidy
<1>4. a \o b \in Seq(Tidy(d)) /\ In(a \o b) = In(a) \cup In(b)
  BY <1>3, InConcat
<1>5. Tell(d, who) = a \o b
  BY <1>1, <1>2 DEF Tell
<1> QED BY <1>1, <1>2, <1>4, <1>5, InOne

LEMMA BecomeIs ==
    ASSUME NEW t \in Threads, NEW d \in Devices, NEW s,
           NEW extra \in Seq(Tidy(d)), BecomeAnd(t, d, s, extra),
           observers \in [Plugins -> SUBSET Observers]
    PROVE  Becomes(t, d, s)
<1>1. PICK told : told = IF Changed(dev[d], s)
                         THEN Tell(d, observers[Home[d]]) ELSE <<>>
  OBVIOUS
<1>2. told \in Seq(Tidy(d))
  BY <1>1, TellIs, SomeTidy
<1>3. /\ told \o extra \in Seq(Tidy(d))
      /\ In(told \o extra) = In(told) \cup In(extra)
  BY <1>2, InConcat
<1>4. Then(t, told \o extra) /\ dev' = [dev EXCEPT ![d] = s]
  BY <1>1 DEF BecomeAnd
<1>5. ASSUME Changed(dev[d], s) PROVE Told(d) \subseteq In(told)
  <2>1. observers[Home[d]] \subseteq Observers
    BY HomeAssumption
  <2>2. told = Tell(d, observers[Home[d]])
    BY <1>1, <1>5
  <2> QED BY <2>1, <2>2, TellIs DEF Told, Observers
<1> QED BY <1>3, <1>4, <1>5 DEF Becomes

LEMMA TidyMoves ==
    ASSUME CallsInv, NEW t \in Threads, ~Idle(t), NEW d \in Devices,
           NEW more \in Seq(Tidy(d)), Then(t, more), world' = world
    PROVE  /\ CallsInv'
           /\ more \in Seq(AnyCall) /\ In(more) \subseteq Tidy(d)
           /\ Moves({Next1(t)}, In(more))
<1>1. In(more) \subseteq Tidy(d)
  BY LenProperties DEF In
<1>2. more \in Seq(AnyCall)
  BY TidyCalls, <1>1, InSeq, Tidy(d) \subseteq AnyCall
<1>3. \A c \in In(more) : OthersDo(c)
  BY <1>1, TidyCalls
<1> QED BY <1>1, <1>2, <1>3, ThenCalls, ThenIs

\* What a plugin's operation makes of a device.
Made(c, r, lives, s) ==
    \/ /\ c.op = "add" /\ c.with \in Mounts \cup {NoMount}
       /\ s = Added(r, c.with, lives)
    \/ c.op = "refresh" /\ s = Refreshed(r, lives)
    \/ c.op = "remove" /\ s = Removed(r)
    \/ c.op = "injectDevice" /\ s = Injected(r, lives)
    \/ c.op = "check" /\ s = Checked(r)

LEMMA DeviceStep ==
    ASSUME CallsInv, observers \in [Plugins -> SUBSET Observers],
           NEW t \in Threads,
           Add(t) \/ Refresh(t) \/ Remove(t) \/ Inject(t) \/ Check(t)
    PROVE  /\ ~Idle(t) /\ Next1(t).on \in Devices /\ UNCHANGED Others
           /\ \E s : /\ Made(Next1(t), dev[Next1(t).on], Lives(Next1(t).on), s)
                     /\ Becomes(t, Next1(t).on, s)
<1>1. ~Idle(t)
  BY DEF Add, Refresh, Remove, Inject, Check, Doing
<1>2. Next1(t) \in AnyCall
  BY <1>1, FirstCall
<1>3. PICK c : c = Next1(t)
  OBVIOUS
<1>4. PICK d : d = c.on
  OBVIOUS
<1>5. c.op \in {"add", "refresh", "remove", "injectDevice", "check"}
  BY <1>3 DEF Add, Refresh, Remove, Inject, Check, Doing
<1>6. d \in Devices /\ (c.op = "add" => c.with \in Mounts \cup {NoMount})
  BY <1>2, <1>3, <1>4, <1>5, CallTypes DEF DeviceOps
<1>7. PICK named : named = Named(d)
  OBVIOUS
<1>8. named \in Seq(Tidy(d)) /\ <<>> \in Seq(Tidy(d))
  BY <1>6, <1>7, SomeTidy DEF Named
<1>9. UNCHANGED Others
  BY DEF Add, Refresh, Remove, Inject, Check
<1>10. CASE Add(t)
  <2>1. c.op = "add" /\ BecomeAnd(t, d, Added(dev[d], c.with, Lives(d)), named)
    BY <1>3, <1>4, <1>7, <1>10 DEF Add, Doing
  <2> QED BY <1>1, <1>3, <1>4, <1>6, <1>8, <1>9, <2>1, BecomeIs DEF Made
<1>11. CASE Refresh(t)
  <2>1. PICK extra : extra = IF Home[d] = "mtp" THEN Named(d) ELSE <<>>
    OBVIOUS
  <2>2. extra \in Seq(Tidy(d))
    BY <1>7, <1>8, <2>1
  <2>3. c.op = "refresh" /\ BecomeAnd(t, d, Refreshed(dev[d], Lives(d)), extra)
    BY <1>3, <1>4, <1>11, <2>1 DEF Refresh, Doing
  <2> QED BY <1>1, <1>3, <1>4, <1>6, <1>9, <2>2, <2>3, BecomeIs DEF Made
<1>12. CASE Remove(t)
  <2>1. c.op = "remove" /\ BecomeAnd(t, d, Removed(dev[d]), <<>>)
    BY <1>3, <1>4, <1>12 DEF Remove, Doing, Become
  <2> QED BY <1>1, <1>3, <1>4, <1>6, <1>8, <1>9, <2>1, BecomeIs DEF Made
<1>13. CASE Inject(t)
  <2>1. c.op = "injectDevice" /\ BecomeAnd(t, d, Injected(dev[d], Lives(d)), <<>>)
    BY <1>3, <1>4, <1>13 DEF Inject, Doing, Become
  <2> QED BY <1>1, <1>3, <1>4, <1>6, <1>8, <1>9, <2>1, BecomeIs DEF Made
<1>14. CASE Check(t)
  <2>1. c.op = "check" /\ BecomeAnd(t, d, Checked(dev[d]), <<>>)
    BY <1>3, <1>4, <1>14 DEF Check, Doing, Become
  <2> QED BY <1>1, <1>3, <1>4, <1>6, <1>8, <1>9, <2>1, BecomeIs DEF Made
<1> QED BY <1>10, <1>11, <1>12, <1>13, <1>14

\* The record of a device that an operation makes.
LEMMA LivesType == ASSUME NEW d PROVE Lives(d) \in -1 .. 4
BY UpnpAliveAssumption DEF Lives

LEMMA MadeIs ==
    ASSUME NEW r \in Record, NEW lives \in -1 .. 4, NEW c, NEW s,
           Made(c, r, lives, s), ~r.known => ~r.avail /\ r.alive = 0
    PROVE  /\ s \in Record
           /\ ~s.known => ~s.avail /\ s.alive = 0
           /\ s.asked = r.asked /\ (r.known => s.known)
           /\ ~Changed(r, s) => s.avail = r.avail /\ s.known = r.known
           /\ c.op = "add" => s.avail /\ s.known
           /\ c.op = "remove" => ~s.avail
           /\ c.op = "injectDevice" => s.avail = r.avail
<1> USE DEF Record, Changed
<1>1. CASE c.op = "add"
  BY <1>1, ZenonT(30) DEF Made, Added, Refreshed
<1>2. CASE c.op = "refresh"
  BY <1>2, ZenonT(30) DEF Made, Refreshed
<1>3. CASE c.op = "remove"
  <2>1. s = IF r.known THEN [r EXCEPT !.avail = FALSE, !.alive = 0] ELSE r
    BY <1>3 DEF Made, Removed
  <2>2. CASE r.known
    <3>1. 0 \in -1 .. 4
      OBVIOUS
    <3>2. /\ s \in Record /\ s.known = r.known /\ s.asked = r.asked
          /\ s.alive = 0 /\ s.avail = FALSE
      BY <2>1, <2>2, <3>1
    <3> QED BY <1>3, <2>2, <3>2
  <2>3. CASE ~r.known
    BY <1>3, <2>1, <2>3
  <2> QED BY <2>2, <2>3
<1>4. CASE c.op = "injectDevice"
  BY <1>4 DEF Made, Injected
<1>5. CASE c.op = "check"
  <2>1. PICK left : left = IF r.alive > 0 THEN r.alive - 1 ELSE r.alive
    OBVIOUS
  <2>2. s = [r EXCEPT !.alive = left, !.avail = (left # 0)]
    BY <1>5, <2>1 DEF Made, Checked
  <2>3. left \in -1 .. 4 /\ (r.alive = 0 => left = 0) /\ (left # 0) \in BOOLEAN
    BY <2>1
  <2>4. /\ s \in Record /\ s.known = r.known /\ s.asked = r.asked
        /\ s.alive = left /\ s.avail = (left # 0)
    BY <2>2, <2>3
  <2> QED BY <1>5, <2>1, <2>3, <2>4
<1> QED BY <1>1, <1>2, <1>3, <1>4, <1>5 DEF Made

\* The other operations on a device leave their own calls behind.
LEMMA TidyActions ==
    ASSUME CallsInv, NEW t \in Threads,
           \/ Modify(t) \/ RecordState(t) \/ MergePut(t) \/ IndexState(t)
           \/ MarkRows(t) \/ AskScan(t) \/ PushRequest(t)
    PROVE  /\ ~Idle(t) /\ Next1(t).on \in Devices
           /\ Next1(t).op \in {"modify", "record", "mergePut", "index",
                               "unmarkAllDirty", "markDirty", "scan", "push"}
           /\ TidyStep(t, Next1(t).on)
<1>1. ~Idle(t) /\ Next1(t).op \in {"modify", "record", "mergePut", "index",
                               "unmarkAllDirty", "markDirty", "scan", "push"}
  BY DEF Modify, RecordState, MergePut, IndexState, MarkRows, AskScan,
         PushRequest, Doing
<1>2. Next1(t) \in AnyCall
  BY <1>1, FirstCall
<1>3. PICK d : d = Next1(t).on
  OBVIOUS
<1>4. d \in Devices
  BY <1>1, <1>2, <1>3, CallTypes DEF DeviceOps
<1>5. CASE Modify(t)
  <2>1. PICK more : more = Tell(d, observers[Home[d]] \ {"MediaIndexer"})
    OBVIOUS
  <2>2. Then(t, more)
    BY <1>3, <1>5, <2>1 DEF Modify
  <2> QED BY <1>1, <1>3, <1>4, <2>1, <2>2, TellIs DEF TidyStep
<1>6. CASE RecordState(t)
  <2>1. PICK with : with = IF dev[d].avail THEN "here" ELSE "gone"
    OBVIOUS
  <2>2. Then(t, <<Call("mergePut", d, with)>>)
    BY <1>3, <1>6, <2>1 DEF RecordState
  <2> QED BY <1>1, <1>3, <1>4, <2>1, <2>2, SomeTidy DEF TidyStep
<1>7. CASE MergePut(t) \/ MarkRows(t) \/ PushRequest(t)
  <2>1. Then(t, <<>>)
    BY <1>7 DEF MergePut, MarkRows, PushRequest
  <2> QED BY <1>1, <1>3, <1>4, <2>1, SomeTidy DEF TidyStep
<1>8. CASE IndexState(t)
  <2>1. PICK more : more = IF dev[d].avail
               THEN <<Call("unmarkAllDirty", d, ""), Call("scan", d, "")>>
               ELSE <<Call("markDirty", d, "")>>
    OBVIOUS
  <2>2. Then(t, more)
    BY <1>3, <1>8, <2>1 DEF IndexState
  <2>3. more \in Seq(Tidy(d))
    BY <1>4, <2>1, SomeTidy
  <2> QED BY <1>1, <1>3, <1>4, <2>2, <2>3 DEF TidyStep
<1>9. CASE AskScan(t)
  <2>1. PICK more : more = IF dev[d].avail THEN <<Call("push", d, "")>> ELSE <<>>
    OBVIOUS
  <2>2. Then(t, more)
    BY <1>3, <1>9, <2>1 DEF AskScan
  <2>3. more \in Seq(Tidy(d))
    BY <1>4, <2>1, SomeTidy
  <2> QED BY <1>1, <1>3, <1>4, <2>2, <2>3 DEF TidyStep
<1> QED BY <1>5, <1>6, <1>7, <1>8, <1>9

----------------------------------------------------------------------------
(***************************************************************************)
(* The main loop: calls on devices, then the plan for one plugin, then     *)
(* setDetect for others.                                                   *)
(***************************************************************************)
Splits(work, p, plan, rest) ==
    /\ work \in Seq(WorkCalls) /\ rest \in Seq(DetectCalls)
    /\ plan \in Seq(PluginCalls)
    /\ stack["main"] = work \o (plan \o rest)
    /\ Doable(p, plan) /\ \A q \in Plugins \ {p} : Settled(q)
MainSplits ==
    \E p \in Plugins, work \in Seq(WorkCalls), plan \in Seq(PluginCalls),
       rest \in Seq(DetectCalls) : Splits(work, p, plan, rest)

LEMMA MainIsThread == "main" \in Threads
BY DEF Threads

LEMMA PlanCalls ==
    ASSUME NEW p \in Plugins
    PROVE  /\ \A o \in Observers : \A op \in {"observe", "ignore", "forget"} :
                Call(op, p, o) \in PluginCalls
           /\ \A op \in {"run", "find", "await", "halt", "removeAll", "erase"} :
                Call(op, p, "") \in PluginCalls
           /\ \A on \in {"on", "off"} : Call("setEnable", p, on) \in PluginCalls
           /\ "DeviceDb" \in Observers /\ "MediaIndexer" \in Observers
<1>1. ASSUME NEW o \in Observers, NEW op \in {"observe", "ignore", "forget"}
      PROVE  Call(op, p, o) \in PluginCalls
  BY DEF Call, PluginCalls
<1>2. ASSUME NEW op \in {"run", "find", "await", "halt", "removeAll", "erase"}
      PROVE  Call(op, p, "") \in PluginCalls
  BY DEF Call, PluginCalls
<1>3. ASSUME NEW on \in {"on", "off"}
      PROVE  Call("setEnable", p, on) \in PluginCalls
  BY DEF Call, PluginCalls
<1> QED BY <1>1, <1>2, <1>3 DEF Observers

LEMMA DoableIsPlan ==
    ASSUME NEW p \in Plugins, NEW plan, Doable(p, plan)
    PROVE  plan \in Seq(PluginCalls)
<1> DEFINE C == PluginCalls
<1>1. /\ \A a \in C : <<a>> \in Seq(C)
      /\ \A a, b \in C : <<a, b>> \in Seq(C)
      /\ \A a, b, c \in C : <<a, b, c>> \in Seq(C)
      /\ \A a, b, c, d \in C : <<a, b, c, d>> \in Seq(C)
      /\ \A a, b, c, d, e \in C : <<a, b, c, d, e>> \in Seq(C)
      /\ <<>> \in Seq(C) /\ \A s, t \in Seq(C) : s \o t \in Seq(C)
  OBVIOUS
<1> HIDE DEF C
<1>2. /\ Looks(p) \in C /\ Joins(p) \in C
      /\ Call("run", p, "") \in C /\ Call("find", p, "") \in C
      /\ Call("await", p, "") \in C /\ Call("halt", p, "") \in C
      /\ Call("removeAll", p, "") \in C /\ Call("erase", p, "") \in C
      /\ Call("setEnable", p, "on") \in C /\ Call("setEnable", p, "off") \in C
  BY PlanCalls DEF Looks, Joins, C
<1>22. \A o \in Observers : Going(p, o, "ignore") \in C /\ Going(p, o, "forget") \in C
  BY PlanCalls DEF Going, C
<1>23. "DeviceDb" \in Observers /\ "MediaIndexer" \in Observers
  BY DEF Observers
<1>3. CASE TurningOn(p, plan)
  <2>1. PICK find, await, on, join, run, look :
          /\ find = Call("find", p, "") /\ await = Call("await", p, "")
          /\ on = Call("setEnable", p, "on") /\ join = Joins(p)
          /\ run = Call("run", p, "") /\ look = Looks(p)
    OBVIOUS
  <2>2. {find, await, on, join, run, look} \subseteq C
    BY <1>2, <2>1
  <2>3. /\ <<look, find, await, on, join>> \in Seq(C)
        /\ <<run, find, await, on, join>> \in Seq(C)
        /\ <<find, await, on, join>> \in Seq(C)
        /\ <<await, on, join>> \in Seq(C)
        /\ <<on, join>> \in Seq(C) /\ <<join>> \in Seq(C)
    BY <2>2
  <2>4. \/ plan = <<look, find, await, on, join>>
        \/ plan = <<run, find, await, on, join>>
        \/ plan = <<find, await, on, join>> \/ plan = <<await, on, join>>
        \/ plan = <<on, join>> \/ plan = <<join>>
    BY <1>3, <2>1 DEF TurningOn
  <2> QED BY <2>3, <2>4 DEF C
<1>4. ASSUME NEW o \in Observers, NEW more \in Seq(C), Leaving(p, o, plan, more)
      PROVE  plan \in Seq(C)
  <2>1. PICK halt, all, forget, ignore :
          /\ halt = Call("halt", p, "") /\ all = Call("removeAll", p, "")
          /\ forget = Going(p, o, "forget") /\ ignore = Going(p, o, "ignore")
    OBVIOUS
  <2>2. {halt, all, forget, ignore} \subseteq C
    BY <1>2, <1>22, <2>1
  <2>3. /\ <<halt, all, forget>> \in Seq(C) /\ <<all, forget>> \in Seq(C)
        /\ <<forget>> \in Seq(C) /\ <<ignore>> \in Seq(C)
    BY <2>2
  <2>4. \/ plan = <<halt, all, forget>> \o more \/ plan = <<all, forget>> \o more
        \/ plan = <<forget>> \o more \/ plan = <<ignore>> \o more
    BY <1>4, <2>1 DEF Leaving
  <2> QED BY <1>1, <2>3, <2>4
<1>5. CASE TurningOff(p, plan)
  <2>1. PICK ignoreD, forgetD, ignoreM, off :
          /\ ignoreD = Going(p, "DeviceDb", "ignore")
          /\ forgetD = Going(p, "DeviceDb", "forget")
          /\ ignoreM = Going(p, "MediaIndexer", "ignore")
          /\ off = Call("setEnable", p, "off")
    OBVIOUS
  <2>2. {ignoreD, forgetD, ignoreM, off} \subseteq C
    BY <1>2, <1>22, <1>23, <2>1
  <2>3. /\ <<ignoreD, off, ignoreM>> \in Seq(C)
        /\ <<forgetD, off, ignoreM>> \in Seq(C)
        /\ <<off, ignoreM>> \in Seq(C)
    BY <2>2
  <2>4. \/ plan = <<ignoreD, off, ignoreM>> \/ plan = <<forgetD, off, ignoreM>>
        \/ plan = <<off, ignoreM>> \/ Leaving(p, "MediaIndexer", plan, <<>>)
    BY <1>5, <2>1 DEF TurningOff
  <2> QED BY <1>1, <1>23, <1>4, <2>3, <2>4 DEF C
<1>6. CASE Putting(p, plan)
  <2>1. PICK ignoreD, forgetM, ignoreM, erase :
          /\ ignoreD = Going(p, "DeviceDb", "ignore")
          /\ forgetM = Going(p, "MediaIndexer", "forget")
          /\ ignoreM = Going(p, "MediaIndexer", "ignore")
          /\ erase = Call("erase", p, "")
    OBVIOUS
  <2>2. {ignoreD, forgetM, ignoreM, erase} \subseteq C
    BY <1>2, <1>22, <1>23, <2>1
  <2>3. /\ <<ignoreM, ignoreD, erase>> \in Seq(C)
        /\ <<forgetM, ignoreD, erase>> \in Seq(C)
        /\ <<erase>> \in Seq(C)
    BY <2>2
  <2>4. \/ plan = <<ignoreM, ignoreD, erase>> \/ plan = <<forgetM, ignoreD, erase>>
        \/ plan = <<erase>> \/ Leaving(p, "DeviceDb", plan, <<erase>>)
    BY <1>6, <2>1 DEF Putting
  <2> QED BY <1>1, <1>23, <1>4, <2>3, <2>4 DEF C
<1> QED BY <1>1, <1>3, <1>5, <1>6 DEF Doable, C

LEMMA MainIsSplit ==
    ASSUME CallsInv
    PROVE  MainInv => MainSplits
<1> SUFFICES ASSUME MainInv PROVE MainSplits
  OBVIOUS
<1>1. PICK s : s = stack["main"]
  OBVIOUS
<1>2. s \in Seq(AnyCall) /\ Len(s) \in Nat
  BY <1>1, MainIsThread DEF CallsInv
<1>3. PICK i \in 0 .. Len(s) : \E j \in i .. Len(s) : \E p \in Plugins :
        /\ \A k \in 1 .. i : s[k] \in WorkCalls
        /\ Doable(p, SubSeq(s, i + 1, j))
        /\ \A k \in j + 1 .. Len(s) : s[k] \in DetectCalls
        /\ \A q \in Plugins \ {p} : Settled(q)
  BY <1>1 DEF MainInv
<1>4. PICK j \in i .. Len(s), p \in Plugins :
        /\ \A k \in 1 .. i : s[k] \in WorkCalls
        /\ Doable(p, SubSeq(s, i + 1, j))
        /\ \A k \in j + 1 .. Len(s) : s[k] \in DetectCalls
        /\ \A q \in Plugins \ {p} : Settled(q)
  BY <1>3
<1>5. PICK work, plan, rest : /\ work = SubSeq(s, 1, i)
                              /\ plan = SubSeq(s, i + 1, j)
                              /\ rest = SubSeq(s, j + 1, Len(s))
  OBVIOUS
<1>6. work \in Seq(WorkCalls) /\ rest \in Seq(DetectCalls)
  BY <1>2, <1>4, <1>5, SubSeqProperties
<1>7. plan \in Seq(PluginCalls)
  BY <1>4, <1>5, DoableIsPlan
<1>8. plan \o rest = SubSeq(s, i + 1, Len(s))
  <2>1. /\ i + 1 \in 1 .. Len(s) + 1 /\ j \in (i + 1) - 1 .. Len(s)
        /\ Len(s) \in j .. Len(s)
    BY <1>2, <1>3, <1>4
  <2> QED BY <1>2, <1>5, <2>1, ConcatAdjacentSubSeq
<1>9. work \o (plan \o rest) = SubSeq(s, 1, Len(s))
  <2>1. /\ 1 \in 1 .. Len(s) + 1 /\ i \in 1 - 1 .. Len(s)
        /\ Len(s) \in i .. Len(s)
    BY <1>2, <1>4
  <2> QED BY <1>2, <1>5, <1>8, <2>1, ConcatAdjacentSubSeq
<1>10. work \o (plan \o rest) = s
  BY <1>2, <1>9, SubSeqFull
<1> QED BY <1>1, <1>4, <1>5, <1>6, <1>7, <1>10 DEF MainSplits, Splits

LEMMA SplitIsMain == MainSplits => MainInv
<1> SUFFICES ASSUME MainSplits PROVE MainInv
  OBVIOUS
<1>1. PICK p \in Plugins, work \in Seq(WorkCalls), plan \in Seq(PluginCalls),
           rest \in Seq(DetectCalls) : Splits(work, p, plan, rest)
  BY DEF MainSplits
<1>2. PICK s : s = stack["main"]
  OBVIOUS
<1> DEFINE A == WorkCalls \cup PluginCalls \cup DetectCalls
           i == Len(work) j == Len(work) + Len(plan)
<1>3. work \in Seq(A) /\ plan \in Seq(A) /\ rest \in Seq(A)
  BY SeqMonotonic
<1>4. work \in Seq(WorkCalls) /\ plan \in Seq(PluginCalls) /\ rest \in Seq(DetectCalls)
  OBVIOUS
<1> HIDE DEF A
<1>5. /\ plan \o rest \in Seq(A) /\ Len(plan \o rest) = Len(plan) + Len(rest)
      /\ \A k \in 1 .. Len(plan) + Len(rest) : (plan \o rest)[k] =
           IF k <= Len(plan) THEN plan[k] ELSE rest[k - Len(plan)]
  BY <1>3, ConcatProperties
<1>6. /\ s \in Seq(A) /\ Len(s) = Len(work) + Len(plan \o rest)
      /\ \A k \in 1 .. Len(work) + Len(plan \o rest) : s[k] =
           IF k <= Len(work) THEN work[k] ELSE (plan \o rest)[k - Len(work)]
  BY <1>1, <1>2, <1>3, <1>5, ConcatProperties DEF Splits
<1>7. Len(work) \in Nat /\ Len(plan) \in Nat /\ Len(rest) \in Nat
  BY <1>4, LenProperties
<1>8. i \in 0 .. Len(s) /\ j \in i .. Len(s)
  BY <1>5, <1>6, <1>7
<1>9. \A k \in 1 .. i : s[k] \in WorkCalls
  BY <1>4, <1>5, <1>6, <1>7, ElementOfSeq
<1>10. \A k \in j + 1 .. Len(s) : s[k] \in DetectCalls
  <2> SUFFICES ASSUME NEW k \in j + 1 .. Len(s) PROVE s[k] \in DetectCalls
    OBVIOUS
  <2>1. k - Len(work) \in 1 .. Len(plan) + Len(rest) /\ ~(k <= Len(work))
        /\ k \in 1 .. Len(work) + Len(plan \o rest)
    BY <1>5, <1>6, <1>7
  <2>2. s[k] = (plan \o rest)[k - Len(work)]
    BY <1>6, <2>1
  <2>3. ~(k - Len(work) <= Len(plan)) /\ k - Len(work) - Len(plan) \in 1 .. Len(rest)
    BY <1>5, <1>6, <1>7
  <2>4. s[k] = rest[k - Len(work) - Len(plan)]
    BY <1>5, <2>1, <2>2, <2>3
  <2> QED BY <1>4, <2>3, <2>4, ElementOfSeq
<1>11. SubSeq(s, i + 1, j) = plan
  <2>1. \A k \in i + 1 .. j : s[k] \in A
    BY <1>5, <1>6, <1>7, ElementOfSeq
  <2>2. /\ SubSeq(s, i + 1, j) \in Seq(A)
        /\ Len(SubSeq(s, i + 1, j)) = IF i + 1 <= j THEN j - (i + 1) + 1 ELSE 0
        /\ \A k \in 1 .. j - (i + 1) + 1 : SubSeq(s, i + 1, j)[k] = s[i + 1 + k - 1]
    BY <1>7, <2>1, SubSeqProperties
  <2>3. Len(SubSeq(s, i + 1, j)) = Len(plan)
    BY <1>7, <2>2
  <2>4. ASSUME NEW k \in 1 .. Len(plan) PROVE SubSeq(s, i + 1, j)[k] = plan[k]
    <3>1. SubSeq(s, i + 1, j)[k] = s[Len(work) + k]
      BY <1>7, <2>2
    <3>2. s[Len(work) + k] = (plan \o rest)[k]
      BY <1>5, <1>6, <1>7
    <3> QED BY <1>5, <1>7, <3>1, <3>2
  <2> QED BY <1>3, <2>2, <2>3, <2>4, SeqEqual
<1> QED BY <1>1, <1>2, <1>8, <1>9, <1>10, <1>11 DEF MainInv, Splits

----------------------------------------------------------------------------
(***************************************************************************)
(* The calls on plugins: who makes them, and what they leave to be done.   *)
(***************************************************************************)
Typed == TypeOK /\ CallsInv /\ PlacesInv

LEMMA DevicesOf ==
    ASSUME NEW p
    PROVE  /\ Of(p) \subseteq Devices /\ IsFiniteSet(Of(p))
           /\ Known(p) \subseteq Of(p) /\ IsFiniteSet(Known(p))
           /\ \A d \in Of(p) : Home[d] = p /\ d \in Present
           /\ \A S : S \subseteq Devices => IsFiniteSet(S)
<1>1. Of(p) \subseteq Devices /\ Known(p) \subseteq Of(p)
  BY DEF Of, Known, Present
<1>2. \A S : S \subseteq Devices => IsFiniteSet(S)
  BY FiniteAssumption, FS_Subset
<1>3. \A d \in Of(p) : Home[d] = p /\ d \in Present
  BY DEF Of
<1> QED BY <1>1, <1>2, <1>3

LEMMA FinitePlugins == ASSUME NEW S, S \subseteq Plugins PROVE IsFiniteSet(S)
<1>1. IsFiniteSet({})
  BY FS_EmptySet
<1>2. IsFiniteSet({} \cup {"msc"})
  BY <1>1, FS_AddElement
<1>3. IsFiniteSet(({} \cup {"msc"}) \cup {"storage"})
  BY <1>2, FS_AddElement
<1>4. IsFiniteSet((({} \cup {"msc"}) \cup {"storage"}) \cup {"mtp"})
  BY <1>3, FS_AddElement
<1>5. IsFiniteSet(((({} \cup {"msc"}) \cup {"storage"}) \cup {"mtp"}) \cup {"upnp"})
  BY <1>4, FS_AddElement
<1>6. Plugins = ((({} \cup {"msc"}) \cup {"storage"}) \cup {"mtp"}) \cup {"upnp"}
  BY DEF Plugins
<1>7. IsFiniteSet(Plugins)
  BY <1>5, <1>6
<1> QED BY <1>7, FS_Subset

CallsOn(op, S) == {Call(op, d, "") : d \in S}
LEMMA CallsOnIs ==
    ASSUME NEW op, NEW S
    PROVE  /\ \A d \in S : Call(op, d, "") \in CallsOn(op, S)
           /\ \A c \in CallsOn(op, S) : c.op = op /\ c.on \in S
<1>1. \A d \in S : Call(op, d, "") \in CallsOn(op, S)
  BY DEF CallsOn
<1>2. ASSUME NEW c \in CallsOn(op, S) PROVE c.op = op /\ c.on \in S
  <2>1. PICK d \in S : c = Call(op, d, "")
    BY DEF CallsOn
  <2> QED BY <2>1 DEF Call
<1> QED BY <1>1, <1>2

LoopOps == {"refresh", "remove", "injectDevice", "check", "record", "index"}
LEMMA EachCalls ==
    ASSUME NEW S, S \subseteq Devices, NEW op, op \in LoopOps,
           NEW none, none = "", NEW s, s = Each(S, op, none)
    PROVE  /\ s \in Seq(DeviceCalls) /\ s \in Seq(AnyCall)
           /\ op \in WorkOps => s \in Seq(WorkCalls)
           /\ In(s) = CallsOn(op, S)
<1>1. IsFiniteSet(S)
  BY FiniteAssumption, FS_Subset
<1>2. s = Each(S, op, none) /\ none = ""
  OBVIOUS
<1>3. /\ \A d \in S : Call(op, d, none) \in In(s)
      /\ \A c \in In(s) : \E d \in S : c = Call(op, d, none)
      /\ s \in Seq(In(s))
  BY <1>1, <1>2, EachIs
<1>4. ASSUME NEW d \in S
      PROVE  /\ Call(op, d, "") \in DeviceCalls
             /\ Call(op, d, "").op = op /\ Call(op, d, "").on = d
             /\ Call(op, d, "").with = ""
  BY DEF Call, DeviceCalls, LoopOps
<1>5. \A c \in In(s) : c \in DeviceCalls /\ c.op = op /\ c.on \in S /\ c.with = ""
  <2> SUFFICES ASSUME NEW c \in In(s)
               PROVE  /\ c \in DeviceCalls /\ c.op = op /\ c.on \in S
                      /\ c.with = ""
    OBVIOUS
  <2>1. PICK d \in S : c = Call(op, d, none)
    BY <1>3
  <2> QED BY <1>2, <1>4, <2>1
<1>6. s \in Seq(DeviceCalls)
  BY <1>3, <1>5, InSeq
<1>7. In(s) \subseteq AnyCall
  BY <1>5 DEF AnyCall
<1>8. s \in Seq(AnyCall)
  BY <1>3, <1>7, InSeq
<1>9. ASSUME op \in WorkOps PROVE s \in Seq(WorkCalls)
  <2>1. In(s) \subseteq WorkCalls
    BY <1>5, <1>9 DEF WorkCalls
  <2> QED BY <1>3, <2>1, InSeq
<1>10. In(s) = CallsOn(op, S)
  BY <1>2, <1>3 DEF CallsOn
<1> QED BY <1>6, <1>8, <1>9, <1>10

LEMMA EachDetects ==
    ASSUME NEW S, S \subseteq Plugins, NEW on \in {"on", "off"}
    PROVE  /\ Each(S, "setDetect", on) \in Seq(DetectCalls)
           /\ Each(S, "setDetect", on) \in Seq(AnyCall)
<1>1. PICK s : s = Each(S, "setDetect", on)
  OBVIOUS
<1>2. /\ \A c \in In(s) : \E p \in S : c = Call("setDetect", p, on)
      /\ s \in Seq(In(s))
  BY <1>1, FinitePlugins, EachIs
<1>3. In(s) \subseteq DetectCalls
  BY <1>2 DEF Call, DetectCalls
<1>4. s \in Seq(DetectCalls)
  BY <1>2, <1>3, InSeq
<1>5. s \in Seq(AnyCall)
  BY <1>2, <1>3, InSeq DEF AnyCall
<1> QED BY <1>1, <1>4, <1>5

\* Only the main loop calls plugins, but for their checks.
LEMMA OnMain ==
    ASSUME CallsInv, NEW t \in Threads, ~Idle(t),
           Next1(t).op \notin DeviceOps, Next1(t).op # "checkDevices"
    PROVE  t = "main" /\ Next1(t) \in AnyCall /\ Next1(t).on \in Plugins
<1>1. Next1(t) \in AnyCall /\ (t # "main" => OthersDo(Next1(t)))
  BY FirstCall
<1>2. PICK c : c = Next1(t)
  OBVIOUS
<1>3. c.on \in Plugins /\ c \notin DeviceCalls
  BY <1>1, <1>2, CallTypes
<1>4. ~OthersDo(c)
  BY <1>2, <1>3 DEF OthersDo
<1> QED BY <1>1, <1>2, <1>3, <1>4

LEMMA InIs == ASSUME NEW S, NEW s \in Seq(S) PROVE In(s) \subseteq S
BY LenProperties DEF In

LEMMA CheckDevicesStep ==
    ASSUME CallsInv, NEW t \in Threads, CheckDevices(t)
    PROVE  \E p \in Plugins :
             /\ ~Idle(t) /\ Next1(t).op = "checkDevices"
             /\ t # "main" => p \in Discovered
             /\ Then(t, Each(Known(p), "check", ""))
             /\ Each(Known(p), "check", "") \in Seq(AnyCall)
             /\ CallsInv'
             /\ UNCHANGED <<dev, Others>>
<1>1. ~Idle(t) /\ Next1(t).op = "checkDevices"
  BY DEF CheckDevices, Doing
<1>2. Next1(t) \in AnyCall /\ (t # "main" => OthersDo(Next1(t)))
  BY <1>1, FirstCall
<1>3. PICK c, p : c = Next1(t) /\ p = c.on
  OBVIOUS
<1>4. p \in Plugins /\ c \notin DeviceCalls /\ c.op = "checkDevices"
  BY <1>1, <1>2, <1>3, CallTypes DEF DeviceOps
<1>5. t # "main" => p \in Discovered
  BY <1>2, <1>3, <1>4 DEF OthersDo
<1>14. PICK none : none = ""
  OBVIOUS
<1>6. PICK more : more = Each(Known(p), "check", none)
  OBVIOUS
<1>7. /\ Known(p) \subseteq Devices
      /\ \A d \in Known(p) : Home[d] = p
  BY DevicesOf
<1>8. /\ more \in Seq(DeviceCalls) /\ more \in Seq(AnyCall)
      /\ In(more) = CallsOn("check", Known(p))
  <2>1. "check" \in LoopOps
    BY DEF LoopOps
  <2> QED BY <1>6, <1>7, <1>14, <2>1, EachCalls
<1>9. In(more) \subseteq DeviceCalls
  BY <1>8, InIs
<1>15. \A x \in In(more) : x.op = "check" /\ x.on \in Known(p)
  <2>1. \A x \in CallsOn("check", Known(p)) : x.op = "check" /\ x.on \in Known(p)
    BY CallsOnIs
  <2> QED BY <1>8, <2>1
<1>10. t # "main" => \A x \in In(more) : OthersDo(x)
  BY <1>5, <1>7, <1>9, <1>15 DEF OthersDo
<1>11. Then(t, more) /\ UNCHANGED <<dev, Others>>
  BY <1>3, <1>6, <1>14 DEF CheckDevices
<1>12. world' = world
  BY <1>11 DEF Others, env
<1>13. CallsInv'
  BY <1>1, <1>8, <1>10, <1>11, <1>12, ThenCalls
<1> QED BY <1>1, <1>4, <1>5, <1>6, <1>8, <1>11, <1>13, <1>14

\* The plan for a plugin by its first call, and what is left of it then.
Attaching(p, c, tail) ==
    \/ c = Looks(p) /\ Settled(p)
       /\ tail = <<Call("find", p, ""), Call("await", p, ""),
                   Call("setEnable", p, "on"), Joins(p)>>
    \/ c = Call("run", p, "") /\ Has(p, {"DeviceDb"}, FALSE)
       /\ tail = <<Call("find", p, ""), Call("await", p, ""),
                   Call("setEnable", p, "on"), Joins(p)>>
    \/ c = Call("find", p, "") /\ Left(p)
       /\ tail = <<Call("await", p, ""), Call("setEnable", p, "on"), Joins(p)>>
    \/ c = Call("await", p, "") /\ Left(p)
       /\ tail = <<Call("setEnable", p, "on"), Joins(p)>>
    \/ c = Call("setEnable", p, "on") /\ Left(p) /\ tail = <<Joins(p)>>
    \/ c = Joins(p) /\ Left(p) /\ tail = <<>>
Detaching(p, c, tail) ==
    \/ \E op \in {"ignore", "forget"} :
         c = Going(p, "DeviceDb", op) /\ Settled(p)
         /\ tail = <<Call("setEnable", p, "off"),
                     Going(p, "MediaIndexer", "ignore")>>
    \/ \E op \in {"ignore", "forget"} :
         c = Going(p, "MediaIndexer", op) /\ Settled(p)
         /\ tail = <<Going(p, "DeviceDb", "ignore"), Call("erase", p, "")>>
    \/ c = Call("setEnable", p, "off")
       /\ (Has(p, {"MediaIndexer"}, TRUE) \/ Has(p, {}, FALSE))
       /\ tail = <<Going(p, "MediaIndexer", "ignore")>>
    \/ c = Call("erase", p, "") /\ Has(p, {}, FALSE) /\ tail = <<>>
LeavingNow(p, o, c, tail, more) ==
    \/ c = Call("halt", p, "") /\ Has(p, {o}, TRUE)
       /\ tail = <<Call("removeAll", p, ""), Going(p, o, "forget")>> \o more
    \/ c = Call("removeAll", p, "") /\ Has(p, {o}, FALSE)
       /\ tail = <<Going(p, o, "forget")>> \o more
    \/ c = Going(p, o, "forget") /\ (Has(p, {o}, FALSE) \/ Has(p, {}, FALSE))
       /\ tail = more
    \/ c = Going(p, o, "ignore") /\ (Has(p, {o}, TRUE) \/ Has(p, {}, FALSE))
       /\ tail = more
Doing1(p, c, tail) ==
    \/ Attaching(p, c, tail) \/ Detaching(p, c, tail)
    \/ LeavingNow(p, "MediaIndexer", c, tail, <<>>)
    \/ LeavingNow(p, "DeviceDb", c, tail, <<Call("erase", p, "")>>)

LEMMA LeavingFirst ==
    ASSUME NEW p \in Plugins, NEW o \in Observers, NEW more \in Seq(PluginCalls),
           NEW plan, Leaving(p, o, plan, more)
    PROVE  LeavingNow(p, o, Head(plan), Tail(plan), more)
<1> DEFINE C == PluginCalls
<1>1. PICK halt, all, forget, ignore :
          /\ halt = Call("halt", p, "") /\ all = Call("removeAll", p, "")
          /\ forget = Going(p, o, "forget") /\ ignore = Going(p, o, "ignore")
  OBVIOUS
<1>2. {halt, all, forget, ignore} \subseteq C
  BY <1>1, PlanCalls DEF Going
<1>3. more \in Seq(C)
  OBVIOUS
<1> HIDE DEF C
<1>4. /\ Head(<<halt, all, forget>> \o more) = halt
      /\ Tail(<<halt, all, forget>> \o more) = <<all, forget>> \o more
  <2>1. <<halt, all, forget>> \in Seq(C) /\ <<halt, all, forget>> # <<>>
        /\ Head(<<halt, all, forget>>) = halt
        /\ Tail(<<halt, all, forget>>) = <<all, forget>>
    BY <1>2
  <2> QED BY <1>3, <2>1, HeadOfConcat
<1>5. /\ Head(<<all, forget>> \o more) = all
      /\ Tail(<<all, forget>> \o more) = <<forget>> \o more
  BY <1>2, <1>3, Cons2
<1>6. /\ Head(<<forget>> \o more) = forget /\ Tail(<<forget>> \o more) = more
      /\ Head(<<ignore>> \o more) = ignore /\ Tail(<<ignore>> \o more) = more
  BY <1>2, <1>3, Cons
<1>7. CASE Has(p, {o}, TRUE) /\ plan = <<halt, all, forget>> \o more
  BY <1>1, <1>4, <1>7 DEF LeavingNow
<1>8. CASE Has(p, {o}, FALSE) /\ plan = <<all, forget>> \o more
  BY <1>1, <1>5, <1>8 DEF LeavingNow
<1>9. CASE (Has(p, {o}, FALSE) \/ Has(p, {}, FALSE)) /\ plan = <<forget>> \o more
  BY <1>1, <1>6, <1>9 DEF LeavingNow
<1>10. CASE (Has(p, {o}, TRUE) \/ Has(p, {}, FALSE)) /\ plan = <<ignore>> \o more
  BY <1>1, <1>6, <1>10 DEF LeavingNow
<1> QED BY <1>1, <1>7, <1>8, <1>9, <1>10 DEF Leaving

LEMMA PlanFirst ==
    ASSUME NEW p \in Plugins, NEW plan, Doable(p, plan), plan # <<>>
    PROVE  Doing1(p, Head(plan), Tail(plan))
<1>1. CASE TurningOn(p, plan)
  <2>1. PICK find, await, on, join, run, look :
          /\ find = Call("find", p, "") /\ await = Call("await", p, "")
          /\ on = Call("setEnable", p, "on") /\ join = Joins(p)
          /\ run = Call("run", p, "") /\ look = Looks(p)
    OBVIOUS
  <2>2. CASE Settled(p) /\ plan = <<look, find, await, on, join>>
    <3>1. Head(plan) = look /\ Tail(plan) = <<find, await, on, join>>
      BY <2>2
    <3>2. Attaching(p, look, <<find, await, on, join>>)
      BY <2>1, <2>2 DEF Attaching
    <3> QED BY <3>1, <3>2 DEF Doing1
  <2>3. CASE Has(p, {"DeviceDb"}, FALSE) /\ plan = <<run, find, await, on, join>>
    <3>1. Head(plan) = run /\ Tail(plan) = <<find, await, on, join>>
      BY <2>3
    <3>2. Attaching(p, run, <<find, await, on, join>>)
      BY <2>1, <2>3 DEF Attaching
    <3> QED BY <3>1, <3>2 DEF Doing1
  <2>4. CASE Left(p) /\ plan = <<find, await, on, join>>
    <3>1. Head(plan) = find /\ Tail(plan) = <<await, on, join>>
      BY <2>4
    <3>2. Attaching(p, find, <<await, on, join>>)
      BY <2>1, <2>4 DEF Attaching
    <3> QED BY <3>1, <3>2 DEF Doing1
  <2>5. CASE Left(p) /\ plan = <<await, on, join>>
    <3>1. Head(plan) = await /\ Tail(plan) = <<on, join>>
      BY <2>5
    <3>2. Attaching(p, await, <<on, join>>)
      BY <2>1, <2>5 DEF Attaching
    <3> QED BY <3>1, <3>2 DEF Doing1
  <2>6. CASE Left(p) /\ plan = <<on, join>>
    <3>1. Head(plan) = on /\ Tail(plan) = <<join>>
      BY <2>6
    <3>2. Attaching(p, on, <<join>>)
      BY <2>1, <2>6 DEF Attaching
    <3> QED BY <3>1, <3>2 DEF Doing1
  <2>7. CASE Left(p) /\ plan = <<join>>
    <3>1. Head(plan) = join /\ Tail(plan) = <<>>
      BY <2>7
    <3>2. Attaching(p, join, <<>>)
      BY <2>1, <2>7 DEF Attaching
    <3> QED BY <3>1, <3>2 DEF Doing1
  <2> QED BY <1>1, <2>1, <2>2, <2>3, <2>4, <2>5, <2>6, <2>7 DEF TurningOn
<1>2. CASE TurningOff(p, plan)
  <2>1. PICK off, ignore : /\ off = Call("setEnable", p, "off")
                           /\ ignore = Going(p, "MediaIndexer", "ignore")
    OBVIOUS
  <2>2. ASSUME NEW op \in {"ignore", "forget"}, Settled(p),
               plan = <<Going(p, "DeviceDb", op), off, ignore>>
        PROVE  Doing1(p, Head(plan), Tail(plan))
    <3>1. Head(plan) = Going(p, "DeviceDb", op) /\ Tail(plan) = <<off, ignore>>
      BY <2>2
    <3> QED BY <2>1, <2>2, <3>1 DEF Doing1, Detaching
  <2>3. CASE /\ Has(p, {"MediaIndexer"}, TRUE) \/ Has(p, {}, FALSE)
             /\ plan = <<off, ignore>>
    <3>1. Head(plan) = off /\ Tail(plan) = <<ignore>>
      BY <2>3
    <3> QED BY <2>1, <2>3, <3>1 DEF Doing1, Detaching
  <2>4. CASE Leaving(p, "MediaIndexer", plan, <<>>)
    <3>1. <<>> \in Seq(PluginCalls)
      OBVIOUS
    <3>2. LeavingNow(p, "MediaIndexer", Head(plan), Tail(plan), <<>>)
      BY <2>4, <3>1, PlanCalls, LeavingFirst
    <3> QED BY <3>2 DEF Doing1
  <2> QED BY <1>2, <2>1, <2>2, <2>3, <2>4 DEF TurningOff
<1>3. CASE Putting(p, plan)
  <2>1. PICK erase, ignore : /\ erase = Call("erase", p, "")
                             /\ ignore = Going(p, "DeviceDb", "ignore")
    OBVIOUS
  <2>2. ASSUME NEW op \in {"ignore", "forget"}, Settled(p),
               plan = <<Going(p, "MediaIndexer", op), ignore, erase>>
        PROVE  Doing1(p, Head(plan), Tail(plan))
    <3>1. /\ Head(plan) = Going(p, "MediaIndexer", op)
          /\ Tail(plan) = <<ignore, erase>>
      BY <2>2
    <3> QED BY <2>1, <2>2, <3>1 DEF Doing1, Detaching
  <2>3. CASE Has(p, {}, FALSE) /\ plan = <<erase>>
    <3>1. Head(plan) = erase /\ Tail(plan) = <<>>
      BY <2>3
    <3> QED BY <2>1, <2>3, <3>1 DEF Doing1, Detaching
  <2>4. CASE Leaving(p, "DeviceDb", plan, <<erase>>)
    <3>1. <<erase>> \in Seq(PluginCalls)
      <4>1. erase \in PluginCalls
        BY <2>1, PlanCalls
      <4> QED BY <4>1
    <3>2. LeavingNow(p, "DeviceDb", Head(plan), Tail(plan), <<erase>>)
      BY <2>4, <3>1, PlanCalls, LeavingFirst
    <3> QED BY <2>1, <3>2 DEF Doing1
  <2> QED BY <1>3, <2>1, <2>2, <2>3, <2>4 DEF Putting
<1> QED BY <1>1, <1>2, <1>3 DEF Doable

LEMMA HasSame ==
    ASSUME observers' = observers, running' = running
    PROVE  /\ \A p, plan : Doable(p, plan) <=> Doable(p, plan)'
           /\ \A p : Settled(p) <=> Settled(p)'
           /\ \A p, who, runs : Has(p, who, runs) <=> Has(p, who, runs)'
           /\ \A p : Left(p) <=> Left(p)'
<1>1. \A p, who, runs : Has(p, who, runs) <=> Has(p, who, runs)'
  BY DEF Has
<1>2. \A p : Settled(p) <=> Settled(p)'
  BY <1>1 DEF Settled
<1>3. \A p : Left(p) <=> Left(p)'
  BY <1>1 DEF Left
<1>4. \A p, plan : TurningOn(p, plan) <=> TurningOn(p, plan)'
  BY <1>1, <1>2, <1>3 DEF TurningOn, Looks, Joins
<1>5. \A p, o, plan, more : Leaving(p, o, plan, more) <=> Leaving(p, o, plan, more)'
  <2> TAKE p, o, plan, more
  <2>1. /\ Has(p, {o}, TRUE) <=> Has(p, {o}, TRUE)'
        /\ Has(p, {o}, FALSE) <=> Has(p, {o}, FALSE)'
        /\ Has(p, {}, FALSE) <=> Has(p, {}, FALSE)'
    BY <1>1
  <2> QED BY <2>1 DEF Leaving, Going
<1>6. \A p, plan : TurningOff(p, plan) <=> TurningOff(p, plan)'
  BY <1>1, <1>2, <1>5 DEF TurningOff, Going
<1>7. \A p, plan : Putting(p, plan) <=> Putting(p, plan)'
  BY <1>1, <1>2, <1>5 DEF Putting, Going
<1>8. \A p, plan : Doable(p, plan) <=> Doable(p, plan)'
  BY <1>2, <1>4, <1>6, <1>7 DEF Doable
<1> QED BY <1>1, <1>2, <1>3, <1>8

LEMMA NothingDoable ==
    ASSUME NEW p \in Plugins, Doable(p, <<>>) PROVE Settled(p)
<1>1. ASSUME NEW o \in Observers, NEW more \in Seq(PluginCalls),
             Leaving(p, o, <<>>, more)
      PROVE  FALSE
  <2> DEFINE C == PluginCalls
  <2>1. PICK halt, all, forget, ignore :
          /\ halt = Call("halt", p, "") /\ all = Call("removeAll", p, "")
          /\ forget = Going(p, o, "forget") /\ ignore = Going(p, o, "ignore")
    OBVIOUS
  <2>2. {halt, all, forget, ignore} \subseteq C
    BY <2>1, PlanCalls DEF Going
  <2>3. more \in Seq(C)
    OBVIOUS
  <2> HIDE DEF C
  <2>4. /\ <<forget>> \o more # <<>> /\ <<ignore>> \o more # <<>>
        /\ <<all, forget>> \o more # <<>>
    BY <2>2, <2>3, Cons, Cons2
  <2>5. <<halt, all, forget>> \o more # <<>>
    BY <2>2, <2>3, HeadOfConcat, <<halt, all, forget>> \in Seq(C)
  <2> QED BY <1>1, <2>1, <2>4, <2>5 DEF Leaving
<1>2. ~TurningOn(p, <<>>)
  BY DEF TurningOn
<1>3. ~Leaving(p, "MediaIndexer", <<>>, <<>>)
  <2>1. <<>> \in Seq(PluginCalls)
    OBVIOUS
  <2> QED BY <1>1, <2>1, PlanCalls
<1>4. ~Leaving(p, "DeviceDb", <<>>, <<Call("erase", p, "")>>)
  <2>1. PICK erase : erase = Call("erase", p, "")
    OBVIOUS
  <2>2. <<erase>> \in Seq(PluginCalls)
    <3>1. erase \in PluginCalls
      BY <2>1, PlanCalls
    <3> QED BY <3>1
  <2> QED BY <1>1, <2>1, <2>2, PlanCalls
<1>5. ~TurningOff(p, <<>>)
  BY <1>3 DEF TurningOff
<1>6. ~Putting(p, <<>>)
  BY <1>4 DEF Putting
<1> QED BY <1>2, <1>5, <1>6 DEF Doable

LEMMA Assoc ==
    ASSUME NEW s \in Seq(AnyCall), NEW t \in Seq(AnyCall), NEW u \in Seq(AnyCall)
    PROVE  (s \o t) \o u = s \o (t \o u)
BY ConcatAssociative

LEMMA Monotone ==
    /\ \A s : s \in Seq(WorkCalls) => s \in Seq(AnyCall) /\ s \in Seq(DeviceCalls)
    /\ \A s : s \in Seq(PluginCalls) => s \in Seq(AnyCall)
    /\ \A s : s \in Seq(DetectCalls) => s \in Seq(AnyCall)
    /\ \A s : s \in Seq(DeviceCalls) => s \in Seq(AnyCall)
    /\ \A s, t : s \in Seq(AnyCall) /\ t \in Seq(AnyCall) => s \o t \in Seq(AnyCall)
    /\ \A s, t, u : s \in Seq(AnyCall) /\ t \in Seq(AnyCall) /\ u \in Seq(AnyCall)
                   => (s \o t) \o u = s \o (t \o u)
<1>1. /\ WorkCalls \subseteq DeviceCalls /\ DeviceCalls \subseteq AnyCall
      /\ PluginCalls \subseteq AnyCall /\ DetectCalls \subseteq AnyCall
      /\ WorkCalls \subseteq AnyCall
  BY DEF WorkCalls, AnyCall
<1>2. \A s, t : s \in Seq(AnyCall) /\ t \in Seq(AnyCall) => s \o t \in Seq(AnyCall)
  OBVIOUS
<1>3. \A s, t, u : s \in Seq(AnyCall) /\ t \in Seq(AnyCall) /\ u \in Seq(AnyCall)
                  => (s \o t) \o u = s \o (t \o u)
  BY Assoc
<1> QED BY <1>1, <1>2, <1>3, SeqMonotonic

\* A call on a device in the main loop comes before the plan.
LEMMA MainWork ==
    ASSUME CallsInv, MainSplits, ~Idle("main"), Next1("main").op \in WorkOps,
           NEW more \in Seq(WorkCalls), Then("main", more),
           observers' = observers, running' = running
    PROVE  MainSplits'
<1>1. PICK p \in Plugins, work \in Seq(WorkCalls), plan \in Seq(PluginCalls),
           rest \in Seq(DetectCalls) : Splits(work, p, plan, rest)
  BY DEF MainSplits
<1>2. PICK s, left : s = stack["main"] /\ left = plan \o rest
  OBVIOUS
<1>3. /\ work \in Seq(AnyCall) /\ left \in Seq(AnyCall) /\ more \in Seq(AnyCall)
      /\ plan \in Seq(AnyCall) /\ rest \in Seq(AnyCall)
  BY <1>2, Monotone
<1>4. s = work \o left /\ s # <<>> /\ Next1("main") = Head(s)
  BY <1>1, <1>2 DEF Splits, Idle, Next1
<1>5. work # <<>>
  <2> SUFFICES ASSUME work = <<>> PROVE FALSE
    OBVIOUS
  <2>1. s = left
    BY <1>3, <1>4
  <2>2. Head(s) \in PluginCalls \cup DetectCalls
    <3>1. CASE plan = <<>>
      <4>1. s = rest
        BY <1>2, <1>3, <2>1, <3>1
      <4> QED BY <1>4, <4>1, InTail
    <3>2. CASE plan # <<>>
      <4>1. Head(s) = Head(plan)
        BY <1>2, <1>3, <2>1, <3>2, HeadOfConcat
      <4> QED BY <3>2, <4>1, InTail
    <3> QED BY <3>1, <3>2
  <2> QED BY <1>4, <2>2 DEF PluginCalls, DetectCalls, WorkOps
<1>6. Tail(s) = Tail(work) \o left /\ Tail(work) \in Seq(WorkCalls)
  BY <1>3, <1>4, <1>5, HeadOfConcat, InTail
<1>7. PICK now : now = more \o Tail(work)
  OBVIOUS
<1>8. now \in Seq(WorkCalls)
  BY <1>6, <1>7
<1>9. stack'["main"] = more \o (Tail(work) \o left)
  BY <1>2, <1>6, MainIsThread DEF Then, CallsInv
<1>10. stack'["main"] = now \o left
  <2>1. PICK t : t = Tail(work)
    OBVIOUS
  <2>2. t \in Seq(AnyCall)
    BY <1>6, <2>1, Monotone
  <2>3. (more \o t) \o left = more \o (t \o left)
    BY <1>3, <2>2, Assoc, SMTT(30)
  <2> QED BY <1>7, <1>9, <2>1, <2>3
<1>11. Splits(now, p, plan, rest)'
  BY <1>1, <1>2, <1>8, <1>10, HasSame DEF Splits
<1> QED BY <1>8, <1>11 DEF MainSplits

\* Any other call of it is the first of the plan, or a setDetect.
LEMMA MainFirst ==
    ASSUME CallsInv, MainSplits, ~Idle("main"), Next1("main").op \notin WorkOps
    PROVE  \/ /\ Next1("main").op = "setDetect"
              /\ Tail(stack["main"]) \in Seq(DetectCalls)
              /\ \A q \in Plugins : Settled(q)
           \/ /\ Next1("main").op # "setDetect"
              /\ \E p \in Plugins, tail \in Seq(PluginCalls),
                    rest \in Seq(DetectCalls) :
                   /\ Next1("main") \in PluginCalls
                   /\ Tail(stack["main"]) = tail \o rest
                   /\ Doing1(p, Next1("main"), tail)
                   /\ \A q \in Plugins \ {p} : Settled(q)
<1>1. PICK p \in Plugins, work \in Seq(WorkCalls), plan \in Seq(PluginCalls),
           rest \in Seq(DetectCalls) : Splits(work, p, plan, rest)
  BY DEF MainSplits
<1>2. PICK s, left : s = stack["main"] /\ left = plan \o rest
  OBVIOUS
<1>3. /\ work \in Seq(AnyCall) /\ left \in Seq(AnyCall)
      /\ plan \in Seq(AnyCall) /\ rest \in Seq(AnyCall)
  BY <1>2, Monotone
<1>4. s = work \o left /\ s # <<>> /\ Next1("main") = Head(s)
  BY <1>1, <1>2 DEF Splits, Idle, Next1
<1>5. work = <<>>
  <2> SUFFICES ASSUME work # <<>> PROVE FALSE
    OBVIOUS
  <2>1. Head(s) = Head(work)
    BY <1>3, <1>4, HeadOfConcat
  <2>2. Head(work) \in WorkCalls
    BY InTail
  <2> QED BY <1>4, <2>1, <2>2 DEF WorkCalls
<1>6. s = left
  BY <1>3, <1>4, <1>5
<1>7. CASE plan = <<>>
  <2>1. s = rest
    BY <1>2, <1>3, <1>6, <1>7
  <2>2. Head(s) \in DetectCalls /\ Tail(s) \in Seq(DetectCalls)
    BY <1>4, <2>1, InTail
  <2>3. Settled(p) /\ \A q \in Plugins \ {p} : Settled(q)
    BY <1>1, <1>7, NothingDoable DEF Splits
  <2>4. Next1("main").op = "setDetect"
    BY <1>4, <2>2 DEF DetectCalls
  <2> QED BY <1>2, <2>2, <2>3, <2>4
<1>8. CASE plan # <<>>
  <2>1. Head(s) = Head(plan) /\ Tail(s) = Tail(plan) \o rest
    BY <1>2, <1>3, <1>6, <1>8, HeadOfConcat
  <2>2. Head(plan) \in PluginCalls /\ Tail(plan) \in Seq(PluginCalls)
    BY <1>8, InTail
  <2>3. Doing1(p, Head(plan), Tail(plan)) /\ \A q \in Plugins \ {p} : Settled(q)
    BY <1>1, <1>8, PlanFirst DEF Splits
  <2>4. Next1("main").op # "setDetect"
    BY <1>4, <2>1, <2>2 DEF PluginCalls
  <2> QED BY <1>2, <1>4, <2>1, <2>2, <2>3, <2>4
<1> QED BY <1>7, <1>8

\* What such a call makes of the main loop's stack.
LEMMA MainNext ==
    ASSUME CallsInv, MainSplits, ~Idle("main"),
           NEW p \in Plugins, NEW tail \in Seq(PluginCalls),
           NEW rest \in Seq(DetectCalls), Tail(stack["main"]) = tail \o rest,
           NEW work \in Seq(WorkCalls), NEW more \in Seq(PluginCalls),
           Then("main", work \o more), NEW plan, plan = more \o tail,
           Doable(p, plan)', \A q \in Plugins \ {p} : Settled(q)'
    PROVE  MainSplits'
<1>1. /\ work \in Seq(AnyCall) /\ more \in Seq(AnyCall) /\ tail \in Seq(AnyCall)
      /\ rest \in Seq(AnyCall) /\ tail \o rest \in Seq(AnyCall)
      /\ plan \in Seq(PluginCalls)
  BY Monotone
<1>2. stack'["main"] = (work \o more) \o (tail \o rest)
  BY MainIsThread DEF Then, CallsInv
<1>3. (work \o more) \o (tail \o rest) = work \o (more \o (tail \o rest))
  BY <1>1, Assoc
<1>4. more \o (tail \o rest) = plan \o rest
  BY <1>1, Assoc
<1>5. Splits(work, p, plan, rest)'
  BY <1>1, <1>2, <1>3, <1>4 DEF Splits
<1> QED BY <1>1, <1>5 DEF MainSplits

\* Between two handlers every plugin is settled; a handler begins.
LEMMA MainIdle ==
    ASSUME MainSplits, Idle("main") PROVE \A q \in Plugins : Settled(q)
<1>1. PICK p \in Plugins, work \in Seq(WorkCalls), plan \in Seq(PluginCalls),
           rest \in Seq(DetectCalls) : Splits(work, p, plan, rest)
  BY DEF MainSplits
<1>2. plan = <<>>
  <2>1. /\ work \in Seq(AnyCall) /\ plan \in Seq(AnyCall) /\ rest \in Seq(AnyCall)
        /\ plan \o rest \in Seq(AnyCall)
    BY Monotone
  <2>2. work \o (plan \o rest) = <<>>
    BY <1>1 DEF Splits, Idle
  <2>3. plan \o rest = <<>>
    BY <2>1, <2>2
  <2> QED BY <2>1, <2>3
<1> QED BY <1>1, <1>2, NothingDoable DEF Splits

LEMMA MainBegins ==
    ASSUME CallsInv, NEW p \in Plugins, NEW work \in Seq(WorkCalls),
           NEW plan \in Seq(PluginCalls), NEW rest \in Seq(DetectCalls),
           Begin("main", work \o (plan \o rest)),
           Doable(p, plan)', \A q \in Plugins \ {p} : Settled(q)'
    PROVE  MainSplits'
<1>1. stack'["main"] = work \o (plan \o rest)
  BY MainIsThread DEF Begin, CallsInv
<1>2. Splits(work, p, plan, rest)'
  BY <1>1 DEF Splits
<1> QED BY <1>2 DEF MainSplits

LEMMA MainSame ==
    ASSUME MainSplits, stack'["main"] = stack["main"],
           observers' = observers, running' = running
    PROVE  MainSplits'
<1>1. PICK p \in Plugins, work \in Seq(WorkCalls), plan \in Seq(PluginCalls),
           rest \in Seq(DetectCalls) : Splits(work, p, plan, rest)
  BY DEF MainSplits
<1>2. Splits(work, p, plan, rest)'
  BY <1>1, HasSame DEF Splits
<1> QED BY <1>2 DEF MainSplits

----------------------------------------------------------------------------
(***************************************************************************)
(* The steps of a plan.                                                    *)
(***************************************************************************)
Base == Typed /\ MainSplits

LEMMA CallIs ==
    ASSUME NEW op, NEW on, NEW with
    PROVE  /\ Call(op, on, with).op = op /\ Call(op, on, with).on = on
           /\ Call(op, on, with).with = with
BY DEF Call
LEMMA NotCall ==
    ASSUME NEW c, NEW op, c.op # op PROVE \A on, with : c # Call(op, on, with)
BY CallIs

AwaitNext(p, tail) ==
    Left(p) /\ tail = <<Call("setEnable", p, "on"), Joins(p)>>
EnableNext(p, tail) ==
    \/ Left(p) /\ tail = <<Joins(p)>>
    \/ /\ Has(p, {"MediaIndexer"}, TRUE) \/ Has(p, {}, FALSE)
       /\ tail = <<Going(p, "MediaIndexer", "ignore")>>
EraseNext(p, tail) == Has(p, {}, FALSE) /\ tail = <<>>

LEMMA PlanByOp ==
    ASSUME NEW p, NEW c, NEW tail, Doing1(p, c, tail)
    PROVE  /\ c.on = p
           /\ c.op = "observe" =>
                \/ /\ c = Looks(p) /\ Settled(p)
                   /\ tail = <<Call("find", p, ""), Call("await", p, ""),
                               Call("setEnable", p, "on"), Joins(p)>>
                \/ c = Joins(p) /\ Left(p) /\ tail = <<>>
           /\ c.op = "run" =>
                Has(p, {"DeviceDb"}, FALSE)
                /\ tail = <<Call("find", p, ""), Call("await", p, ""),
                            Call("setEnable", p, "on"), Joins(p)>>
           /\ c.op = "find" =>
                Left(p) /\ tail = <<Call("await", p, ""),
                                    Call("setEnable", p, "on"), Joins(p)>>
           /\ c.op = "await" => AwaitNext(p, tail)
           /\ c.op = "setEnable" => EnableNext(p, tail)
           /\ c.op = "erase" => EraseNext(p, tail)
<1>1. CASE Attaching(p, c, tail)
  <2>1. CASE c = Looks(p)
    <3>1. c.op = "observe" /\ c.on = p /\ c.with = "DeviceDb"
      BY <2>1 DEF Looks, Call
    <3>2. /\ c # Call("run", p, "") /\ c # Call("find", p, "")
          /\ c # Call("await", p, "") /\ c # Call("setEnable", p, "on")
      BY <3>1, NotCall
    <3>3. c # Joins(p)
      BY <3>1, CallIs DEF Joins
    <3> QED BY <1>1, <3>1, <3>2, <3>3 DEF Attaching, AwaitNext, EnableNext, EraseNext
  <2>2. CASE c = Joins(p)
    <3>1. c.op = "observe" /\ c.on = p /\ c.with = "MediaIndexer"
      BY <2>2 DEF Joins, Call
    <3>2. /\ c # Call("run", p, "") /\ c # Call("find", p, "")
          /\ c # Call("await", p, "") /\ c # Call("setEnable", p, "on")
      BY <3>1, NotCall
    <3>3. c # Looks(p)
      BY <3>1, CallIs DEF Looks
    <3> QED BY <1>1, <3>1, <3>2, <3>3 DEF Attaching, AwaitNext, EnableNext, EraseNext
  <2>3. CASE c # Looks(p) /\ c # Joins(p)
    <3>1. CASE c = Call("run", p, "")
      <4>1. c.op = "run" /\ c.on = p
        BY <3>1 DEF Call
      <4>2. /\ c # Call("find", p, "") /\ c # Call("await", p, "")
            /\ c # Call("setEnable", p, "on")
        BY <4>1, NotCall
      <4> QED BY <1>1, <2>3, <4>1, <4>2 DEF Attaching, AwaitNext, EnableNext, EraseNext
    <3>2. CASE c = Call("find", p, "")
      <4>1. c.op = "find" /\ c.on = p
        BY <3>2 DEF Call
      <4>2. /\ c # Call("run", p, "") /\ c # Call("await", p, "")
            /\ c # Call("setEnable", p, "on")
        BY <4>1, NotCall
      <4> QED BY <1>1, <2>3, <4>1, <4>2 DEF Attaching, AwaitNext, EnableNext, EraseNext
    <3>3. CASE c = Call("await", p, "")
      <4>1. c.op = "await" /\ c.on = p
        BY <3>3 DEF Call
      <4>2. /\ c # Call("run", p, "") /\ c # Call("find", p, "")
            /\ c # Call("setEnable", p, "on")
        BY <4>1, NotCall
      <4> QED BY <1>1, <2>3, <4>1, <4>2 DEF Attaching, AwaitNext, EnableNext, EraseNext
    <3>4. CASE c = Call("setEnable", p, "on")
      <4>1. c.op = "setEnable" /\ c.on = p
        BY <3>4 DEF Call
      <4>2. /\ c # Call("run", p, "") /\ c # Call("find", p, "")
            /\ c # Call("await", p, "")
        BY <4>1, NotCall
      <4> QED BY <1>1, <2>3, <4>1, <4>2 DEF Attaching, AwaitNext, EnableNext, EraseNext
    <3> QED BY <1>1, <2>3, <3>1, <3>2, <3>3, <3>4 DEF Attaching, AwaitNext, EnableNext, EraseNext
  <2> QED BY <2>1, <2>2, <2>3
<1>2. CASE Detaching(p, c, tail)
  <2>1. ASSUME NEW op \in {"ignore", "forget"}, NEW o, c = Going(p, o, op)
        PROVE  c.on = p /\ c.op \in {"ignore", "forget"}
    BY <2>1 DEF Going, Call
  <2>2. CASE c = Call("setEnable", p, "off")
    <3>1. c.op = "setEnable" /\ c.on = p
      BY <2>2 DEF Call
    <3>2. /\ c # Call("erase", p, "") /\ c.op \notin {"ignore", "forget"}
      BY <3>1, NotCall
    <3> QED BY <1>2, <2>1, <3>1, <3>2 DEF Detaching, AwaitNext, EnableNext, EraseNext
  <2>3. CASE c = Call("erase", p, "")
    <3>1. c.op = "erase" /\ c.on = p
      BY <2>3 DEF Call
    <3>2. /\ c # Call("setEnable", p, "off") /\ c.op \notin {"ignore", "forget"}
      BY <3>1, NotCall
    <3> QED BY <1>2, <2>1, <3>1, <3>2 DEF Detaching, AwaitNext, EnableNext, EraseNext
  <2>4. CASE c.on = p /\ c.op \in {"ignore", "forget"}
    BY <2>4
  <2> QED BY <1>2, <2>1, <2>2, <2>3, <2>4 DEF Detaching, AwaitNext, EnableNext, EraseNext
<1>3. ASSUME NEW o, NEW more, LeavingNow(p, o, c, tail, more)
      PROVE  c.on = p /\ c.op \in {"halt", "removeAll", "forget", "ignore"}
  <2>1. \/ c = Call("halt", p, "") \/ c = Call("removeAll", p, "")
        \/ c = Call("forget", p, o) \/ c = Call("ignore", p, o)
    BY <1>3 DEF LeavingNow, Going
  <2>2. ASSUME NEW op, NEW with, c = Call(op, p, with)
        PROVE  c.op = op /\ c.on = p
    BY <2>2 DEF Call
  <2>3. CASE c = Call("halt", p, "")
    BY <2>2, <2>3
  <2>4. CASE c = Call("removeAll", p, "")
    BY <2>2, <2>4
  <2>5. CASE c = Call("forget", p, o)
    BY <2>2, <2>5
  <2>6. CASE c = Call("ignore", p, o)
    BY <2>2, <2>6
  <2> QED BY <2>1, <2>3, <2>4, <2>5, <2>6
<1>4. CASE LeavingNow(p, "MediaIndexer", c, tail, <<>>)
  <2>1. c.on = p /\ c.op \in {"halt", "removeAll", "forget", "ignore"}
    BY <1>3, <1>4
  <2> QED BY <2>1
<1>5. CASE LeavingNow(p, "DeviceDb", c, tail, <<Call("erase", p, "")>>)
  <2>1. c.on = p /\ c.op \in {"halt", "removeAll", "forget", "ignore"}
    BY <1>3, <1>5
  <2> QED BY <2>1
<1> QED BY <1>1, <1>2, <1>4, <1>5 DEF Doing1

LEMMA HasOther ==
    ASSUME NEW p, observers'[p] = observers[p], p \in running' <=> p \in running
    PROVE  /\ Settled(p) => Settled(p)'
           /\ Left(p) => Left(p)'
           /\ \A who, runs : Has(p, who, runs) => Has(p, who, runs)'
BY DEF Settled, Left, Has

LEMMA MainPlans ==
    ASSUME CallsInv, MainSplits, ~Idle("main"),
           NEW p \in Plugins, NEW tail \in Seq(PluginCalls),
           NEW rest \in Seq(DetectCalls), Tail(stack["main"]) = tail \o rest,
           NEW more \in Seq(PluginCalls), Then("main", more),
           NEW plan, plan = more \o tail,
           Doable(p, plan)', \A q \in Plugins \ {p} : Settled(q)'
    PROVE  MainSplits'
<1>1. <<>> \in Seq(WorkCalls) /\ <<>> \o more = more
  OBVIOUS
<1>2. PICK none : none = <<>>
  OBVIOUS
<1>3. Then("main", none \o more) /\ none \in Seq(WorkCalls)
  BY <1>1, <1>2
<1> QED BY <1>3, MainNext

\* The call of a plan that the main loop makes next.
LEMMA MainPlan ==
    ASSUME Base, NEW t \in Threads, ~Idle(t), NEW ops, Next1(t).op \in ops,
           ops \subseteq {"observe", "ignore", "forget", "run", "halt", "find",
                          "await", "setEnable", "erase", "removeAll"}
    PROVE  /\ t = "main" /\ Next1("main") \in AnyCall
           /\ Next1("main") \in PluginCalls
           /\ \E tail \in Seq(PluginCalls), rest \in Seq(DetectCalls) :
                /\ Next1("main").on \in Plugins
                /\ Tail(stack["main"]) = tail \o rest
                /\ Doing1(Next1("main").on, Next1("main"), tail)
                /\ \A q \in Plugins \ {Next1("main").on} : Settled(q)
<1>1. CallsInv /\ MainSplits
  BY DEF Base, Typed
<1>2. Next1(t).op \notin DeviceOps /\ Next1(t).op # "checkDevices"
  BY DEF DeviceOps
<1>3. t = "main" /\ Next1(t) \in AnyCall
  BY <1>1, <1>2, OnMain
<1>4. Next1("main").op \notin WorkOps /\ Next1("main").op # "setDetect"
  BY <1>3 DEF WorkOps
<1>5. PICK p \in Plugins, tail \in Seq(PluginCalls), rest \in Seq(DetectCalls) :
        /\ Next1("main") \in PluginCalls
        /\ Tail(stack["main"]) = tail \o rest
        /\ Doing1(p, Next1("main"), tail)
        /\ \A q \in Plugins \ {p} : Settled(q)
  BY <1>1, <1>3, <1>4, MainFirst
<1>6. Next1("main").on = p
  BY <1>5, PlanByOp
<1> QED BY <1>3, <1>5, <1>6

LEMMA ObservePlan ==
    ASSUME NEW p, NEW c, NEW tail, Doing1(p, c, tail), c.op = "observe"
    PROVE  \/ c = Looks(p) /\ Settled(p)
              /\ tail = <<Call("find", p, ""), Call("await", p, ""),
                          Call("setEnable", p, "on"), Joins(p)>>
           \/ c = Joins(p) /\ Left(p) /\ tail = <<>>
<1>1. /\ c # Call("run", p, "") /\ c # Call("find", p, "")
      /\ c # Call("await", p, "") /\ c # Call("setEnable", p, "on")
  BY NotCall
<1>2. ~Detaching(p, c, tail)
  <2>1. c # Call("setEnable", p, "off") /\ c # Call("erase", p, "")
    BY NotCall
  <2>2. \A o : c # Call("ignore", p, o) /\ c # Call("forget", p, o)
    BY NotCall
  <2> QED BY <2>1, <2>2 DEF Detaching, Going
<1>3. ASSUME NEW o, NEW more PROVE ~LeavingNow(p, o, c, tail, more)
  <2>1. c # Call("halt", p, "") /\ c # Call("removeAll", p, "")
    BY NotCall
  <2>2. c # Call("ignore", p, o) /\ c # Call("forget", p, o)
    BY NotCall
  <2> QED BY <2>1, <2>2 DEF LeavingNow, Going
<1>4. Attaching(p, c, tail)
  BY <1>2, <1>3 DEF Doing1
<1> QED BY <1>1, <1>4 DEF Attaching

LEMMA OneAndOne == ASSUME NEW a, NEW b PROVE <<a>> \o <<b>> = <<a, b>>
<1> DEFINE S == {a, b}
<1>1. <<a>> \in Seq(S) /\ <<b>> \in Seq(S) /\ <<a, b>> \in Seq(S)
      /\ <<a>> \o <<b>> \in Seq(S)
  OBVIOUS
<1>2. Head(<<a>> \o <<b>>) = a /\ Tail(<<a>> \o <<b>>) = <<b>>
      /\ <<a>> \o <<b>> # <<>>
  BY <1>1, Cons, a \in S
<1>3. Head(<<a, b>>) = a /\ Tail(<<a, b>>) = <<b>> /\ <<a, b>> # <<>>
  OBVIOUS
<1> QED BY <1>1, <1>2, <1>3, SameSeq

LEMMA ObserveStep ==
    ASSUME Base, NEW t \in Threads, Observe(t)
    PROVE  /\ t = "main" /\ ~Idle("main")
           /\ \E p, o, more, tell :
                /\ p \in Plugins /\ o \in Observers /\ more \in Seq(AnyCall)
                /\ tell = IF o = "DeviceDb" THEN "record" ELSE "index"
                /\ Next1("main").op = "observe" /\ Then("main", more)
                /\ CallsOn(tell, Known(p)) \subseteq In(more)
                /\ In(more) \subseteq CallsOn(tell, Known(p))
                                  \cup CallsOn("run", {p})
                /\ observers' = [observers EXCEPT ![p] = @ \cup {o}]
           /\ CallsInv' /\ MainSplits'
<1>1. ~Idle(t) /\ Next1(t).op \in {"observe"}
  BY DEF Observe, Doing
<1>2. t = "main" /\ Next1("main") \in AnyCall
  BY <1>1, MainPlan
<1>3. PICK c, p : c = Next1("main") /\ p = Next1("main").on
  OBVIOUS
<1>4. PICK tail \in Seq(PluginCalls), rest \in Seq(DetectCalls) :
        /\ p \in Plugins /\ Tail(stack["main"]) = tail \o rest
        /\ Doing1(p, c, tail) /\ \A q \in Plugins \ {p} : Settled(q)
  BY <1>1, <1>3, MainPlan
<1>5. PICK o : o = c.with
  OBVIOUS
<1>6. o \in Observers /\ c.op = "observe"
  BY <1>1, <1>2, <1>3, <1>5, CallTypes
<1>7. PICK tell : tell = IF o = "DeviceDb" THEN "record" ELSE "index"
  OBVIOUS
<1>25. PICK none : none = ""
  OBVIOUS
<1>8. PICK work : work = Each(Known(p), tell, none)
  OBVIOUS
<1>9. PICK more : more = IF observers[p] = {} THEN <<Call("run", p, "")>> ELSE <<>>
  OBVIOUS
<1>10. /\ work \in Seq(WorkCalls) /\ work \in Seq(AnyCall)
       /\ In(work) = CallsOn(tell, Known(p))
  <2>1. /\ Known(p) \subseteq Devices /\ tell \in WorkOps
        /\ tell \in LoopOps
    BY <1>7, DevicesOf DEF WorkOps, LoopOps
  <2> QED BY <1>8, <1>25, <2>1, EachCalls
<1>11. /\ more \in Seq(PluginCalls) /\ more \in Seq(AnyCall)
       /\ In(more) \subseteq CallsOn("run", {p})
  <2>1. PICK run : run = Call("run", p, "")
    OBVIOUS
  <2>2. run \in PluginCalls /\ run.op = "run"
    BY <1>4, <2>1, PlanCalls DEF Call
  <2>3. more \in Seq(PluginCalls)
    <3>1. <<run>> \in Seq(PluginCalls) /\ <<>> \in Seq(PluginCalls)
      BY <2>2
    <3> QED BY <1>9, <2>1, <3>1
  <2>4. In(more) \subseteq {run}
    BY <1>9, <2>1, InOne, InNil
  <2>5. {run} \subseteq CallsOn("run", {p})
    BY <2>1 DEF CallsOn
  <2> QED BY <2>3, <2>4, <2>5, Monotone
<1>12. /\ Then("main", work \o more)
       /\ observers' = [observers EXCEPT ![p] = @ \cup {o}]
       /\ running' = running /\ world' = world
  <2>1. (o \notin observers[p] /\ observers[p] = {}) <=> observers[p] = {}
    OBVIOUS
  <2> QED BY <1>2, <1>3, <1>5, <1>7, <1>8, <1>9, <1>25, <2>1 DEF Observe, env
<1>13. /\ work \o more \in Seq(AnyCall)
       /\ In(work \o more) = In(work) \cup In(more)
  BY <1>10, <1>11, InConcat
<1>14. CallsInv /\ MainSplits /\ observers \in [Plugins -> SUBSET Observers]
  BY DEF Base, Typed, TypeOK
<1>15. CallsInv'
  BY <1>1, <1>2, <1>12, <1>13, <1>14, ThenCalls
<1>16. \A q \in Plugins \ {p} : Settled(q)'
  BY <1>4, <1>12, <1>14, HasOther
<1>17. observers'[p] = observers[p] \cup {o}
  BY <1>4, <1>12, <1>14
<1> DEFINE four == <<Call("find", p, ""), Call("await", p, ""),
                     Call("setEnable", p, "on"), Joins(p)>>
<1>18. \/ /\ o = "DeviceDb" /\ Settled(p) /\ tail = four
       \/ /\ o = "MediaIndexer" /\ Left(p) /\ tail = <<>>
  <2>1. \/ c = Looks(p) /\ Settled(p)
           /\ tail = <<Call("find", p, ""), Call("await", p, ""),
                       Call("setEnable", p, "on"), Joins(p)>>
        \/ c = Joins(p) /\ Left(p) /\ tail = <<>>
    BY <1>4, <1>6, ObservePlan
  <2>2. /\ c = Looks(p) => o = "DeviceDb"
        /\ c = Joins(p) => o = "MediaIndexer"
    BY <1>5 DEF Looks, Joins, Call
  <2> QED BY <1>6, <2>1, <2>2
<1>24. <<>> \o tail = tail
  OBVIOUS
<1>19. PICK plan : plan = more \o tail
  OBVIOUS
<1>20. Doable(p, plan)'
  <2>1. CASE o = "DeviceDb" /\ Has(p, {}, FALSE) /\ tail = four
    <3>1. Has(p, {"DeviceDb"}, FALSE)'
      BY <1>12, <1>17, <2>1 DEF Has
    <3>2. plan = <<Call("run", p, ""), Call("find", p, ""),
                   Call("await", p, ""), Call("setEnable", p, "on"), Joins(p)>>
      <4>1. more = <<Call("run", p, "")>>
        BY <1>9, <2>1 DEF Has
      <4> QED BY <1>19, <2>1, <4>1, OneAndFour
    <3>3. TurningOn(p, plan)'
      BY <3>1, <3>2 DEF TurningOn, Joins
    <3> QED BY <3>3 DEF Doable
  <2>2. CASE o = "DeviceDb" /\ Has(p, Observers, TRUE) /\ tail = four
    <3>1. Has(p, Observers, TRUE)'
      BY <1>12, <1>17, <2>2 DEF Has, Observers
    <3>2. plan = four
      <4>1. more = <<>>
        BY <1>9, <2>2 DEF Has, Observers
      <4> QED BY <1>19, <1>24, <2>2, <4>1
    <3>3. TurningOn(p, plan)'
      BY <3>1, <3>2 DEF TurningOn, Left, Joins
    <3> QED BY <3>3 DEF Doable
  <2>3. CASE o = "MediaIndexer" /\ Left(p) /\ tail = <<>>
    <3>1. Has(p, Observers, TRUE)'
      BY <1>12, <1>17, <2>3 DEF Left, Has, Observers
    <3>2. plan = <<>>
      <4>1. more = <<>>
        BY <1>9, <2>3 DEF Left, Has, Observers
      <4> QED BY <1>19, <2>3, <4>1
    <3> QED BY <3>1, <3>2 DEF Doable, Settled
  <2> QED BY <1>18, <2>1, <2>2, <2>3 DEF Settled
<1>21. MainSplits'
  BY <1>1, <1>2, <1>4, <1>10, <1>11, <1>12, <1>14, <1>16, <1>19, <1>20, MainNext
<1>22. CallsOn(tell, Known(p)) \subseteq In(work \o more)
  BY <1>10, <1>13
<1>23. In(work \o more) \subseteq CallsOn(tell, Known(p)) \cup CallsOn("run", {p})
  BY <1>10, <1>11, <1>13
<1> QED BY <1>1, <1>2, <1>3, <1>4, <1>6, <1>7, <1>12, <1>13, <1>15, <1>21,
           <1>22, <1>23

LEMMA CardinalityOf ==
    /\ Cardinality({}) = 0 /\ \A o : Cardinality({o}) = 1
    /\ Cardinality(Observers) = 2
<1>1. Cardinality({}) = 0 /\ \A o : IsFiniteSet({o}) /\ Cardinality({o}) = 1
  BY FS_EmptySet, FS_Singleton
<1>2. Observers = {"DeviceDb"} \cup {"MediaIndexer"}
  BY DEF Observers
<1>3. Cardinality({"DeviceDb"} \cup {"MediaIndexer"}) = 1 + 1
  BY <1>1, FS_AddElement, "MediaIndexer" \notin {"DeviceDb"}
<1> QED BY <1>1, <1>2, <1>3

\* What comes after the observer that goes last; the two ways to get there.
Rest1(p, o) == IF o = "DeviceDb" THEN <<Call("erase", p, "")>> ELSE <<>>
OffPlan(p) == <<Call("setEnable", p, "off"), Going(p, "MediaIndexer", "ignore")>>
PutPlan(p) == <<Going(p, "DeviceDb", "ignore"), Call("erase", p, "")>>
GoPlan(p, o, op, tail) ==
    \/ o = "DeviceDb" /\ Settled(p) /\ tail = OffPlan(p)
    \/ o = "MediaIndexer" /\ Settled(p) /\ tail = PutPlan(p)
    \/ /\ Has(p, {o}, op = "ignore") \/ Has(p, {}, FALSE)
       /\ tail = Rest1(p, o)

LEMMA GoingPlan ==
    ASSUME NEW p, NEW c, NEW tail, Doing1(p, c, tail),
           c.op \in {"ignore", "forget"}
    PROVE  \E o \in Observers, op \in {"ignore", "forget"} :
             c = Going(p, o, op) /\ GoPlan(p, o, op, tail)
<1>1. ~Attaching(p, c, tail)
  <2>1. /\ c # Call("run", p, "") /\ c # Call("find", p, "")
        /\ c # Call("await", p, "") /\ c # Call("setEnable", p, "on")
        /\ c # Looks(p) /\ c # Joins(p)
    BY NotCall DEF Looks, Joins
  <2> QED BY <2>1 DEF Attaching
<1>2. CASE Detaching(p, c, tail)
  <2>1. c # Call("setEnable", p, "off") /\ c # Call("erase", p, "")
    BY NotCall
  <2> QED BY <1>2, <2>1 DEF Detaching, GoPlan, OffPlan, PutPlan, Observers
<1>3. ASSUME NEW o \in Observers, NEW more, more = Rest1(p, o),
             LeavingNow(p, o, c, tail, more)
      PROVE  \E op \in {"ignore", "forget"} :
               c = Going(p, o, op) /\ GoPlan(p, o, op, tail)
  <2>1. c # Call("halt", p, "") /\ c # Call("removeAll", p, "")
    BY NotCall
  <2>2. CASE c = Going(p, o, "forget")
             /\ (Has(p, {o}, FALSE) \/ Has(p, {}, FALSE)) /\ tail = more
    <3>1. ("forget" = "ignore") = FALSE
      OBVIOUS
    <3>2. GoPlan(p, o, "forget", tail)
      BY <1>3, <2>2, <3>1 DEF GoPlan
    <3> QED BY <2>2, <3>2
  <2>3. CASE c = Going(p, o, "ignore")
             /\ (Has(p, {o}, TRUE) \/ Has(p, {}, FALSE)) /\ tail = more
    <3>1. ("ignore" = "ignore") = TRUE
      OBVIOUS
    <3>2. GoPlan(p, o, "ignore", tail)
      BY <1>3, <2>3, <3>1 DEF GoPlan
    <3> QED BY <2>3, <3>2
  <2> QED BY <1>3, <2>1, <2>2, <2>3 DEF LeavingNow
<1>4. CASE LeavingNow(p, "MediaIndexer", c, tail, <<>>)
  <2>1. Rest1(p, "MediaIndexer") = <<>> /\ "MediaIndexer" \in Observers
    BY DEF Rest1, Observers
  <2> QED BY <1>3, <1>4, <2>1
<1>5. CASE LeavingNow(p, "DeviceDb", c, tail, <<Call("erase", p, "")>>)
  <2>1. Rest1(p, "DeviceDb") = <<Call("erase", p, "")>> /\ "DeviceDb" \in Observers
    BY DEF Rest1, Observers
  <2> QED BY <1>3, <1>5, <2>1
<1> QED BY <1>1, <1>2, <1>4, <1>5 DEF Doing1

Halting(p, o, c, tail) ==
    /\ c = Call("halt", p, "") /\ Has(p, {o}, TRUE)
    /\ tail = <<Call("removeAll", p, ""), Going(p, o, "forget")>> \o Rest1(p, o)
Emptying(p, o, c, tail) ==
    /\ c = Call("removeAll", p, "") /\ Has(p, {o}, FALSE)
    /\ tail = <<Going(p, o, "forget")>> \o Rest1(p, o)
LEMMA StopPlan ==
    ASSUME NEW p, NEW c, NEW tail, Doing1(p, c, tail),
           c.op \in {"halt", "removeAll"}
    PROVE  \E o \in Observers : Halting(p, o, c, tail) \/ Emptying(p, o, c, tail)
<1>1. ~Attaching(p, c, tail)
  <2>1. /\ c # Call("run", p, "") /\ c # Call("find", p, "")
        /\ c # Call("await", p, "") /\ c # Call("setEnable", p, "on")
        /\ c # Looks(p) /\ c # Joins(p)
    BY NotCall DEF Looks, Joins
  <2> QED BY <2>1 DEF Attaching
<1>2. \A o : c # Call("ignore", p, o) /\ c # Call("forget", p, o)
  BY NotCall
<1>3. ~Detaching(p, c, tail)
  <2>1. c # Call("setEnable", p, "off") /\ c # Call("erase", p, "")
    BY NotCall
  <2> QED BY <1>2, <2>1 DEF Detaching, Going
<1>4. CASE LeavingNow(p, "MediaIndexer", c, tail, <<>>)
  <2>1. Rest1(p, "MediaIndexer") = <<>> /\ "MediaIndexer" \in Observers
    BY DEF Rest1, Observers
  <2>2. LeavingNow(p, "MediaIndexer", c, tail, Rest1(p, "MediaIndexer"))
    BY <1>4, <2>1
  <2>3. /\ c # Going(p, "MediaIndexer", "ignore")
        /\ c # Going(p, "MediaIndexer", "forget")
    BY <1>2 DEF Going
  <2> QED BY <2>1, <2>2, <2>3 DEF LeavingNow, Halting, Emptying
<1>5. CASE LeavingNow(p, "DeviceDb", c, tail, <<Call("erase", p, "")>>)
  <2>1. Rest1(p, "DeviceDb") = <<Call("erase", p, "")>> /\ "DeviceDb" \in Observers
    BY DEF Rest1, Observers
  <2>2. LeavingNow(p, "DeviceDb", c, tail, Rest1(p, "DeviceDb"))
    BY <1>5, <2>1
  <2>3. c # Going(p, "DeviceDb", "ignore") /\ c # Going(p, "DeviceDb", "forget")
    BY <1>2 DEF Going
  <2> QED BY <2>1, <2>2, <2>3 DEF LeavingNow, Halting, Emptying
<1> QED BY <1>1, <1>3, <1>4, <1>5 DEF Doing1

LEMMA LeavingDoable ==
    ASSUME NEW p, NEW o \in Observers, NEW plan
    PROVE  /\ Leaving(p, o, plan, Rest1(p, o))' => Doable(p, plan)'
           /\ (Has(p, {}, FALSE) /\ plan = Rest1(p, o))' => Doable(p, plan)'
<1>1. CASE o = "DeviceDb"
  <2>1. Rest1(p, o) = <<Call("erase", p, "")>>
    BY <1>1 DEF Rest1
  <2>2. Leaving(p, o, plan, Rest1(p, o))' =>
           Leaving(p, "DeviceDb", plan, <<Call("erase", p, "")>>)'
    BY <1>1, <2>1
  <2> QED BY <2>1, <2>2 DEF Doable, Putting
<1>2. CASE o = "MediaIndexer"
  <2>1. Rest1(p, o) = <<>>
    BY <1>2 DEF Rest1
  <2>2. Leaving(p, o, plan, Rest1(p, o))' =>
           Leaving(p, "MediaIndexer", plan, <<>>)'
    BY <1>2, <2>1
  <2> QED BY <2>1, <2>2 DEF Doable, TurningOff, Settled
<1> QED BY <1>1, <1>2 DEF Observers

LEMMA RestSeq ==
    ASSUME NEW p \in Plugins, NEW o
    PROVE  Rest1(p, o) \in Seq(PluginCalls)
<1>1. PICK erase : erase = Call("erase", p, "")
  OBVIOUS
<1>2. <<erase>> \in Seq(PluginCalls) /\ <<>> \in Seq(PluginCalls)
  <2>1. erase \in PluginCalls
    BY <1>1, PlanCalls
  <2> QED BY <2>1
<1> QED BY <1>1, <1>2 DEF Rest1

LEMMA IgnoreStep ==
    ASSUME Base, NEW t \in Threads, Ignore(t)
    PROVE  /\ t = "main" /\ ~Idle("main") /\ Next1("main").op = "ignore"
           /\ \E more \in Seq(PluginCalls) : Then("main", more)
           /\ UNCHANGED <<dev, Others>>
           /\ CallsInv' /\ MainSplits'
<1>1. ~Idle(t) /\ Next1(t).op \in {"ignore"}
  BY DEF Ignore, Doing
<1>2. t = "main" /\ Next1("main") \in AnyCall
  BY <1>1, MainPlan
<1>3. PICK c, p : c = Next1("main") /\ p = Next1("main").on
  OBVIOUS
<1>4. PICK tail \in Seq(PluginCalls), rest \in Seq(DetectCalls) :
        /\ p \in Plugins /\ Tail(stack["main"]) = tail \o rest
        /\ Doing1(p, c, tail) /\ \A q \in Plugins \ {p} : Settled(q)
  BY <1>1, <1>3, MainPlan
<1>5. c.op \in {"ignore", "forget"} /\ c.op = "ignore"
  BY <1>1, <1>2, <1>3
<1>6. PICK o \in Observers, op \in {"ignore", "forget"} :
        c = Going(p, o, op) /\ GoPlan(p, o, op, tail)
  BY <1>4, <1>5, GoingPlan
<1>7. op = "ignore" /\ c.with = o
  BY <1>5, <1>6 DEF Going, Call
<1>8. PICK halt, all, forget :
        /\ halt = Call("halt", p, "") /\ all = Call("removeAll", p, "")
        /\ forget = Call("forget", p, o)
  OBVIOUS
<1>9. halt \in PluginCalls /\ all \in PluginCalls /\ forget \in PluginCalls
  BY <1>4, <1>8, PlanCalls
<1>10. PICK first : first = IF Cardinality(observers[p]) = 1 THEN <<halt, all>>
                            ELSE <<>>
  OBVIOUS
<1>11. PICK more : more = first \o <<forget>>
  OBVIOUS
<1>12. Then("main", more) /\ UNCHANGED <<dev, Others>>
  BY <1>2, <1>3, <1>7, <1>8, <1>10, <1>11 DEF Ignore
<1>13. more = IF Cardinality(observers[p]) = 1 THEN <<halt, all, forget>>
              ELSE <<forget>>
  <2>1. <<>> \o <<forget>> = <<forget>>
    OBVIOUS
  <2> QED BY <1>10, <1>11, <2>1, TwoAndOne
<1>14. more \in Seq(PluginCalls)
  <2>1. <<halt, all, forget>> \in Seq(PluginCalls) /\ <<forget>> \in Seq(PluginCalls)
    BY <1>9
  <2> QED BY <1>13, <2>1
<1>15. CallsInv /\ MainSplits /\ observers' = observers /\ running' = running
       /\ world' = world /\ more \in Seq(AnyCall)
  BY <1>12, <1>14, Monotone DEF Base, Typed, Others, env
<1>16. CallsInv'
  BY <1>1, <1>2, <1>12, <1>15, ThenCalls
<1>17. PICK plan : plan = more \o tail
  OBVIOUS
<1>18. /\ \A q \in Plugins \ {p} : Settled(q)'
       /\ Settled(p) => Settled(p)'
       /\ \A who, runs : Has(p, who, runs) => Has(p, who, runs)'
  BY <1>4, <1>15, HasSame
<1>19. Doable(p, plan)'
  <2>1. ASSUME Settled(p) PROVE more = <<forget>>
    <3>1. observers[p] = {} \/ observers[p] = Observers
      BY <2>1 DEF Settled, Has
    <3>2. Cardinality(observers[p]) # 1
      <4>1. Cardinality(observers[p]) \in {0, 2}
        <5>1. CASE observers[p] = {}
          <6>1. Cardinality(observers[p]) = 0
            BY <5>1, CardinalityOf, Zenon
          <6> QED BY <6>1
        <5>2. CASE observers[p] = Observers
          <6>1. Cardinality(observers[p]) = 2
            BY <5>2, CardinalityOf, Zenon
          <6> QED BY <6>1
        <5> QED BY <3>1, <5>1, <5>2
      <4> QED BY <4>1
    <3> QED BY <1>13, <3>2
  <2>2. CASE o = "DeviceDb" /\ Settled(p) /\ tail = OffPlan(p)
    <3>1. plan = <<Going(p, "DeviceDb", "forget"), Call("setEnable", p, "off"),
                   Going(p, "MediaIndexer", "ignore")>>
      BY <1>8, <1>17, <2>1, <2>2, OneAndTwo DEF OffPlan, Going
    <3>2. TurningOff(p, plan)'
      BY <1>18, <2>2, <3>1 DEF TurningOff, Going
    <3> QED BY <3>2 DEF Doable
  <2>3. CASE o = "MediaIndexer" /\ Settled(p) /\ tail = PutPlan(p)
    <3>1. plan = <<Going(p, "MediaIndexer", "forget"),
                   Going(p, "DeviceDb", "ignore"), Call("erase", p, "")>>
      BY <1>8, <1>17, <2>1, <2>3, OneAndTwo DEF PutPlan, Going
    <3>2. Putting(p, plan)'
      BY <1>18, <2>3, <3>1 DEF Putting, Going
    <3> QED BY <3>2 DEF Doable
  <2>4. CASE Has(p, {o}, TRUE) /\ tail = Rest1(p, o)
    <3>1. more = <<halt, all, forget>>
      BY <1>13, <2>4, CardinalityOf DEF Has
    <3>2. plan = <<Call("halt", p, ""), Call("removeAll", p, ""),
                   Going(p, o, "forget")>> \o Rest1(p, o)
      BY <1>8, <1>17, <2>4, <3>1 DEF Going
    <3>3. Leaving(p, o, plan, Rest1(p, o))'
      BY <1>18, <2>4, <3>2 DEF Leaving, Going, Rest1
    <3> QED BY <3>3, LeavingDoable
  <2>5. CASE Has(p, {}, FALSE) /\ tail = Rest1(p, o)
    <3>1. more = <<forget>>
      BY <1>13, <2>5, CardinalityOf DEF Has
    <3>2. plan = <<Going(p, o, "forget")>> \o Rest1(p, o)
      BY <1>8, <1>17, <2>5, <3>1 DEF Going
    <3>3. Leaving(p, o, plan, Rest1(p, o))'
      BY <1>18, <2>5, <3>2 DEF Leaving, Going, Rest1
    <3> QED BY <3>3, LeavingDoable
  <2>6. (op = "ignore") = TRUE
    BY <1>7
  <2> QED BY <1>6, <2>2, <2>3, <2>4, <2>5, <2>6 DEF GoPlan
<1>20. MainSplits'
  BY <1>1, <1>2, <1>4, <1>12, <1>14, <1>15, <1>17, <1>18, <1>19, MainPlans
<1> QED BY <1>1, <1>2, <1>12, <1>14, <1>16, <1>20

LEMMA ForgetStep ==
    ASSUME Base, NEW t \in Threads, Forget(t)
    PROVE  /\ t = "main" /\ ~Idle("main") /\ Next1("main").op = "forget"
           /\ Then("main", <<>>)
           /\ \E p \in Plugins, o \in Observers :
                observers' = [observers EXCEPT ![p] = @ \ {o}]
           /\ CallsInv' /\ MainSplits'
<1>1. ~Idle(t) /\ Next1(t).op \in {"forget"}
  BY DEF Forget, Doing
<1>2. t = "main" /\ Next1("main") \in AnyCall
  BY <1>1, MainPlan
<1>3. PICK c, p : c = Next1("main") /\ p = Next1("main").on
  OBVIOUS
<1>4. PICK tail \in Seq(PluginCalls), rest \in Seq(DetectCalls) :
        /\ p \in Plugins /\ Tail(stack["main"]) = tail \o rest
        /\ Doing1(p, c, tail) /\ \A q \in Plugins \ {p} : Settled(q)
  BY <1>1, <1>3, MainPlan
<1>5. c.op \in {"ignore", "forget"} /\ c.op = "forget"
  BY <1>1, <1>2, <1>3
<1>6. PICK o \in Observers, op \in {"ignore", "forget"} :
        c = Going(p, o, op) /\ GoPlan(p, o, op, tail)
  BY <1>4, <1>5, GoingPlan
<1>7. op = "forget" /\ c.with = o
  BY <1>5, <1>6 DEF Going, Call
<1>8. /\ Then("main", <<>>) /\ running' = running /\ world' = world
      /\ observers' = [observers EXCEPT ![p] = @ \ {o}]
  BY <1>2, <1>3, <1>7 DEF Forget, env
<1>9. /\ CallsInv /\ MainSplits /\ observers \in [Plugins -> SUBSET Observers]
      /\ <<>> \in Seq(AnyCall) /\ <<>> \in Seq(PluginCalls)
  BY DEF Base, Typed, TypeOK
<1>10. CallsInv'
  <2>1. PICK more : more = <<>>
    OBVIOUS
  <2>2. more \in Seq(AnyCall) /\ Then("main", more)
    BY <1>8, <1>9, <2>1
  <2> QED BY <1>1, <1>2, <1>8, <1>9, <2>2, ThenCalls
<1>11. observers'[p] = observers[p] \ {o}
  BY <1>4, <1>8, <1>9
<1>12. \A q \in Plugins \ {p} : Settled(q)'
  BY <1>4, <1>8, <1>9, HasOther
<1>13. Doable(p, tail)'
  <2>1. Has(p, {}, FALSE) \/ Has(p, {o}, FALSE) => Has(p, {}, FALSE)'
    BY <1>8, <1>11 DEF Has
  <2>2. CASE o = "DeviceDb" /\ Settled(p) /\ tail = OffPlan(p)
    <3>1. Has(p, {"MediaIndexer"}, TRUE)' \/ Has(p, {}, FALSE)'
      BY <1>8, <1>11, <2>2 DEF Settled, Has, Observers
    <3>2. TurningOff(p, tail)'
      BY <2>2, <3>1 DEF TurningOff, OffPlan, Going
    <3> QED BY <3>2 DEF Doable
  <2>3. CASE o = "MediaIndexer" /\ Settled(p) /\ tail = PutPlan(p)
    <3>1. Has(p, {"DeviceDb"}, TRUE)' \/ Has(p, {}, FALSE)'
      BY <1>8, <1>11, <2>3 DEF Settled, Has, Observers
    <3>2. Rest1(p, "DeviceDb") = <<Call("erase", p, "")>>
      BY DEF Rest1
    <3>3. tail = <<Going(p, "DeviceDb", "ignore")>> \o <<Call("erase", p, "")>>
      BY <2>3, OneAndOne DEF PutPlan
    <3>4. Leaving(p, "DeviceDb", tail, <<Call("erase", p, "")>>)'
      BY <3>1, <3>3 DEF Leaving, Going
    <3> QED BY <3>4 DEF Doable, Putting
  <2>4. CASE (Has(p, {o}, FALSE) \/ Has(p, {}, FALSE)) /\ tail = Rest1(p, o)
    BY <2>1, <2>4, LeavingDoable
  <2>5. (op = "ignore") = FALSE
    BY <1>7
  <2> QED BY <1>6, <2>2, <2>3, <2>4, <2>5 DEF GoPlan
<1>14. MainSplits'
  <2>1. PICK more : more = <<>>
    OBVIOUS
  <2>2. more \in Seq(PluginCalls) /\ Then("main", more) /\ tail = more \o tail
    BY <1>8, <1>9, <2>1
  <2> QED BY <1>1, <1>2, <1>4, <1>9, <1>12, <1>13, <2>2, MainPlans
<1> QED BY <1>1, <1>2, <1>4, <1>8, <1>10, <1>14

\* Calls on devices that come before what is left of a plan.
LEMMA MainWorks ==
    ASSUME CallsInv, MainSplits, ~Idle("main"), world' = world,
           NEW p \in Plugins, NEW tail \in Seq(PluginCalls),
           NEW rest \in Seq(DetectCalls), Tail(stack["main"]) = tail \o rest,
           NEW work \in Seq(WorkCalls), Then("main", work),
           Doable(p, tail)', \A q \in Plugins \ {p} : Settled(q)'
    PROVE  CallsInv' /\ MainSplits'
<1>1. PICK none : none = <<>>
  OBVIOUS
<1>2. none \in Seq(PluginCalls) /\ work \o none = work /\ tail = none \o tail
  BY <1>1
<1>3. work \in Seq(AnyCall)
  BY Monotone
<1>4. CallsInv'
  BY <1>3, MainIsThread, ThenCalls
<1>5. Then("main", work \o none)
  BY <1>2
<1> QED BY <1>2, <1>4, <1>5, MainNext

LEMMA HaltStep ==
    ASSUME Base, NEW t \in Threads, Halt(t)
    PROVE  /\ t = "main" /\ ~Idle("main") /\ Next1("main").op = "halt"
           /\ \E p \in Plugins, more \in Seq(AnyCall) :
                /\ Next1("main") = Call("halt", p, "")
                /\ Then("main", more) /\ running' = running \ {p}
                /\ In(more) = IF p = "storage"
                              THEN CallsOn("remove", Of("storage")) ELSE {}
           /\ CallsInv' /\ MainSplits'
<1>1. ~Idle(t) /\ Next1(t).op \in {"halt"}
  BY DEF Halt, Doing
<1>2. t = "main" /\ Next1("main") \in AnyCall
  BY <1>1, MainPlan
<1>3. PICK c, p : c = Next1("main") /\ p = Next1("main").on
  OBVIOUS
<1>4. PICK tail \in Seq(PluginCalls), rest \in Seq(DetectCalls) :
        /\ p \in Plugins /\ Tail(stack["main"]) = tail \o rest
        /\ Doing1(p, c, tail) /\ \A q \in Plugins \ {p} : Settled(q)
  BY <1>1, <1>3, MainPlan
<1>5. c.op \in {"halt", "removeAll"} /\ c.op = "halt"
  BY <1>1, <1>2, <1>3
<1>6. c # Call("removeAll", p, "")
  BY <1>5, NotCall
<1>7. PICK o \in Observers :
        /\ c = Call("halt", p, "") /\ Has(p, {o}, TRUE)
        /\ tail = <<Call("removeAll", p, ""), Going(p, o, "forget")>>
                    \o Rest1(p, o)
  <2>1. ~\E o \in Observers : Emptying(p, o, c, tail)
    BY <1>6 DEF Emptying
  <2>2. PICK o \in Observers : Halting(p, o, c, tail)
    BY <1>4, <1>5, <2>1, StopPlan
  <2> QED BY <2>2 DEF Halting
<1>8. PICK none : none = ""
  OBVIOUS
<1>9. PICK all : all = Each(Of("storage"), "remove", none)
  OBVIOUS
<1>10. all \in Seq(WorkCalls) /\ In(all) = CallsOn("remove", Of("storage"))
  BY <1>8, <1>9, DevicesOf, EachCalls DEF LoopOps, WorkOps
<1>11. PICK more : more = IF p = "storage" THEN all ELSE <<>>
  OBVIOUS
<1>12. /\ more \in Seq(WorkCalls) /\ more \in Seq(AnyCall)
       /\ In(more) = IF p = "storage" THEN CallsOn("remove", Of("storage"))
                     ELSE {}
  <2>1. <<>> \in Seq(WorkCalls)
    OBVIOUS
  <2> QED BY <1>10, <1>11, <2>1, InNil, Monotone
<1>13. /\ Then("main", more) /\ running' = running \ {p}
       /\ observers' = observers /\ world' = world
  BY <1>2, <1>3, <1>8, <1>9, <1>11 DEF Halt, env
<1>14. CallsInv /\ MainSplits
  BY DEF Base, Typed
<1>15. \A q \in Plugins \ {p} : Settled(q)'
  BY <1>4, <1>13, HasOther
<1>16. Has(p, {o}, FALSE)'
  BY <1>7, <1>13 DEF Has
<1>17. Leaving(p, o, tail, Rest1(p, o))'
  BY <1>7, <1>16 DEF Leaving, Going
<1>18. Doable(p, tail)'
  BY <1>17, LeavingDoable
<1>19. CallsInv' /\ MainSplits'
  BY <1>1, <1>2, <1>4, <1>12, <1>13, <1>14, <1>15, <1>18, MainWorks
<1> QED BY <1>1, <1>2, <1>3, <1>4, <1>7, <1>12, <1>13, <1>19

LEMMA RemoveAllStep ==
    ASSUME Base, NEW t \in Threads, RemoveAll(t)
    PROVE  /\ t = "main" /\ ~Idle("main") /\ Next1("main").op = "removeAll"
           /\ \E p \in Plugins, more \in Seq(AnyCall) :
                /\ Next1("main") = Call("removeAll", p, "")
                /\ Then("main", more)
                /\ In(more) = CallsOn("remove", Known(p))
                /\ p \notin running
           /\ UNCHANGED <<dev, Others>>
           /\ CallsInv' /\ MainSplits'
<1>1. ~Idle(t) /\ Next1(t).op \in {"removeAll"}
  BY DEF RemoveAll, Doing
<1>2. t = "main" /\ Next1("main") \in AnyCall
  BY <1>1, MainPlan
<1>3. PICK c, p : c = Next1("main") /\ p = Next1("main").on
  OBVIOUS
<1>4. PICK tail \in Seq(PluginCalls), rest \in Seq(DetectCalls) :
        /\ p \in Plugins /\ Tail(stack["main"]) = tail \o rest
        /\ Doing1(p, c, tail) /\ \A q \in Plugins \ {p} : Settled(q)
  BY <1>1, <1>3, MainPlan
<1>5. c.op \in {"halt", "removeAll"} /\ c.op = "removeAll"
  BY <1>1, <1>2, <1>3
<1>6. c # Call("halt", p, "")
  BY <1>5, NotCall
<1>7. PICK o \in Observers :
        /\ c = Call("removeAll", p, "") /\ Has(p, {o}, FALSE)
        /\ tail = <<Going(p, o, "forget")>> \o Rest1(p, o)
  <2>1. ~\E o \in Observers : Halting(p, o, c, tail)
    BY <1>6 DEF Halting
  <2>2. PICK o \in Observers : Emptying(p, o, c, tail)
    BY <1>4, <1>5, <2>1, StopPlan
  <2> QED BY <2>2 DEF Emptying
<1>8. PICK none : none = ""
  OBVIOUS
<1>9. PICK more : more = Each(Known(p), "remove", none)
  OBVIOUS
<1>10. more \in Seq(WorkCalls) /\ In(more) = CallsOn("remove", Known(p))
  <2>1. Known(p) \subseteq Devices
    BY DevicesOf
  <2> QED BY <1>8, <1>9, <2>1, EachCalls DEF LoopOps, WorkOps
<1>11. Then("main", more) /\ UNCHANGED <<dev, Others>>
  BY <1>2, <1>3, <1>8, <1>9 DEF RemoveAll
<1>12. /\ observers' = observers /\ running' = running /\ world' = world
       /\ CallsInv /\ MainSplits /\ more \in Seq(AnyCall)
  BY <1>10, <1>11, Monotone DEF Others, env, Base, Typed
<1>13. \A q \in Plugins \ {p} : Settled(q)'
  BY <1>4, <1>12, HasOther
<1>14. Has(p, {o}, FALSE)' /\ p \notin running
  BY <1>7, <1>12 DEF Has
<1>15. Leaving(p, o, tail, Rest1(p, o))'
  BY <1>7, <1>14 DEF Leaving, Going
<1>16. Doable(p, tail)'
  BY <1>15, LeavingDoable
<1>17. CallsInv' /\ MainSplits'
  BY <1>1, <1>2, <1>4, <1>10, <1>11, <1>12, <1>13, <1>16, MainWorks
<1> QED BY <1>1, <1>2, <1>3, <1>4, <1>7, <1>10, <1>11, <1>12, <1>14, <1>17

\* A call for each member of a set, by what it is.
LEMMA ForEach ==
    ASSUME NEW S, IsFiniteSet(S), NEW s, s = Sq!SetToSeq(S),
           NEW C, NEW g \in [S -> C],
           NEW r, r = [i \in DOMAIN s |-> g[s[i]]]
    PROVE  r \in Seq(C) /\ In(r) = {g[x] : x \in S}
<1>1. /\ s \in Seq(S) /\ In(s) = S /\ DOMAIN s = 1 .. Len(s)
      /\ Len(s) \in Nat
  BY ListedAll
<1>2. \A i \in 1 .. Len(s) : s[i] \in S
  BY <1>1
<1>3. r = [i \in 1 .. Len(s) |-> g[s[i]]] /\ \A i \in 1 .. Len(s) : g[s[i]] \in C
  BY <1>1, <1>2
<1>4. r \in Seq(C)
  BY <1>1, <1>3
<1>5. In(r) = {g[x] : x \in S}
  <2>1. ASSUME NEW x \in S PROVE g[x] \in In(r)
    <3>1. PICK i \in 1 .. Len(s) : s[i] = x
      BY <1>1 DEF In
    <3>2. r[i] = g[x] /\ i \in DOMAIN r
      BY <1>3, <3>1
    <3> QED BY <3>2 DEF In
  <2>2. ASSUME NEW y \in In(r) PROVE \E x \in S : y = g[x]
    <3>1. PICK i \in 1 .. Len(s) : y = g[s[i]]
      BY <1>3 DEF In
    <3> QED BY <1>2, <3>1
  <2> QED BY <2>1, <2>2
<1> QED BY <1>4, <1>5

LEMMA AddCalls ==
    ASSUME NEW d \in Devices, NEW m \in Mounts \cup {NoMount}
    PROVE  /\ Call("add", d, m) \in WorkCalls
           /\ Call("add", d, m).op = "add" /\ Call("add", d, m).on = d
           /\ Call("add", d, m).with = m
<1>1. Call("add", d, m) \in DeviceCalls
  BY DEF Call, DeviceCalls
<1> QED BY <1>1, CallIs DEF WorkCalls, WorkOps

LEMMA PathIs == ASSUME NEW d \in Devices PROVE PathOf(d) \in Mounts /\ PathOf(d) \in Places[d]
<1>1. Places[d] \subseteq Mounts /\ Places[d] # {}
  BY PlacesAssumption
<1> QED BY <1>1 DEF PathOf

\* The devices that a plugin hears of at once when its detection starts.
Starts(p) ==
    IF p \in OnPdm THEN {Call("add", mounted[m], m) : m \in MountsOf(p)}
    ELSE IF p = "storage" THEN {Call("add", d, PathOf(d)) : d \in Of(p)}
    ELSE {}

LEMMA PathAdds ==
    ASSUME NEW p, NEW s, s = Sq!SetToSeq(Of(p)), NEW more,
           more = [i \in DOMAIN s |-> Call("add", s[i], PathOf(s[i]))]
    PROVE  /\ more \in Seq(WorkCalls)
           /\ In(more) = {Call("add", d, PathOf(d)) : d \in Of(p)}
<1>1. Of(p) \subseteq Devices /\ IsFiniteSet(Of(p))
  BY DevicesOf
<1>2. PICK g : g = [d \in Of(p) |-> Call("add", d, PathOf(d))]
  OBVIOUS
<1>3. ASSUME NEW d \in Of(p) PROVE Call("add", d, PathOf(d)) \in WorkCalls
  BY <1>1, PathIs, AddCalls
<1>4. g \in [Of(p) -> WorkCalls]
  BY <1>2, <1>3
<1>5. s \in Seq(Of(p)) /\ DOMAIN s = 1 .. Len(s)
  BY <1>1, ListedAll
<1>6. \A i \in DOMAIN s : g[s[i]] = Call("add", s[i], PathOf(s[i]))
  BY <1>2, <1>5
<1>7. more = [i \in DOMAIN s |-> g[s[i]]]
  BY <1>6
<1>8. IsFiniteSet(Of(p))
  BY <1>1
<1>9. more \in Seq(WorkCalls) /\ In(more) = {g[x] : x \in Of(p)}
  BY <1>4, <1>7, <1>8, ForEach
<1> QED BY <1>2, <1>9

LEMMA StartsIs ==
    ASSUME TypeOK, NEW p, NEW m, m = Sq!SetToSeq(MountsOf(p)), NEW more,
           more = IF p \in OnPdm
                  THEN [i \in DOMAIN m |-> Call("add", mounted[m[i]], m[i])]
                  ELSE IF p = "storage"
                  THEN LET s == Sq!SetToSeq(Of(p)) IN
                       [i \in DOMAIN s |-> Call("add", s[i], PathOf(s[i]))]
                  ELSE <<>>
    PROVE  more \in Seq(WorkCalls) /\ In(more) = Starts(p)
<1>1. CASE p \in OnPdm
  <2>1. MountsOf(p) \subseteq Mounts /\ MountsOf(p) \subseteq DOMAIN mounted
    BY DEF TypeOK, MountsOf
  <2>2. IsFiniteSet(MountsOf(p))
    BY <2>1, FiniteAssumption, FS_Subset
  <2>3. PICK g : g = [x \in MountsOf(p) |-> Call("add", mounted[x], x)]
    OBVIOUS
  <2>4. ASSUME NEW x \in MountsOf(p) PROVE Call("add", mounted[x], x) \in WorkCalls
    BY <2>1, AddCalls DEF TypeOK
  <2>5. g \in [MountsOf(p) -> WorkCalls]
    BY <2>3, <2>4
  <2>6. m \in Seq(MountsOf(p)) /\ DOMAIN m = 1 .. Len(m)
    BY <2>2, ListedAll
  <2>7. more = [i \in DOMAIN m |-> g[m[i]]]
    BY <1>1, <2>3, <2>6
  <2>8. more \in Seq(WorkCalls) /\ In(more) = {g[x] : x \in MountsOf(p)}
    BY <2>2, <2>5, <2>7, ForEach
  <2> QED BY <1>1, <2>3, <2>8 DEF Starts
<1>2. CASE p \notin OnPdm /\ p = "storage"
  <2>1. PICK s : s = Sq!SetToSeq(Of(p))
    OBVIOUS
  <2>2. more = [i \in DOMAIN s |-> Call("add", s[i], PathOf(s[i]))]
    BY <1>2, <2>1
  <2>3. more \in Seq(WorkCalls) /\ In(more) = {Call("add", d, PathOf(d)) : d \in Of(p)}
    BY <2>1, <2>2, PathAdds
  <2> QED BY <1>2, <2>3 DEF Starts
<1>3. CASE p \notin OnPdm /\ p # "storage"
  <2>1. more = <<>>
    BY <1>3
  <2> QED BY <1>3, <2>1, InNil DEF Starts
<1> QED BY <1>1, <1>2, <1>3

LEMMA RunStep ==
    ASSUME Base, NEW t \in Threads, Run(t)
    PROVE  /\ t = "main" /\ ~Idle("main") /\ Next1("main").op = "run"
           /\ \E p \in Plugins, more \in Seq(AnyCall) :
                /\ Next1("main").on = p /\ Has(p, {"DeviceDb"}, FALSE)
                /\ Then("main", more) /\ running' = running \cup {p}
                /\ In(more) = Starts(p)
           /\ CallsInv' /\ MainSplits'
<1>1. ~Idle(t) /\ Next1(t).op \in {"run"}
  BY DEF Run, Doing
<1>2. t = "main" /\ Next1("main") \in AnyCall
  BY <1>1, MainPlan
<1>3. PICK c, p : c = Next1("main") /\ p = Next1("main").on
  OBVIOUS
<1>4. PICK tail \in Seq(PluginCalls), rest \in Seq(DetectCalls) :
        /\ p \in Plugins /\ Tail(stack["main"]) = tail \o rest
        /\ Doing1(p, c, tail) /\ \A q \in Plugins \ {p} : Settled(q)
  BY <1>1, <1>3, MainPlan
<1>5. c.op = "run"
  BY <1>1, <1>2, <1>3
<1>6. /\ Has(p, {"DeviceDb"}, FALSE)
      /\ tail = <<Call("find", p, ""), Call("await", p, ""),
                  Call("setEnable", p, "on"), Joins(p)>>
  BY <1>4, <1>5, PlanByOp
<1>7. PICK m : m = Sq!SetToSeq(MountsOf(p))
  OBVIOUS
<1>8. PICK more :
        more = IF p \in OnPdm
               THEN [i \in DOMAIN m |-> Call("add", mounted[m[i]], m[i])]
               ELSE IF p = "storage"
               THEN LET s == Sq!SetToSeq(Of(p)) IN
                    [i \in DOMAIN s |-> Call("add", s[i], PathOf(s[i]))]
               ELSE <<>>
  OBVIOUS
<1>9. more \in Seq(WorkCalls) /\ In(more) = Starts(p) /\ more \in Seq(AnyCall)
  BY <1>7, <1>8, StartsIs, Monotone DEF Base, Typed
<1>10. Then("main", more)
  BY <1>2, <1>3, <1>7, <1>8 DEF Run
<1>11. /\ running' = running \cup {p} /\ observers' = observers
       /\ world' = world /\ CallsInv /\ MainSplits
  BY <1>2, <1>3 DEF Run, env, Base, Typed
<1>12. \A q \in Plugins \ {p} : Settled(q)'
  BY <1>4, <1>11, HasOther
<1>13. Left(p)'
  BY <1>6, <1>11 DEF Has, Left
<1>14. TurningOn(p, tail)'
  BY <1>6, <1>13 DEF TurningOn, Joins
<1>15. Doable(p, tail)'
  BY <1>14 DEF Doable
<1>16. CallsInv' /\ MainSplits'
  BY <1>1, <1>2, <1>4, <1>9, <1>10, <1>11, <1>12, <1>15, MainWorks
<1> QED BY <1>1, <1>2, <1>3, <1>4, <1>5, <1>6, <1>9, <1>10, <1>11, <1>16

\* A call that leaves nothing to be done but the rest of the plan.
LEMMA MainDone ==
    ASSUME CallsInv, MainSplits, ~Idle("main"), world' = world,
           NEW p \in Plugins, NEW tail \in Seq(PluginCalls),
           NEW rest \in Seq(DetectCalls), Tail(stack["main"]) = tail \o rest,
           Then("main", <<>>),
           Doable(p, tail)', \A q \in Plugins \ {p} : Settled(q)'
    PROVE  CallsInv' /\ MainSplits'
<1>1. PICK none : none = <<>>
  OBVIOUS
<1>2. none \in Seq(WorkCalls) /\ Then("main", none)
  BY <1>1
<1> QED BY <1>2, MainWorks

LEMMA NextDoable ==
    ASSUME NEW p, NEW tail, observers' = observers, running' = running
    PROVE  /\ AwaitNext(p, tail) => Doable(p, tail)'
           /\ EnableNext(p, tail) => Doable(p, tail)'
           /\ EraseNext(p, tail) => Doable(p, tail)'
<1>1. /\ \A who, runs : Has(p, who, runs) <=> Has(p, who, runs)'
      /\ Left(p) <=> Left(p)'
  BY HasSame
<1>2. ASSUME AwaitNext(p, tail) PROVE Doable(p, tail)'
  <2>1. TurningOn(p, tail)'
    BY <1>1, <1>2 DEF AwaitNext, TurningOn, Joins
  <2> QED BY <2>1 DEF Doable
<1>3. ASSUME Left(p), tail = <<Joins(p)>> PROVE Doable(p, tail)'
  <2>1. TurningOn(p, tail)'
    BY <1>1, <1>3 DEF TurningOn, Joins
  <2> QED BY <2>1 DEF Doable
<1>4. ASSUME Has(p, {"MediaIndexer"}, TRUE) \/ Has(p, {}, FALSE),
             tail = <<Going(p, "MediaIndexer", "ignore")>>
      PROVE  Doable(p, tail)'
  <2>1. Has(p, {"MediaIndexer"}, TRUE)' \/ Has(p, {}, FALSE)'
    BY <1>1, <1>4
  <2>2. tail = <<Going(p, "MediaIndexer", "ignore")>> \o <<>>
    BY <1>4
  <2>3. Leaving(p, "MediaIndexer", tail, <<>>)'
    BY <2>1, <2>2 DEF Leaving, Going
  <2> QED BY <2>3 DEF Doable, TurningOff
<1>5. ASSUME EraseNext(p, tail) PROVE Doable(p, tail)'
  BY <1>1, <1>5 DEF EraseNext, Doable, Settled
<1> QED BY <1>2, <1>3, <1>4, <1>5 DEF EnableNext

LEMMA SmallSteps ==
    ASSUME Base, NEW t \in Threads, Await(t) \/ SetEnable(t) \/ Erase(t)
    PROVE  /\ t = "main" /\ ~Idle("main") /\ Then("main", <<>>)
           /\ Next1("main").op \in {"await", "setEnable", "erase"}
           /\ CallsInv' /\ MainSplits'
<1>1. ~Idle(t) /\ Next1(t).op \in {"await", "setEnable", "erase"}
  BY DEF Await, SetEnable, Erase, Doing
<1>2. t = "main" /\ Next1("main") \in AnyCall
  BY <1>1, MainPlan
<1>3. PICK c, p : c = Next1("main") /\ p = Next1("main").on
  OBVIOUS
<1>4. PICK tail \in Seq(PluginCalls), rest \in Seq(DetectCalls) :
        /\ p \in Plugins /\ Tail(stack["main"]) = tail \o rest
        /\ Doing1(p, c, tail) /\ \A q \in Plugins \ {p} : Settled(q)
  BY <1>1, <1>3, MainPlan
<1>5. c.op \in {"await", "setEnable", "erase"}
  BY <1>1, <1>2, <1>3
<1>6. /\ c.op = "await" => AwaitNext(p, tail)
      /\ c.op = "setEnable" => EnableNext(p, tail)
      /\ c.op = "erase" => EraseNext(p, tail)
  BY <1>4, PlanByOp
<1>7. /\ observers' = observers /\ running' = running /\ world' = world
      /\ Then("main", <<>>) /\ CallsInv /\ MainSplits
  BY <1>2 DEF Await, SetEnable, Erase, Others, env, Base, Typed
<1>8. Doable(p, tail)'
  BY <1>5, <1>6, <1>7, NextDoable
<1>9. \A q \in Plugins \ {p} : Settled(q)'
  BY <1>4, <1>7, HasOther
<1>10. CallsInv' /\ MainSplits'
  BY <1>1, <1>2, <1>4, <1>7, <1>8, <1>9, MainDone
<1> QED BY <1>1, <1>2, <1>7, <1>10

LEMMA SetDetectStep ==
    ASSUME Base, NEW t \in Threads, SetDetect(t)
    PROVE  /\ t = "main" /\ ~Idle("main") /\ Next1("main").op = "setDetect"
           /\ \E more \in Seq(PluginCalls) : Then("main", more)
           /\ UNCHANGED <<dev, Others>>
           /\ CallsInv' /\ MainSplits'
<1>1. ~Idle(t) /\ Next1(t).op = "setDetect"
  BY DEF SetDetect, Doing
<1>2. CallsInv /\ MainSplits
  BY DEF Base, Typed
<1>3. t = "main" /\ Next1("main") \in AnyCall /\ Next1("main").on \in Plugins
  <2>1. Next1(t).op \notin DeviceOps /\ Next1(t).op # "checkDevices"
    BY <1>1 DEF DeviceOps
  <2> QED BY <1>1, <1>2, <2>1, OnMain
<1>4. PICK c, p : c = Next1("main") /\ p = Next1("main").on
  OBVIOUS
<1>5. p \in Plugins /\ c.with \in {"on", "off"}
  BY <1>1, <1>3, <1>4, CallTypes
<1>6. /\ Tail(stack["main"]) \in Seq(DetectCalls)
      /\ \A q \in Plugins : Settled(q)
  <2>1. Next1("main").op \notin WorkOps
    BY <1>1, <1>3 DEF WorkOps
  <2> QED BY <1>1, <1>2, <1>3, <2>1, MainFirst
<1>7. PICK more :
        more = IF p \notin plugins THEN <<>>
               ELSE IF c.with = "on"
               THEN <<Call("observe", p, "DeviceDb"),
                      Call("find", p, ""), Call("await", p, ""),
                      Call("setEnable", p, "on"),
                      Call("observe", p, "MediaIndexer")>>
               ELSE <<Call("ignore", p, "DeviceDb"),
                      Call("setEnable", p, "off"),
                      Call("ignore", p, "MediaIndexer")>>
  OBVIOUS
<1>8. Then("main", more) /\ UNCHANGED <<dev, Others>>
  BY <1>3, <1>4, <1>7 DEF SetDetect
<1>9. observers' = observers /\ running' = running /\ world' = world
  BY <1>8 DEF Others, env
<1>10. \A q \in Plugins : Settled(q)'
  BY <1>6, <1>9, HasSame
<1>11. Doable(p, more)'
  <2>1. CASE more = <<>>
    BY <1>5, <1>10, <2>1 DEF Doable
  <2>2. CASE more = <<Call("observe", p, "DeviceDb"),
                      Call("find", p, ""), Call("await", p, ""),
                      Call("setEnable", p, "on"),
                      Call("observe", p, "MediaIndexer")>>
    <3>1. TurningOn(p, more)'
      BY <1>5, <1>10, <2>2 DEF TurningOn, Looks, Joins
    <3> QED BY <3>1 DEF Doable
  <2>3. CASE more = <<Call("ignore", p, "DeviceDb"),
                      Call("setEnable", p, "off"),
                      Call("ignore", p, "MediaIndexer")>>
    <3>1. more = <<Going(p, "DeviceDb", "ignore"), Call("setEnable", p, "off"),
                   Going(p, "MediaIndexer", "ignore")>>
      BY <2>3 DEF Going
    <3>2. TurningOff(p, more)'
      BY <1>5, <1>10, <3>1 DEF TurningOff, Going
    <3> QED BY <3>2 DEF Doable
  <2> QED BY <1>7, <2>1, <2>2, <2>3
<1>12. Doable(p, more)
  BY <1>9, <1>11, HasSame
<1>13. more \in Seq(PluginCalls) /\ more \in Seq(AnyCall)
  BY <1>5, <1>12, DoableIsPlan, Monotone
<1>14. CallsInv'
  BY <1>1, <1>2, <1>3, <1>8, <1>9, <1>13, ThenCalls
<1>15. PICK tail, rest : tail = <<>> /\ rest = Tail(stack["main"])
  OBVIOUS
<1>16. /\ tail \in Seq(PluginCalls) /\ rest \in Seq(DetectCalls)
       /\ Tail(stack["main"]) = tail \o rest /\ more = more \o tail
  BY <1>6, <1>13, <1>15
<1>17. MainSplits'
  BY <1>1, <1>2, <1>3, <1>5, <1>8, <1>10, <1>11, <1>13, <1>16, MainPlans
<1> QED BY <1>1, <1>3, <1>8, <1>13, <1>14, <1>17

LEMMA FindStep ==
    ASSUME Base, NEW t \in Threads, Find(t)
    PROVE  /\ t = "main" /\ ~Idle("main") /\ Next1("main").op = "find"
           /\ Moves({Next1("main")}, {c \in AllCalls' : c.op = "injectDevice"})
           /\ UNCHANGED <<dev, Others>>
           /\ CallsInv' /\ MainSplits'
<1>1. ~Idle(t) /\ Next1(t).op \in {"find"}
  BY DEF Find, Doing
<1>2. t = "main" /\ Next1("main") \in AnyCall
  BY <1>1, MainPlan
<1>3. PICK c, p : c = Next1("main") /\ p = Next1("main").on
  OBVIOUS
<1>4. PICK tail \in Seq(PluginCalls), rest \in Seq(DetectCalls) :
        /\ p \in Plugins /\ Tail(stack["main"]) = tail \o rest
        /\ Doing1(p, c, tail) /\ \A q \in Plugins \ {p} : Settled(q)
  BY <1>1, <1>3, MainPlan
<1>5. c.op = "find"
  BY <1>1, <1>2, <1>3
<1>6. Left(p) /\ tail = <<Call("await", p, ""), Call("setEnable", p, "on"),
                          Joins(p)>>
  BY <1>4, <1>5, PlanByOp
<1>7. PICK found \in BOOLEAN :
        stack' = [stack EXCEPT !["main"] = Tail(@),
                    !["db"] = @ \o Each({d \in Of(p) : found /\ record[d] # "none"},
                                        "injectDevice", "")]
  BY <1>2, <1>3 DEF Find
<1>8. PICK none, old : none = "" /\ old = {d \in Of(p) : found /\ record[d] # "none"}
  OBVIOUS
<1>9. PICK more : more = Each(old, "injectDevice", none)
  OBVIOUS
<1>10. /\ more \in Seq(AnyCall) /\ more \in Seq(DeviceCalls)
       /\ In(more) = CallsOn("injectDevice", old)
  <2>1. old \subseteq Devices
    BY <1>8, DevicesOf
  <2> QED BY <1>8, <1>9, <2>1, EachCalls DEF LoopOps
<1>11. stack' = [stack EXCEPT !["main"] = Tail(@), !["db"] = @ \o more]
  BY <1>7, <1>8, <1>9
<1>12. CallsInv /\ MainSplits /\ UNCHANGED <<dev, Others>>
  BY DEF Base, Typed, Find
<1>13. observers' = observers /\ running' = running /\ world' = world
  BY <1>12 DEF Others, env
<1>14. /\ stack \in [Threads -> Seq(AnyCall)] /\ "main" \in Threads /\ "db" \in Threads
       /\ stack["main"] # <<>>
  BY <1>1, <1>2, <1>12 DEF CallsInv, Threads, Idle
<1>15. /\ stack["main"] \in Seq(AnyCall) /\ stack["db"] \in Seq(AnyCall)
       /\ Tail(stack["main"]) \in Seq(AnyCall)
       /\ stack["db"] \o more \in Seq(AnyCall)
       /\ In(stack["db"] \o more) = In(stack["db"]) \cup In(more)
       /\ In(stack["main"]) = {c} \cup In(Tail(stack["main"]))
  BY <1>3, <1>10, <1>14, InConcat, InTail DEF Next1
<1>16. /\ stack' \in [Threads -> Seq(AnyCall)]
       /\ stack'["main"] = Tail(stack["main"])
       /\ stack'["db"] = stack["db"] \o more
       /\ \A u \in Threads \ {"main", "db"} : stack'[u] = stack[u]
  BY <1>11, <1>14, <1>15
<1>17. \A u \in Threads : CallsOf(u) = In(stack[u]) /\ CallsOf(u)' = In(stack'[u])
  BY DEF CallsOf, In
<1>18. /\ CallsOf("main") = {c} \cup CallsOf("main")'
       /\ CallsOf("db")' = CallsOf("db") \cup In(more)
       /\ \A u \in Threads \ {"main", "db"} : CallsOf(u)' = CallsOf(u)
  BY <1>14, <1>15, <1>16, <1>17
<1>19. \A x \in In(more) : x \in DeviceCalls /\ x.op = "injectDevice"
  <2>1. In(more) \subseteq DeviceCalls
    BY <1>10, InIs
  <2>2. \A x \in CallsOn("injectDevice", old) : x.op = "injectDevice"
    BY CallsOnIs
  <2> QED BY <1>10, <2>1, <2>2
<1>20. \A x \in In(more) : OthersDo(x)
  BY <1>19 DEF OthersDo
<1>21. CallsInv'
  <2>1. \A u \in Threads \ {"main"} : CallsOf(u)' \subseteq CallsOf(u) \cup In(more)
    BY <1>18
  <2> QED BY <1>12, <1>13, <1>16, <1>20, <2>1, CallsKept
<1>22. Moves({c}, {x \in AllCalls' : x.op = "injectDevice"})
  <2>1. AllCalls' \subseteq AllCalls \cup In(more)
    BY <1>18 DEF AllCalls
  <2>2. AllCalls \subseteq AllCalls' \cup {c}
    BY <1>18 DEF AllCalls
  <2>3. AllCalls' \subseteq AllCalls \cup {x \in AllCalls' : x.op = "injectDevice"}
    BY <1>19, <2>1
  <2> QED BY <2>2, <2>3 DEF Moves
<1>23. \A q \in Plugins \ {p} : Settled(q)'
  BY <1>4, <1>13, HasOther
<1>24. Doable(p, tail)'
  <2>1. Left(p)'
    BY <1>6, <1>13, HasSame
  <2>2. TurningOn(p, tail)'
    BY <1>6, <2>1 DEF TurningOn, Joins
  <2> QED BY <2>2 DEF Doable
<1>25. MainSplits'
  <2>1. PICK work : work = <<>>
    OBVIOUS
  <2>2. work \in Seq(WorkCalls) /\ tail \o rest \in Seq(AnyCall)
    BY <2>1, Monotone
  <2>3. stack'["main"] = work \o (tail \o rest)
    <3>1. PICK left : left = tail \o rest
      OBVIOUS
    <3>2. work \o left = left
      BY <2>1, <2>2, <3>1
    <3> QED BY <1>4, <1>16, <3>1, <3>2
  <2>4. Splits(work, p, tail, rest)'
    BY <1>4, <1>23, <1>24, <2>2, <2>3 DEF Splits
  <2> QED BY <1>4, <2>2, <2>4 DEF MainSplits
<1> QED BY <1>1, <1>2, <1>3, <1>12, <1>21, <1>22, <1>25

----------------------------------------------------------------------------
(***************************************************************************)
(* The calls on devices, by whichever thread makes them.                   *)
(***************************************************************************)
LEMMA NotOnMain ==
    ASSUME CallsInv, MainSplits, ~Idle("main")
    PROVE  Next1("main").op \notin {"refresh", "injectDevice", "check",
                          "checkDevices", "request", "getDeviceMeta"}
<1>1. PICK c : c = Next1("main")
  OBVIOUS
<1>2. CASE c.op \in {"refresh", "injectDevice", "check", "request",
                     "getDeviceMeta"}
  <2>1. c.op \notin WorkOps /\ c.op # "setDetect" /\ c \notin PluginCalls
    BY <1>2 DEF WorkOps, PluginCalls
  <2> QED BY <1>1, <2>1, MainFirst
<1>3. CASE c.op = "checkDevices"
  <2>1. c.op \notin WorkOps /\ c.op # "setDetect"
    BY <1>3 DEF WorkOps
  <2>2. PICK p \in Plugins, tail \in Seq(PluginCalls) : Doing1(p, c, tail)
    BY <1>1, <2>1, MainFirst
  <2>3. /\ c # Looks(p) /\ c # Joins(p) /\ c # Call("run", p, "")
        /\ c # Call("find", p, "") /\ c # Call("await", p, "")
        /\ c # Call("setEnable", p, "on") /\ c # Call("setEnable", p, "off")
        /\ c # Call("erase", p, "") /\ c # Call("halt", p, "")
        /\ c # Call("removeAll", p, "")
    BY <1>3, NotCall DEF Looks, Joins
  <2>4. \A o : c # Call("ignore", p, o) /\ c # Call("forget", p, o)
    BY <1>3, NotCall
  <2>5. \A o : c # Going(p, o, "ignore") /\ c # Going(p, o, "forget")
    BY <2>4 DEF Going
  <2>6. ~Attaching(p, c, tail)
    BY <2>3 DEF Attaching
  <2>7. ~Detaching(p, c, tail)
    BY <2>3, <2>5 DEF Detaching
  <2>8. \A o, more : ~LeavingNow(p, o, c, tail, more)
    BY <2>3, <2>5 DEF LeavingNow
  <2> QED BY <2>2, <2>6, <2>7, <2>8 DEF Doing1
<1> QED BY <1>1, <1>2, <1>3

\* A thread other than the main loop leaves the main loop alone.
LEMMA OtherThread ==
    ASSUME CallsInv, MainSplits, NEW t \in Threads, t # "main", ~Idle(t),
           NEW more \in Seq(AnyCall), Then(t, more),
           observers' = observers, running' = running
    PROVE  MainSplits'
<1>1. stack'["main"] = stack["main"]
  BY ThenIs, MainIsThread
<1> QED BY <1>1, MainSame

LEMMA TidyMain ==
    ASSUME CallsInv, MainSplits, NEW t \in Threads, ~Idle(t),
           NEW d \in Devices, NEW more \in Seq(Tidy(d)), Then(t, more),
           t = "main" => Next1("main").op \in WorkOps,
           world' = world, observers' = observers, running' = running
    PROVE  CallsInv' /\ MainSplits'
<1>1. CallsInv' /\ more \in Seq(AnyCall) /\ In(more) \subseteq Tidy(d)
  BY TidyMoves
<1>2. CASE t = "main"
  <2>1. In(more) \subseteq WorkCalls
    BY <1>1, TidyCalls
  <2>2. more \in Seq(WorkCalls)
    BY <1>1, <2>1, InSeq
  <2> QED BY <1>1, <1>2, <2>2, MainWork
<1>3. CASE t # "main"
  BY <1>1, <1>3, OtherThread
<1> QED BY <1>2, <1>3

LEMMA DeviceMain ==
    ASSUME Base, NEW t \in Threads,
           Add(t) \/ Refresh(t) \/ Remove(t) \/ Inject(t) \/ Check(t)
    PROVE  CallsInv' /\ MainSplits'
<1>1. /\ CallsInv /\ MainSplits /\ observers \in [Plugins -> SUBSET Observers]
  BY DEF Base, Typed, TypeOK
<1>2. /\ ~Idle(t) /\ Next1(t).on \in Devices /\ UNCHANGED Others
      /\ \E s : Becomes(t, Next1(t).on, s)
  BY <1>1, DeviceStep
<1>3. PICK d : d = Next1(t).on
  OBVIOUS
<1>4. PICK more \in Seq(Tidy(d)) : Then(t, more)
  BY <1>2, <1>3 DEF Becomes
<1>5. Next1(t).op \in {"add", "refresh", "remove", "injectDevice", "check"}
  BY DEF Add, Refresh, Remove, Inject, Check, Doing
<1>6. t = "main" => Next1("main").op \in WorkOps
  BY <1>1, <1>2, <1>5, NotOnMain DEF WorkOps
<1>7. world' = world /\ observers' = observers /\ running' = running
  BY <1>2 DEF Others, env
<1> QED BY <1>1, <1>2, <1>3, <1>4, <1>6, <1>7, TidyMain

LEMMA ObserverMain ==
    ASSUME Base, NEW t \in Threads,
           \/ Modify(t) \/ RecordState(t) \/ MergePut(t) \/ IndexState(t)
           \/ MarkRows(t) \/ AskScan(t) \/ PushRequest(t)
    PROVE  CallsInv' /\ MainSplits'
<1>1. CallsInv /\ MainSplits
  BY DEF Base, Typed
<1>2. /\ ~Idle(t) /\ Next1(t).on \in Devices
      /\ Next1(t).op \in {"modify", "record", "mergePut", "index",
                               "unmarkAllDirty", "markDirty", "scan", "push"}
      /\ TidyStep(t, Next1(t).on)
  BY <1>1, TidyActions
<1>3. PICK d : d = Next1(t).on
  OBVIOUS
<1>4. PICK more \in Seq(Tidy(d)) : Then(t, more)
  BY <1>2, <1>3 DEF TidyStep
<1>5. t = "main" => Next1("main").op \in WorkOps
  BY <1>2 DEF WorkOps
<1>6. world' = world /\ observers' = observers /\ running' = running
  BY DEF Modify, RecordState, MergePut, IndexState, MarkRows, AskScan,
         PushRequest, Others, env
<1> QED BY <1>1, <1>2, <1>3, <1>4, <1>5, <1>6, TidyMain

LEMMA CheckDevicesMain ==
    ASSUME Base, NEW t \in Threads, CheckDevices(t)
    PROVE  t # "main" /\ CallsInv' /\ MainSplits'
<1>1. CallsInv /\ MainSplits
  BY DEF Base, Typed
<1>2. PICK p \in Plugins :
             /\ ~Idle(t) /\ Next1(t).op = "checkDevices"
             /\ Then(t, Each(Known(p), "check", ""))
             /\ Each(Known(p), "check", "") \in Seq(AnyCall)
             /\ CallsInv'
             /\ UNCHANGED <<dev, Others>>
  BY <1>1, CheckDevicesStep
<1>3. t # "main"
  BY <1>1, <1>2, NotOnMain
<1>4. observers' = observers /\ running' = running
  BY <1>2 DEF Others
<1>5. PICK more : more = Each(Known(p), "check", "")
  OBVIOUS
<1> QED BY <1>1, <1>2, <1>3, <1>4, <1>5, OtherThread

LEMMA RequestStep ==
    ASSUME Base, NEW t \in Threads, RequestMeta(t)
    PROVE  /\ t # "main" /\ ~Idle(t) /\ Next1(t).op = "request"
           /\ Moves({Next1(t)}, {c \in AllCalls' : c.op = "getDeviceMeta"})
           /\ UNCHANGED <<dev, Others>>
           /\ CallsInv' /\ MainSplits'
<1>1. ~Idle(t) /\ Next1(t).op = "request" /\ Idle("meta")
  BY DEF RequestMeta, Doing
<1>2. CallsInv /\ MainSplits /\ UNCHANGED <<dev, Others>>
  BY DEF Base, Typed, RequestMeta
<1>3. t # "main" /\ t # "meta"
  BY <1>1, <1>2, NotOnMain
<1>4. Next1(t) \in AnyCall /\ OthersDo(Next1(t))
  BY <1>1, <1>2, <1>3, FirstCall
<1>5. PICK c, d : c = Next1(t) /\ d = Next1(t).on
  OBVIOUS
<1>6. d \in Devices /\ Home[d] \in Discovered
  BY <1>1, <1>4, <1>5, CallTypes DEF DeviceOps, OthersDo
<1>7. PICK get : get = Call("getDeviceMeta", d, "")
  OBVIOUS
<1>8. /\ get \in DeviceCalls /\ get.op = "getDeviceMeta" /\ get.on = d
      /\ get \in AnyCall
  BY <1>6, <1>7 DEF Call, DeviceCalls, AnyCall
<1>9. OthersDo(get)
  BY <1>6, <1>8 DEF OthersDo
<1>10. stack' = [stack EXCEPT ![t] = Tail(@), !["meta"] = <<get>>]
  BY <1>5, <1>7 DEF RequestMeta
<1>11. /\ stack \in [Threads -> Seq(AnyCall)] /\ "main" \in Threads /\ "meta" \in Threads
       /\ stack[t] # <<>> /\ stack["meta"] = <<>>
  BY <1>1, <1>2 DEF CallsInv, Threads, Idle
<1>12. /\ Tail(stack[t]) \in Seq(AnyCall) /\ <<get>> \in Seq(AnyCall)
       /\ In(stack[t]) = {c} \cup In(Tail(stack[t]))
  BY <1>5, <1>8, <1>11, InTail DEF Next1
<1>13. /\ stack' \in [Threads -> Seq(AnyCall)]
       /\ stack'[t] = Tail(stack[t]) /\ stack'["meta"] = <<get>>
       /\ \A u \in Threads \ {t, "meta"} : stack'[u] = stack[u]
  BY <1>3, <1>10, <1>11, <1>12
<1>14. \A u \in Threads : CallsOf(u) = In(stack[u]) /\ CallsOf(u)' = In(stack'[u])
  BY DEF CallsOf, In
<1>15. /\ CallsOf(t) = {c} \cup CallsOf(t)'
       /\ CallsOf("meta") = {} /\ CallsOf("meta")' = {get}
       /\ \A u \in Threads \ {t, "meta"} : CallsOf(u)' = CallsOf(u)
  BY <1>11, <1>12, <1>13, <1>14, InNil, InOne
<1>16. observers' = observers /\ running' = running /\ world' = world
  BY <1>2 DEF Others, env
<1>17. CallsInv'
  <2>0. PICK new : new = {get}
    OBVIOUS
  <2>1. \A u \in Threads \ {"main"} : CallsOf(u)' \subseteq CallsOf(u) \cup new
    BY <1>15, <2>0
  <2>2. \A x \in new : OthersDo(x)
    BY <1>9, <2>0
  <2> QED BY <1>2, <1>13, <1>16, <2>1, <2>2, CallsKept
<1>18. MainSplits'
  BY <1>2, <1>3, <1>11, <1>13, <1>16, MainSame
<1>19. Moves({c}, {x \in AllCalls' : x.op = "getDeviceMeta"})
  <2>1. AllCalls' \subseteq AllCalls \cup {get}
    BY <1>15 DEF AllCalls
  <2>2. AllCalls \subseteq AllCalls' \cup {c}
    BY <1>15 DEF AllCalls
  <2>3. AllCalls' \subseteq AllCalls \cup {x \in AllCalls' : x.op = "getDeviceMeta"}
    BY <1>8, <2>1
  <2> QED BY <2>2, <2>3 DEF Moves
<1> QED BY <1>1, <1>2, <1>3, <1>5, <1>17, <1>18, <1>19

----------------------------------------------------------------------------
(***************************************************************************)
(* The handlers.                                                           *)
(***************************************************************************)
LEMMA GetDeviceMetaStep ==
    ASSUME Base, GetDeviceMeta
    PROVE  /\ ~Idle("meta") /\ Next1("meta").op = "getDeviceMeta"
           /\ \E d \in Devices, more \in Seq(AnyCall) :
                /\ Then("meta", more) /\ Home[d] \in Discovered
                /\ In(more) \subseteq {Call("add", d, attached[d])}
           /\ CallsInv' /\ MainSplits'
<1>1. ~Idle("meta") /\ Next1("meta").op = "getDeviceMeta" /\ "meta" \in Threads
  BY DEF GetDeviceMeta, Doing, Threads
<1>2. /\ CallsInv /\ MainSplits
      /\ attached \in [Devices -> Mounts \cup {NoMount}]
  BY DEF Base, Typed, PlacesInv
<1>3. Next1("meta") \in AnyCall /\ OthersDo(Next1("meta"))
  BY <1>1, <1>2, FirstCall
<1>4. PICK c, d : c = Next1("meta") /\ d = Next1("meta").on
  OBVIOUS
<1>5. d \in Devices /\ Home[d] \in Discovered
  BY <1>1, <1>3, <1>4, CallTypes DEF DeviceOps, OthersDo
<1>6. PICK add : add = Call("add", d, attached[d])
  OBVIOUS
<1>7. add \in WorkCalls /\ add.op = "add" /\ add.on = d
  BY <1>2, <1>5, <1>6, AddCalls
<1>8. add \in DeviceCalls /\ add \in AnyCall
  BY <1>7 DEF WorkCalls, AnyCall
<1>9. OthersDo(add)
  BY <1>5, <1>7, <1>8 DEF OthersDo
<1>10. PICK more : more \in {<<>>, <<add>>} /\ Then("meta", more)
  BY <1>4, <1>6 DEF GetDeviceMeta
<1>11. more \in Seq(AnyCall) /\ In(more) \subseteq {add}
  <2>1. CASE more = <<>>
    BY <2>1, InNil
  <2>2. CASE more = <<add>>
    <3>1. <<add>> \in Seq(AnyCall) /\ In(<<add>>) = {add}
      BY <1>8, InOne
    <3> QED BY <2>2, <3>1
  <2> QED BY <1>10, <2>1, <2>2
<1>12. /\ observers' = observers /\ running' = running /\ world' = world
  BY DEF GetDeviceMeta, env
<1>13. \A x \in In(more) : OthersDo(x)
  BY <1>9, <1>11
<1>14. CallsInv'
  BY <1>1, <1>2, <1>10, <1>11, <1>12, <1>13, ThenCalls
<1>15. MainSplits'
  BY <1>1, <1>2, <1>10, <1>11, <1>12, OtherThread
<1> QED BY <1>1, <1>5, <1>6, <1>10, <1>11, <1>14, <1>15

\* What a handler on the main loop starts with.
LEMMA MainStarts ==
    ASSUME Base, NEW more, Begin("main", more),
           \/ more \in Seq(DetectCalls)
           \/ more \in Seq(WorkCalls)
           \/ \E p \in Plugins : Settled(p) => Doable(p, more),
           world' = world, observers' = observers, running' = running
    PROVE  more \in Seq(AnyCall) /\ CallsInv' /\ MainSplits'
<1>1. CallsInv /\ MainSplits /\ Idle("main")
  BY DEF Base, Typed, Begin
<1>2. (\A q \in Plugins : Settled(q)) /\ (\A q \in Plugins : Settled(q)')
  BY <1>1, MainIdle, HasSame
<1>3. PICK work, plan, rest, p :
        /\ work \in Seq(WorkCalls) /\ rest \in Seq(DetectCalls)
        /\ p \in Plugins /\ Doable(p, plan) /\ plan \in Seq(PluginCalls)
        /\ more = work \o (plan \o rest)
  <2>1. PICK none : none = <<>>
    OBVIOUS
  <2>2. /\ none \in Seq(WorkCalls) /\ none \in Seq(PluginCalls)
        /\ none \in Seq(DetectCalls) /\ none \o none = none
    BY <2>1
  <2>3. PICK p0 : p0 \in Plugins /\ Doable(p0, none)
    BY <1>2, <2>1 DEF Plugins, Doable
  <2>4. CASE more \in Seq(DetectCalls)
    <3>1. none \o more = more
      BY <2>1, <2>4
    <3>2. more = none \o (none \o more)
      BY <3>1
    <3> QED BY <2>2, <2>3, <2>4, <3>2
  <2>5. CASE more \in Seq(WorkCalls)
    <3>1. more \o none = more
      BY <2>1, <2>5
    <3>2. more = more \o (none \o none)
      BY <2>2, <3>1
    <3> QED BY <2>2, <2>3, <2>5, <3>2
  <2>6. CASE \E p \in Plugins : Settled(p) => Doable(p, more)
    <3>1. PICK p \in Plugins : Doable(p, more)
      BY <1>2, <2>6
    <3>2. more \in Seq(PluginCalls)
      BY <3>1, DoableIsPlan
    <3>3. none \o more = more /\ more \o none = more
      BY <2>1, <3>2
    <3>4. more = none \o (more \o none)
      BY <3>3
    <3> QED BY <2>2, <3>1, <3>2, <3>4
  <2> QED BY <2>4, <2>5, <2>6
<1>4. more \in Seq(AnyCall)
  BY <1>3, Monotone
<1>5. Doable(p, plan)'
  BY <1>3, HasSame
<1>6. Begin("main", work \o (plan \o rest))
  BY <1>3
<1>7. MainSplits'
  BY <1>1, <1>2, <1>3, <1>5, <1>6, MainBegins
<1>8. CallsInv'
  BY <1>1, <1>4, MainIsThread, BeginCalls
<1> QED BY <1>4, <1>7, <1>8

LEMMA BuildIs ==
    ASSUME PlacesInv PROVE Factory \subseteq Plugins /\ build \cap {"msc", "storage"} \subseteq Plugins
BY WorldsAssumption DEF PlacesInv, Factory, build

LEMMA DbConnectedStep ==
    ASSUME Base, DbConnected
    PROVE  /\ plugins' \subseteq Plugins
           /\ \E more \in Seq(DetectCalls) : Begin("main", more)
           /\ CallsInv' /\ MainSplits'
<1>1. plugins' \subseteq Plugins
  BY BuildIs DEF DbConnected, DbInitialized, AddPlugins, Base, Typed, TypeOK
<1>2. PICK more : more = Each(plugins', "setDetect", "on")
  OBVIOUS
<1>3. more \in Seq(DetectCalls)
  BY <1>1, <1>2, EachDetects
<1>4. Begin("main", more)
  BY <1>2 DEF DbConnected, DbInitialized
<1>5. world' = world /\ observers' = observers /\ running' = running
  BY DEF DbConnected
<1> QED BY <1>1, <1>3, <1>4, <1>5, MainStarts

LEMMA SettingsFoundStep ==
    ASSUME Base, NEW p \in Plugins, SettingsFound(p)
    PROVE  /\ \E more \in Seq(DetectCalls) : Begin("main", more)
           /\ CallsInv' /\ MainSplits'
<1>1. PICK more : more = IF settings[p] = "none" THEN <<>>
                         ELSE <<Detect(settings[p], p)>>
  OBVIOUS
<1>2. more \in Seq(DetectCalls)
  <2>1. settings[p] # "none" => Detect(settings[p], p) \in DetectCalls
    BY DEF Base, Typed, TypeOK, Detect, Call, DetectCalls
  <2>2. PICK c : c = Detect(settings[p], p)
    OBVIOUS
  <2> QED BY <1>1, <2>1, <2>2
<1>3. Begin("main", more) /\ world' = world /\ observers' = observers
      /\ running' = running
  BY <1>1 DEF SettingsFound, env
<1> QED BY <1>2, <1>3, MainStarts

LEMMA BusMethodStep ==
    ASSUME Base, BusMethod
    PROVE  /\ \/ stack' = stack
              \/ \E more \in Seq(AnyCall) :
                   /\ Begin("main", more)
                   /\ In(more) \subseteq PluginCalls \cup DetectCalls
           /\ plugins' \subseteq Plugins /\ finds' \subseteq Plugins
           /\ observers' = observers /\ running' = running
           /\ CallsInv' /\ MainSplits'
<1>1. /\ CallsInv /\ MainSplits /\ world' = world
      /\ plugins \subseteq Plugins /\ finds \subseteq Plugins
      /\ Factory \subseteq Plugins
  BY BuildIs DEF Base, Typed, TypeOK, BusMethod
<1>2. observers' = observers /\ running' = running
  BY DEF BusMethod, PluginPutGet, Get, Put, DetectRunStop
<1>3. ASSUME NEW P \in SUBSET Plugins, Get(P)
      PROVE  /\ stack' = stack
             /\ plugins' \subseteq Plugins /\ finds' \subseteq Plugins
             /\ CallsInv' /\ MainSplits'
  <2>1. stack' = stack /\ plugins' \subseteq Plugins /\ finds' \subseteq Plugins
    BY <1>1, <1>3 DEF Get
  <2> QED BY <1>1, <1>2, <2>1, SameCalls, MainSame
<1>4. ASSUME NEW p \in Plugins, Put(p)
      PROVE  /\ \E more \in Seq(AnyCall) :
                   /\ Begin("main", more)
                   /\ In(more) \subseteq PluginCalls \cup DetectCalls
             /\ plugins' = plugins /\ finds' = finds
             /\ CallsInv' /\ MainSplits'
  <2>1. PICK more : more = IF p \in plugins
                     THEN <<Call("ignore", p, "MediaIndexer"),
                            Call("ignore", p, "DeviceDb"),
                            Call("erase", p, "")>>
                     ELSE <<>>
    OBVIOUS
  <2>2. Begin("main", more) /\ plugins' = plugins /\ finds' = finds
    BY <1>4, <2>1 DEF Put
  <2>3. ASSUME Settled(p) PROVE Doable(p, more)
    <3>1. CASE more = <<>>
      BY <2>3, <3>1 DEF Doable
    <3>2. CASE more = <<Call("ignore", p, "MediaIndexer"),
                        Call("ignore", p, "DeviceDb"), Call("erase", p, "")>>
      <4>1. more = <<Going(p, "MediaIndexer", "ignore"),
                     Going(p, "DeviceDb", "ignore"), Call("erase", p, "")>>
        BY <3>2 DEF Going
      <4>2. Putting(p, more)
        BY <2>3, <4>1 DEF Putting
      <4> QED BY <4>2 DEF Doable
    <3> QED BY <2>1, <3>1, <3>2
  <2>4. more \in Seq(AnyCall) /\ CallsInv' /\ MainSplits'
    BY <1>1, <1>2, <2>2, <2>3, MainStarts
  <2>5. Doable(p, more)
    BY <1>1, <2>2, <2>3, MainIdle DEF Begin
  <2>6. In(more) \subseteq PluginCalls
    BY <2>5, DoableIsPlan, InIs
  <2> QED BY <2>2, <2>4, <2>6
<1>5. ASSUME NEW on \in {"on", "off"}, NEW more \in Seq(DetectCalls),
             Begin("main", more)
      PROVE  /\ \E m \in Seq(AnyCall) :
                   /\ Begin("main", m)
                   /\ In(m) \subseteq PluginCalls \cup DetectCalls
             /\ CallsInv' /\ MainSplits'
  <2>1. more \in Seq(AnyCall) /\ CallsInv' /\ MainSplits'
    BY <1>1, <1>2, <1>5, MainStarts
  <2>2. In(more) \subseteq DetectCalls
    BY InIs
  <2> QED BY <1>5, <2>1, <2>2
<1>6. CASE PluginPutGet
  <2>1. CASE Get(Factory)
    BY <1>1, <1>2, <1>3, <2>1
  <2>2. CASE \E p \in Factory : Get({p})
    <3>1. PICK p \in Factory : Get({p})
      BY <2>2
    <3>2. {p} \in SUBSET Plugins
      BY <1>1
    <3> QED BY <1>2, <1>3, <3>1, <3>2
  <2>3. CASE \E p \in Factory : Put(p)
    <3>1. PICK p \in Plugins : Put(p)
      BY <1>1, <2>3
    <3> QED BY <1>1, <1>2, <1>4, <3>1
  <2> QED BY <1>6, <2>1, <2>2, <2>3 DEF PluginPutGet
<1>7. CASE DetectRunStop
  <2>1. PICK on \in {"on", "off"} :
        /\ \/ Begin("main", Each(plugins, "setDetect", on))
           \/ \E p \in Factory : Begin("main", <<Detect(on, p)>>)
        /\ UNCHANGED <<plugins, observers, running, finds>>
    BY <1>7 DEF DetectRunStop
  <2>2. CASE Begin("main", Each(plugins, "setDetect", on))
    BY <1>1, <1>2, <1>5, <2>1, <2>2, EachDetects
  <2>3. ASSUME NEW p \in Factory, Begin("main", <<Detect(on, p)>>)
        PROVE  \E more \in Seq(DetectCalls) : Begin("main", more)
    <3>1. PICK c : c = Detect(on, p)
      OBVIOUS
    <3>2. c \in DetectCalls
      BY <1>1, <3>1 DEF Detect, Call, DetectCalls
    <3>3. <<c>> \in Seq(DetectCalls)
      BY <3>2
    <3> QED BY <2>3, <3>1, <3>3
  <2>4. CASE \E more \in Seq(DetectCalls) : Begin("main", more)
    BY <1>1, <1>2, <1>5, <2>1, <2>4
  <2> QED BY <2>1, <2>2, <2>3, <2>4
<1> QED BY <1>6, <1>7 DEF BusMethod

Running(S) == {d \in S : Home[d] \in running}
Reported(S, at) == {Call("add", d, at[d]) : d \in Running(S)}

LEMMA UpdatesIs ==
    ASSUME NEW adds \in SUBSET Devices, NEW drops \in SUBSET Devices,
           NEW at \in [Devices -> Mounts \cup {NoMount}],
           NEW more, more = PdmUpdates(adds, at, drops)
    PROVE  /\ more \in Seq(WorkCalls)
           /\ In(more) = Reported(adds, at) \cup CallsOn("remove", Running(drops))
<1>1. Running(adds) \subseteq Devices /\ Running(drops) \subseteq Devices
  BY DEF Running
<1>2. IsFiniteSet(Running(adds))
  BY <1>1, FiniteAssumption, FS_Subset
<1>3. PICK s : s = Sq!SetToSeq(Running(adds))
  OBVIOUS
<1>4. PICK first : first = [i \in DOMAIN s |-> Call("add", s[i], at[s[i]])]
  OBVIOUS
<1>5. PICK g : g = [d \in Running(adds) |-> Call("add", d, at[d])]
  OBVIOUS
<1>6. ASSUME NEW d \in Running(adds) PROVE Call("add", d, at[d]) \in WorkCalls
  BY <1>1, AddCalls
<1>7. g \in [Running(adds) -> WorkCalls]
  BY <1>5, <1>6
<1>8. s \in Seq(Running(adds)) /\ DOMAIN s = 1 .. Len(s)
  BY <1>2, <1>3, ListedAll
<1>9. \A i \in DOMAIN s : g[s[i]] = Call("add", s[i], at[s[i]])
  BY <1>5, <1>8
<1>10. first = [i \in DOMAIN s |-> g[s[i]]]
  BY <1>4, <1>9
<1>11. first \in Seq(WorkCalls) /\ In(first) = {g[x] : x \in Running(adds)}
  BY <1>2, <1>3, <1>7, <1>10, ForEach
<1>12. In(first) = Reported(adds, at)
  BY <1>5, <1>11 DEF Reported
<1>13. PICK none : none = ""
  OBVIOUS
<1>14. PICK second : second = Each(Running(drops), "remove", none)
  OBVIOUS
<1>15. second \in Seq(WorkCalls) /\ In(second) = CallsOn("remove", Running(drops))
  BY <1>1, <1>13, <1>14, EachCalls DEF LoopOps, WorkOps
<1>16. more = first \o second
  BY <1>3, <1>4, <1>13, <1>14 DEF PdmUpdates, Running
<1> QED BY <1>11, <1>12, <1>15, <1>16, InConcat

\* What a PDM message does to the map, and what it has the main loop call.
Mapped(at, gone) ==
    mounted' = [m \in (DOMAIN mounted \cup {at[d] : d \in NewlyMounted(at)})
                      \ gone |->
                  IF m \in DOMAIN mounted THEN mounted[m]
                  ELSE CHOOSE d \in NewlyMounted(at) : at[d] = m]
ListHandled(at, gone, more) ==
    /\ gone \in Cleaned(Dirty(at)) /\ gone \subseteq DOMAIN mounted
    /\ In(more) = Reported(NewlyMounted(at), at)
                  \cup CallsOn("remove", Running({mounted[m] : m \in gone}))
    /\ Mapped(at, gone) /\ excused' = Excused(at, gone)
Handled(msg, more) ==
    IF msg.list THEN \E gone : ListHandled(msg.at, gone, more)
    ELSE /\ In(more) = {} /\ mounted' = [m \in {} |-> NoMount]
         /\ excused' = excused \cup {mounted[m] : m \in DOMAIN mounted}

LEMMA PdmMessageStep ==
    ASSUME Base, PdmMessage
    PROVE  /\ inbox # <<>> /\ inbox' = Tail(inbox)
           /\ Head(inbox).at \in [Devices -> Mounts \cup {NoMount}]
           /\ Alone(Head(inbox).at)
           /\ \E more \in Seq(AnyCall) :
                Begin("main", more) /\ Handled(Head(inbox), more)
           /\ CallsInv' /\ MainSplits'
<1>1. inbox # <<>> /\ inbox' = Tail(inbox)
  BY DEF PdmMessage
<1>2. PICK msg, at : msg = Head(inbox) /\ at = Head(inbox).at
  OBVIOUS
<1>3. at \in [Devices -> Mounts \cup {NoMount}] /\ Alone(at)
  <2>1. inbox \in Seq([list : BOOLEAN, at : [Devices -> Mounts \cup {NoMount}]])
    BY DEF Base, Typed, PlacesInv
  <2>2. /\ Head(inbox) \in [list : BOOLEAN, at : [Devices -> Mounts \cup {NoMount}]]
        /\ Head(inbox) = inbox[1] /\ 1 \in DOMAIN inbox
    <3>1. PICK M : M = [list : BOOLEAN, at : [Devices -> Mounts \cup {NoMount}]]
      OBVIOUS
    <3>2. inbox \in Seq(M)
      BY <2>1, <3>1
    <3>3. /\ Head(inbox) \in M /\ Head(inbox) = inbox[1]
          /\ Len(inbox) \in Nat \ {0} /\ DOMAIN inbox = 1 .. Len(inbox)
      BY <1>1, <3>2, InTail, LenProperties
    <3> QED BY <3>1, <3>3
  <2>3. Alone(inbox[1].at)
    BY <2>2 DEF Base, Typed, PlacesInv
  <2> QED BY <1>2, <2>2, <2>3
<1>4. world' = world /\ observers' = observers /\ running' = running
  BY DEF PdmMessage, env
<1>5. NewlyMounted(at) \in SUBSET Devices
  BY DEF NewlyMounted, Listed
<1>6. CASE msg.list
  <2>1. PICK gone \in Cleaned(Dirty(at)) :
          /\ Mapped(at, gone)
          /\ Begin("main", PdmUpdates(NewlyMounted(at), at,
                                      {mounted[m] : m \in gone}))
          /\ excused' = Excused(at, gone)
    <3>1. Head(inbox).list = TRUE \/ Head(inbox).list
      BY <1>2, <1>6
    <3>2. \E gone \in Cleaned(Dirty(Head(inbox).at)) :
          /\ Mapped(Head(inbox).at, gone)
          /\ Begin("main", PdmUpdates(NewlyMounted(Head(inbox).at), Head(inbox).at,
                                      {mounted[m] : m \in gone}))
          /\ excused' = Excused(Head(inbox).at, gone)
      BY <3>1 DEF PdmMessage, Mapped
    <3> QED BY <1>2, <3>2
  <2>2. gone \subseteq DOMAIN mounted
    BY <2>1 DEF Cleaned, Dirty
  <2>3. PICK drops : drops = {mounted[m] : m \in gone}
    OBVIOUS
  <2>4. drops \in SUBSET Devices
    BY <2>2, <2>3 DEF Base, Typed, TypeOK
  <2>5. PICK more : more = PdmUpdates(NewlyMounted(at), at, drops)
    OBVIOUS
  <2>6. /\ more \in Seq(WorkCalls)
        /\ In(more) = Reported(NewlyMounted(at), at)
                      \cup CallsOn("remove", Running(drops))
    BY <1>3, <1>5, <2>4, <2>5, UpdatesIs
  <2>7. Begin("main", more)
    BY <2>1, <2>3, <2>5
  <2>8. more \in Seq(AnyCall) /\ CallsInv' /\ MainSplits'
    BY <1>4, <2>6, <2>7, MainStarts
  <2>9. ListHandled(at, gone, more)
    BY <2>1, <2>2, <2>3, <2>6 DEF ListHandled
  <2>10. Handled(Head(inbox), more)
    BY <1>2, <1>6, <2>9 DEF Handled
  <2> QED BY <1>1, <1>2, <1>3, <2>7, <2>8, <2>10
<1>7. CASE ~msg.list
  <2>1. /\ mounted' = [m \in {} |-> NoMount]
        /\ excused' = excused \cup {mounted[m] : m \in DOMAIN mounted}
        /\ Begin("main", <<>>)
    BY <1>2, <1>7 DEF PdmMessage
  <2>2. PICK more : more = <<>>
    OBVIOUS
  <2>3. more \in Seq(WorkCalls) /\ In(more) = {} /\ Begin("main", more)
    BY <2>1, <2>2, InNil
  <2>4. more \in Seq(AnyCall) /\ CallsInv' /\ MainSplits'
    BY <1>4, <2>3, MainStarts
  <2>5. Handled(Head(inbox), more)
    BY <1>2, <1>7, <2>1, <2>3 DEF Handled
  <2> QED BY <1>1, <1>2, <1>3, <2>3, <2>4, <2>5
<1> QED BY <1>6, <1>7

\* Threads other than the main loop begin with what they discover.
LEMMA OtherBegins ==
    ASSUME Base, NEW t \in Threads, t # "main", NEW more \in Seq(AnyCall),
           Begin(t, more), \A c \in In(more) : OthersDo(c),
           world' = world, observers' = observers, running' = running
    PROVE  CallsInv' /\ MainSplits'
<1>1. CallsInv /\ MainSplits
  BY DEF Base, Typed
<1>2. stack'["main"] = stack["main"]
  BY <1>1, BeginIs, MainIsThread
<1> QED BY <1>1, <1>2, BeginCalls, MainSame

LEMMA DiscoveredCalls ==
    ASSUME NEW d \in Devices, Home[d] \in Discovered,
           NEW op \in {"refresh", "remove", "request"}
    PROVE  /\ Call(op, d, "") \in AnyCall /\ OthersDo(Call(op, d, ""))
           /\ Call(op, d, "").op = op /\ Call(op, d, "").on = d
<1>1. PICK c : c = Call(op, d, "")
  OBVIOUS
<1>2. c \in DeviceCalls /\ c.op = op /\ c.on = d
  BY <1>1 DEF Call, DeviceCalls
<1> QED BY <1>1, <1>2 DEF OthersDo, AnyCall

LEMMA CheckAll ==
    ASSUME NEW p \in Plugins, p \in Discovered
    PROVE  /\ Call("checkDevices", p, "") \in AnyCall
           /\ OthersDo(Call("checkDevices", p, ""))
           /\ Call("checkDevices", p, "").op = "checkDevices"
<1>1. PICK c : c = Call("checkDevices", p, "")
  OBVIOUS
<1>2. c \in PluginCalls /\ c.op = "checkDevices" /\ c.on = p
  BY <1>1 DEF Call, PluginCalls
<1> QED BY <1>1, <1>2 DEF OthersDo, AnyCall

Finds == {"refresh", "remove", "request", "checkDevices"}
LEMMA EventStep ==
    ASSUME Base, NEW t \in Pool, NEW d \in Of("upnp"),
           ServiceFound(t, d) \/ ServiceLost(t, d)
    PROVE  /\ t # "main" /\ t \in Threads
           /\ \/ stack' = stack
              \/ \E more \in Seq(AnyCall) :
                   /\ Begin(t, more)
                   /\ \A c \in In(more) : c.op \in Finds /\ OthersDo(c)
           /\ CallsInv' /\ MainSplits'
<1>1. /\ t # "main" /\ t \in Threads
      /\ d \in Devices /\ Home[d] = "upnp" /\ Home[d] \in Discovered
  BY PoolAssumption, DevicesOf DEF Threads, Discovered
<1>2. CallsInv /\ MainSplits
  BY DEF Base, Typed
<1>3. world' = world /\ observers' = observers /\ running' = running
  BY DEF ServiceFound, ServiceLost, Others, env
<1>4. ASSUME NEW more \in Seq(AnyCall), Begin(t, more),
             \A c \in In(more) : c.op \in Finds /\ OthersDo(c)
      PROVE  /\ \E m \in Seq(AnyCall) :
                   /\ Begin(t, m)
                   /\ \A c \in In(m) : c.op \in Finds /\ OthersDo(c)
             /\ CallsInv' /\ MainSplits'
  BY <1>1, <1>3, <1>4, OtherBegins
<1>5. PICK refresh, remove, request :
        /\ refresh = Call("refresh", d, "") /\ remove = Call("remove", d, "")
        /\ request = Call("request", d, "")
  OBVIOUS
<1>6. /\ refresh \in AnyCall /\ OthersDo(refresh) /\ refresh.op \in Finds
      /\ remove \in AnyCall /\ OthersDo(remove) /\ remove.op \in Finds
      /\ request \in AnyCall /\ OthersDo(request) /\ request.op \in Finds
  BY <1>1, <1>5, DiscoveredCalls DEF Finds
<1>7. CASE ServiceFound(t, d)
  <2>1. PICK a, b : /\ a = IF dev[d].known THEN <<refresh>> ELSE <<>>
                    /\ b = IF dev[d].avail THEN <<>> ELSE <<request>>
    OBVIOUS
  <2>2. /\ <<refresh>> \in Seq(AnyCall) /\ <<request>> \in Seq(AnyCall)
        /\ <<>> \in Seq(AnyCall)
    BY <1>6
  <2>3. /\ a \in Seq(AnyCall) /\ b \in Seq(AnyCall)
        /\ In(a) \subseteq {refresh} /\ In(b) \subseteq {request}
    BY <2>1, <2>2, InOne, InNil
  <2>4. a \o b \in Seq(AnyCall) /\ In(a \o b) = In(a) \cup In(b)
    BY <2>3, InConcat
  <2>5. PICK more : more = IF d \in blacklist THEN <<>> ELSE a \o b
    OBVIOUS
  <2>6. more \in Seq(AnyCall) /\ In(more) \subseteq {refresh, request}
    BY <2>2, <2>3, <2>4, <2>5, InNil
  <2>7. Begin(t, more)
    BY <1>5, <1>7, <2>1, <2>5 DEF ServiceFound
  <2>8. \A c \in In(more) : c.op \in Finds /\ OthersDo(c)
    BY <1>6, <2>6
  <2> QED BY <1>1, <1>4, <2>6, <2>7, <2>8
<1>8. CASE ServiceLost(t, d)
  <2>1. CASE stack' = stack
    BY <1>1, <1>2, <1>3, <2>1, SameCalls, MainSame
  <2>2. CASE Begin(t, <<remove>>)
    <3>1. PICK more : more = <<remove>>
      OBVIOUS
    <3>2. more \in Seq(AnyCall) /\ In(more) = {remove}
      BY <1>6, <3>1, InOne
    <3>3. \A c \in In(more) : c.op \in Finds /\ OthersDo(c)
      BY <1>6, <3>2
    <3> QED BY <1>1, <1>4, <2>2, <3>1, <3>2, <3>3
  <2> QED BY <1>5, <1>8, <2>1, <2>2 DEF ServiceLost
<1> QED BY <1>7, <1>8

LEMMA SearchStep ==
    ASSUME Base, NEW t \in Pool, SearchTimeout(t)
    PROVE  /\ t # "main" /\ t \in Threads
           /\ \E more \in Seq(AnyCall) :
                   /\ Begin(t, more)
                   /\ \A c \in In(more) : c.op \in Finds /\ OthersDo(c)
           /\ CallsInv' /\ MainSplits'
<1>1. /\ t # "main" /\ t \in Threads /\ "upnp" \in Plugins
      /\ "upnp" \in Discovered
  BY PoolAssumption DEF Threads, Discovered, Plugins
<1>2. PICK c : c = Call("checkDevices", "upnp", "")
  OBVIOUS
<1>3. c \in AnyCall /\ OthersDo(c) /\ c.op \in Finds
  BY <1>1, <1>2, CheckAll DEF Finds
<1>4. PICK more : more = <<c>>
  OBVIOUS
<1>5. more \in Seq(AnyCall) /\ In(more) = {c}
  BY <1>3, <1>4, InOne
<1>6. /\ Begin(t, more) /\ world' = world /\ observers' = observers
      /\ running' = running
  BY <1>2, <1>4 DEF SearchTimeout, Others, env
<1>7. \A x \in In(more) : x.op \in Finds /\ OthersDo(x)
  BY <1>3, <1>5
<1>8. CallsInv' /\ MainSplits'
  BY <1>1, <1>5, <1>6, <1>7, OtherBegins
<1> QED BY <1>1, <1>5, <1>6, <1>7, <1>8

LEMMA PollStep ==
    ASSUME Base, PollRound
    PROVE  /\ \E more \in Seq(AnyCall) :
                   /\ Begin("poll", more)
                   /\ \A c \in In(more) : c.op \in Finds /\ OthersDo(c)
           /\ CallsInv' /\ MainSplits'
<1>1. /\ "poll" # "main" /\ "poll" \in Threads /\ "mtp" \in Plugins
      /\ "mtp" \in Discovered
  BY DEF Threads, Discovered, Plugins, PollRound
<1>2. PICK seen \in SUBSET Of("mtp") :
        Begin("poll", Each(seen, "refresh", "")
                       \o <<Call("checkDevices", "mtp", "")>>)
  BY DEF PollRound
<1>3. PICK none, check : none = "" /\ check = Call("checkDevices", "mtp", "")
  OBVIOUS
<1>4. PICK each : each = Each(seen, "refresh", none)
  OBVIOUS
<1>5. seen \subseteq Devices /\ \A d \in seen : Home[d] = "mtp"
  BY DevicesOf
<1>6. /\ each \in Seq(AnyCall) /\ each \in Seq(DeviceCalls)
      /\ In(each) = CallsOn("refresh", seen)
  BY <1>3, <1>4, <1>5, EachCalls DEF LoopOps
<1>7. \A x \in In(each) : x.op \in Finds /\ OthersDo(x)
  <2>1. \A x \in CallsOn("refresh", seen) : x.op = "refresh" /\ x.on \in seen
    BY CallsOnIs
  <2>2. In(each) \subseteq DeviceCalls
    BY <1>6, InIs
  <2> QED BY <1>1, <1>5, <1>6, <2>1, <2>2 DEF OthersDo, Finds
<1>8. check \in AnyCall /\ OthersDo(check) /\ check.op \in Finds
  BY <1>1, <1>3, CheckAll DEF Finds
<1>9. <<check>> \in Seq(AnyCall) /\ In(<<check>>) = {check}
  BY <1>8, InOne
<1>10. PICK more : more = each \o <<check>>
  OBVIOUS
<1>11. more \in Seq(AnyCall) /\ In(more) = In(each) \cup {check}
  <2>1. PICK one : one = <<check>>
    OBVIOUS
  <2>2. one \in Seq(AnyCall) /\ In(one) = {check} /\ more = each \o one
    BY <1>9, <1>10, <2>1
  <2> QED BY <1>6, <2>2, InConcat
<1>12. \A x \in In(more) : x.op \in Finds /\ OthersDo(x)
  BY <1>7, <1>8, <1>11
<1>13. /\ Begin("poll", more) /\ world' = world /\ observers' = observers
       /\ running' = running
  BY <1>2, <1>3, <1>4, <1>10 DEF PollRound, Others, env
<1>14. CallsInv' /\ MainSplits'
  BY <1>1, <1>11, <1>12, <1>13, OtherBegins
<1> QED BY <1>11, <1>12, <1>13, <1>14

LEMMA CrashStep ==
    ASSUME Base, Crash
    PROVE  CallsInv' /\ MainSplits' /\ AllCalls' = {}
<1>1. /\ stack' = [t \in Threads |-> <<>>] /\ running' = {}
      /\ observers' = [p \in Plugins |-> {}] /\ world' = world
  BY DEF Crash
<1>2. \A t \in Threads : CallsOf(t)' = {}
  BY <1>1 DEF CallsOf
<1>3. stack' \in [Threads -> Seq(AnyCall)]
  BY <1>1
<1>4. CallsInv'
  BY <1>2, <1>3 DEF CallsInv
<1>5. PICK none : none = <<>>
  OBVIOUS
<1>6. /\ none \in Seq(WorkCalls) /\ none \in Seq(PluginCalls)
      /\ none \in Seq(DetectCalls) /\ stack'["main"] = none \o (none \o none)
  BY <1>1, <1>5, MainIsThread
<1>7. \A p \in Plugins : Settled(p)'
  BY <1>1 DEF Settled, Has
<1>8. PICK p : p \in Plugins
  BY DEF Plugins
<1>9. Splits(none, p, none, none)'
  BY <1>5, <1>6, <1>7, <1>8 DEF Splits, Doable
<1>10. MainSplits'
  BY <1>6, <1>8, <1>9 DEF MainSplits
<1> QED BY <1>2, <1>4, <1>10 DEF AllCalls

\* The steps that leave all threads where they are.
Still == \/ \E d \in Devices : ScanStarts(d) \/ ScanEnds(d)
         \/ Browse \/ ServerTrouble \/ Change \/ Swap \/ UNCHANGED vars
LEMMA StillStep ==
    ASSUME Base, Still
    PROVE  /\ stack' = stack /\ observers' = observers /\ running' = running
           /\ world' = world /\ Moves({}, {}) /\ CallsInv' /\ MainSplits'
<1>1. /\ stack' = stack /\ observers' = observers /\ running' = running
      /\ world' = world
  <2>1. ASSUME NEW d \in Devices, ScanStarts(d)
        PROVE  /\ stack' = stack /\ observers' = observers
               /\ running' = running /\ world' = world
    BY <2>1 DEF ScanStarts, core, env
  <2>2. ASSUME NEW d \in Devices, ScanEnds(d)
        PROVE  /\ stack' = stack /\ observers' = observers
               /\ running' = running /\ world' = world
    BY <2>2 DEF ScanEnds, env
  <2>3. CASE Browse \/ ServerTrouble
    BY <2>3 DEF Browse, ServerTrouble, core, env
  <2>4. CASE Change \/ Swap
    BY <2>4 DEF Change, Swap, core
  <2>5. CASE UNCHANGED vars
    BY <2>5 DEF vars, core, env
  <2> QED BY <2>1, <2>2, <2>3, <2>4, <2>5 DEF Still
<1>2. CallsInv /\ MainSplits
  BY DEF Base, Typed
<1> QED BY <1>1, <1>2, SameCalls, MainSame

LEMMA ThreadStep ==
    ASSUME Base, NEW t \in Threads, Thread(t) PROVE CallsInv' /\ MainSplits'
<1>1. CASE Add(t) \/ Refresh(t) \/ Remove(t) \/ Inject(t) \/ Check(t)
  BY <1>1, DeviceMain
<1>2. CASE \/ Modify(t) \/ RecordState(t) \/ MergePut(t) \/ IndexState(t)
           \/ MarkRows(t) \/ AskScan(t) \/ PushRequest(t)
  BY <1>2, ObserverMain
<1>3. CASE CheckDevices(t)
  BY <1>3, CheckDevicesMain
<1>4. CASE RemoveAll(t)
  BY <1>4, RemoveAllStep
<1>5. CASE Observe(t)
  BY <1>5, ObserveStep
<1>6. CASE Ignore(t)
  BY <1>6, IgnoreStep
<1>7. CASE Forget(t)
  BY <1>7, ForgetStep
<1>8. CASE Run(t)
  BY <1>8, RunStep
<1>9. CASE Halt(t)
  BY <1>9, HaltStep
<1>10. CASE SetDetect(t)
  BY <1>10, SetDetectStep
<1>11. CASE Find(t)
  BY <1>11, FindStep
<1>12. CASE Await(t) \/ SetEnable(t) \/ Erase(t)
  BY <1>12, SmallSteps
<1>13. CASE RequestMeta(t)
  BY <1>13, RequestStep
<1>14. CASE GetDeviceMeta
  BY <1>14, GetDeviceMetaStep
<1>15. CASE Plugging(t)
  BY <1>15, <1>1, <1>2, <1>3, <1>4 DEF Plugging
<1>16. CASE Observing(t)
  BY <1>16, <1>2 DEF Observing
<1>17. CASE Detecting(t)
  BY <1>17, <1>5, <1>6, <1>7, <1>8, <1>9, <1>10, <1>11, <1>12, <1>13
     DEF Detecting
<1> QED BY <1>14, <1>15, <1>16, <1>17 DEF Thread

LEMMA CallsStep ==
    ASSUME Base, [Next]_vars PROVE CallsInv' /\ MainSplits'
<1>1. CASE \E t \in Threads : Thread(t)
  BY <1>1, ThreadStep
<1>2. CASE Still
  BY <1>2, StillStep
<1>3. CASE DbConnected
  BY <1>3, DbConnectedStep
<1>4. CASE BusMethod
  BY <1>4, BusMethodStep
<1>5. CASE PdmMessage
  BY <1>5, PdmMessageStep
<1>6. CASE PollRound
  BY <1>6, PollStep
<1>7. CASE \E p \in Plugins : SettingsFound(p)
  BY <1>7, SettingsFoundStep
<1>8. CASE \E t \in Pool : SearchTimeout(t)
  BY <1>8, SearchStep
<1>9. CASE \E t \in Pool, d \in Of("upnp") : Event(t, d)
  BY <1>9, EventStep DEF Event
<1>10. CASE Crash
  BY <1>10, CrashStep
<1>11. [Next]_vars <=>
          \/ \E t \in Threads : Thread(t)
          \/ Still \/ DbConnected \/ BusMethod \/ PdmMessage \/ PollRound
          \/ \E p \in Plugins : SettingsFound(p)
          \/ \E t \in Pool : SearchTimeout(t)
          \/ \E t \in Pool, d \in Of("upnp") : Event(t, d)
          \/ Crash
  BY DEF Next, Still
<1> QED BY <1>1, <1>2, <1>3, <1>4, <1>5, <1>6, <1>7, <1>8, <1>9, <1>10, <1>11

----------------------------------------------------------------------------
(***************************************************************************)
(* The walk over a UPnP server.                                            *)
(***************************************************************************)
BrowseCalls == [op : {"chunk", "dive", "item"}, id : Objects, start : Nat,
                count : Nat]

\* Every place in a set of places is the k-th of them for one k.
LEMMA KthPlace ==
    ASSUME NEW n \in Nat, NEW of, of \subseteq 1 .. n,
           NEW k \in 1 .. Cardinality(of)
    PROVE  \E i \in of : Cardinality(of \cap 1 .. i) = k
<1>1. IsFiniteSet(1 .. n)
  BY FS_Interval
<1>2. IsFiniteSet(of) /\ Cardinality(of) \in Nat
  BY <1>1, FS_Subset, FS_CardinalityType
<1>3. PICK m : m = Cardinality(of)
  OBVIOUS
<1>4. PICK f : f = [i \in of |-> Cardinality(of \cap 1 .. i)]
  OBVIOUS
<1>5. \A i \in of : /\ IsFiniteSet(of \cap 1 .. i)
                    /\ Cardinality(of \cap 1 .. i) \in Nat
                    /\ Cardinality(of \cap 1 .. i) <= m
  BY <1>2, <1>3, FS_Subset, FS_CardinalityType
<1>6. ASSUME NEW i \in of PROVE Cardinality(of \cap 1 .. i) # 0
  <2>1. i \in of \cap 1 .. i
    OBVIOUS
  <2> QED BY <1>5, <2>1, FS_EmptySet
<1>7. f \in [of -> 1 .. m]
  BY <1>2, <1>3, <1>4, <1>5, <1>6
<1>8. ASSUME NEW i \in of, NEW j \in of, f[i] = f[j], i < j PROVE FALSE
  <2>1. of \cap 1 .. i \subseteq of \cap 1 .. j /\ j \in of \cap 1 .. j
        /\ j \notin of \cap 1 .. i
    BY <1>8
  <2>2. Cardinality(of \cap 1 .. i) = Cardinality(of \cap 1 .. j)
    BY <1>4, <1>8
  <2>3. of \cap 1 .. i = of \cap 1 .. j
    BY <1>5, <2>1, <2>2, FS_Subset
  <2> QED BY <2>1, <2>3
<1>9. \A i, j \in of : f[i] = f[j] => i = j
  <2> TAKE i, j \in of
  <2> HAVE f[i] = f[j]
  <2>1. i \in 1 .. n /\ j \in 1 .. n
    OBVIOUS
  <2>2. i < j \/ j < i \/ i = j
    BY <2>1
  <2> QED BY <1>8, <2>2
<1>10. f \in Injection(of, 1 .. m)
  BY <1>7, <1>9 DEF Injection, IsInjective
<1>11. m \in Nat /\ IsFiniteSet(1 .. m) /\ Cardinality(1 .. m) = m
  BY <1>2, <1>3, FS_Interval
<1>12. f \in Surjection(of, 1 .. m)
  BY <1>2, <1>3, <1>10, <1>11, FS_Injection
<1>13. k \in 1 .. m
  BY <1>3
<1>14. PICK i \in of : f[i] = k
  BY <1>12, <1>13 DEF Surjection
<1> QED BY <1>4, <1>14

LEMMA ChosenIs ==
    ASSUME NEW chunk \in Seq(Objects), NEW S
    PROVE  /\ Chosen(chunk, S) \in Seq(Objects)
           /\ \A k \in DOMAIN Chosen(chunk, S) : Chosen(chunk, S)[k] \in S
<1>1. PICK of, n : of = PlacesOf(chunk, S) /\ n = Len(chunk)
  OBVIOUS
<1>2. n \in Nat /\ DOMAIN chunk = 1 .. n /\ \A i \in 1 .. n : chunk[i] \in Objects
  BY <1>1, LenProperties
<1>3. of \subseteq 1 .. n /\ \A i \in of : chunk[i] \in S
  BY <1>1, <1>2 DEF PlacesOf
<1>4. Cardinality(of) \in Nat
  <2>1. IsFiniteSet(1 .. n)
    BY <1>2, FS_Interval
  <2>2. IsFiniteSet(of)
    BY <1>3, <2>1, FS_Subset
  <2> QED BY <2>2, FS_CardinalityType
<1>5. PICK m : m = Cardinality(of)
  OBVIOUS
<1>6. PICK at : at = [k \in 1 .. m |-> CHOOSE i \in of : Cardinality(of \cap 1 .. i) = k]
  OBVIOUS
<1>7. ASSUME NEW k \in 1 .. m PROVE at[k] \in of
  BY <1>2, <1>3, <1>5, <1>6, KthPlace
<1>8. Chosen(chunk, S) = [k \in 1 .. m |-> chunk[at[k]]]
  BY <1>1, <1>5, <1>6 DEF Chosen
<1>9. \A k \in 1 .. m : chunk[at[k]] \in Objects /\ chunk[at[k]] \in S
  BY <1>2, <1>3, <1>7
<1> QED BY <1>4, <1>5, <1>8, <1>9

LEMMA ParsedIs ==
    ASSUME BrowseType, NEW chunk \in Seq(Objects)
    PROVE  Parsed(chunk) \in Seq(BrowseCalls)
<1>1. PICK dives, items : /\ dives = Chosen(chunk, Followed)
                          /\ items = Chosen(chunk, Playable)
  OBVIOUS
<1>2. /\ dives \in Seq(Objects) /\ DOMAIN dives = 1 .. Len(dives) /\ Len(dives) \in Nat
      /\ items \in Seq(Objects) /\ DOMAIN items = 1 .. Len(items) /\ Len(items) \in Nat
  BY <1>1, ChosenIs, LenProperties
<1>3. ASSUME NEW o \in Objects
      PROVE  DiveIn(o, Len(content[o])) \in BrowseCalls /\ HandleItem(o) \in BrowseCalls
  <2>1. Len(content[o]) \in Nat
    BY LenProperties DEF BrowseType
  <2> QED BY <2>1 DEF DiveIn, HandleItem, BrowseCalls
<1>4. PICK a, b :
        /\ a = [i \in DOMAIN dives |-> DiveIn(dives[i], Len(content[dives[i]]))]
        /\ b = [i \in DOMAIN items |-> HandleItem(items[i])]
  OBVIOUS
<1>5. a \in Seq(BrowseCalls)
  <2>1. \A i \in 1 .. Len(dives) : dives[i] \in Objects
    BY <1>2
  <2>2. \A i \in 1 .. Len(dives) :
          DiveIn(dives[i], Len(content[dives[i]])) \in BrowseCalls
    BY <1>3, <2>1
  <2> QED BY <1>2, <1>4, <2>2
<1>6. b \in Seq(BrowseCalls)
  <2>1. \A i \in 1 .. Len(items) : items[i] \in Objects
    BY <1>2
  <2>2. \A i \in 1 .. Len(items) : HandleItem(items[i]) \in BrowseCalls
    BY <1>3, <2>1
  <2> QED BY <1>2, <1>4, <2>2
<1>7. Parsed(chunk) = a \o b
  BY <1>1, <1>4 DEF Parsed
<1> QED BY <1>5, <1>6, <1>7

LEMMA TopIs ==
    ASSUME BrowseType, browse # <<>>
    PROVE  Top \in BrowseCalls /\ Rest \in Seq(BrowseCalls)
<1>1. browse \in Seq(BrowseCalls)
  BY DEF BrowseType, BrowseCalls
<1> QED BY <1>1, InTail DEF Top, Rest

LEMMA BrowseTyped ==
    ASSUME BrowseType, NEW reached \in BOOLEAN,
           \/ StartBrowse \/ EndBrowse \/ BrowseStep(reached) \/ BrowseTrouble
           \/ UNCHANGED browseVars
    PROVE  BrowseType'
<1>1. /\ browse \in Seq(BrowseCalls) /\ content \in [Objects -> Seq(Objects)]
      /\ delivered \in [Objects -> 0 .. 2] /\ spoiled \in BOOLEAN
  BY DEF BrowseType, BrowseCalls, MaxDelivered
<1>2. SUFFICES /\ browse' \in Seq(BrowseCalls) /\ content' \in [Objects -> Seq(Objects)]
               /\ delivered' \in [Objects -> 0 .. 2] /\ spoiled' \in BOOLEAN
  BY DEF BrowseType, BrowseCalls, MaxDelivered
<1>3. CASE StartBrowse
  <2>1. PICK c : c = Request(Root, 0, 0)
    OBVIOUS
  <2>2. c \in BrowseCalls
    BY <2>1, RootAssumption DEF Request, BrowseCalls
  <2>3. <<c>> \in Seq(BrowseCalls)
    BY <2>2
  <2> QED BY <1>1, <1>3, <2>1, <2>3 DEF StartBrowse
<1>4. CASE EndBrowse
  <2>1. delivered' = [o \in Objects |-> 0] /\ 0 \in 0 .. 2
    BY <1>4 DEF EndBrowse
  <2>2. delivered' \in [Objects -> 0 .. 2]
    BY <2>1
  <2> QED BY <1>1, <1>4, <2>2 DEF EndBrowse
<1>5. CASE Dive
  <2>1. Top \in BrowseCalls /\ Rest \in Seq(BrowseCalls)
    BY <1>5, TopIs DEF Dive
  <2>2. PICK c : c = Request(Top.id, 0, Top.count)
    OBVIOUS
  <2>3. c \in BrowseCalls
    BY <2>1, <2>2 DEF Request, BrowseCalls
  <2>4. <<c>> \o Rest \in Seq(BrowseCalls)
    BY <2>1, <2>3
  <2> QED BY <1>1, <1>5, <2>1, <2>2, <2>4 DEF Dive
<1>6. CASE Deliver
  <2>1. Top \in BrowseCalls /\ Rest \in Seq(BrowseCalls)
    BY <1>6, TopIs DEF Deliver
  <2>2. Top.id \in Objects
    BY <2>1 DEF BrowseCalls
  <2>3. delivered' = [delivered EXCEPT ![Top.id] = IF @ < 2 THEN @ + 1 ELSE @]
    BY <1>6 DEF Deliver, MaxDelivered
  <2>4. delivered' \in [Objects -> 0 .. 2]
    BY <1>1, <2>2, <2>3
  <2> QED BY <1>1, <1>6, <2>1, <2>4 DEF Deliver
<1>7. CASE BrowseFails
  BY <1>1, <1>7, TopIs DEF BrowseFails
<1>8. ASSUME NEW o \in Objects, Shrink(o)
      PROVE  /\ browse' \in Seq(BrowseCalls) /\ content' \in [Objects -> Seq(Objects)]
             /\ delivered' \in [Objects -> 0 .. 2] /\ spoiled' \in BOOLEAN
  <2>1. PICK kids : kids = content[o]
    OBVIOUS
  <2>2. kids \in Seq(Objects) /\ Len(kids) \in Nat
    BY <1>1, <2>1, LenProperties
  <2>3. SubSeq(kids, 1, Len(kids) - 1) \in Seq(Objects)
    <3>1. \A i \in 1 .. Len(kids) - 1 : kids[i] \in Objects
      BY <2>2
    <3> QED BY <2>2, <3>1, SubSeqProperties
  <2>4. content' = [content EXCEPT ![o] = SubSeq(kids, 1, Len(kids) - 1)]
    BY <1>8, <2>1 DEF Shrink
  <2>5. content' \in [Objects -> Seq(Objects)]
    BY <1>1, <2>3, <2>4
  <2> QED BY <1>1, <1>8, <2>5 DEF Shrink
<1>9. CASE BrowseChunk
  <2>1. Top \in BrowseCalls /\ Rest \in Seq(BrowseCalls)
    BY <1>9, TopIs DEF BrowseChunk
  <2>2. PICK kids, start, count : /\ kids = content[Top.id] /\ start = Top.start
                                  /\ count = Top.count
    OBVIOUS
  <2>3. /\ kids \in Seq(Objects) /\ Len(kids) \in Nat
        /\ start \in Nat /\ count \in Nat /\ Top.id \in Objects
    BY <1>1, <2>1, <2>2, LenProperties DEF BrowseCalls
  <2>4. PICK left : left = IF start < Len(kids) THEN Len(kids) - start ELSE 0
    OBVIOUS
  <2>5. PICK most : most = IF count = 0 \/ left < ChunkSize THEN left ELSE ChunkSize
    OBVIOUS
  <2>6. PICK n \in 0 .. most :
          /\ spoiled' = (spoiled \/ (count = 0 /\ n < most))
          /\ browse' =
               IF kids = <<>> THEN Rest
               ELSE Parsed(SubSeq(kids, start + 1, start + n))
                    \o (IF start + n < count
                        THEN <<Request(Top.id, start + n, count)>>
                        ELSE <<>>)
                    \o Rest
    BY <1>9, <2>2, <2>4, <2>5 DEF BrowseChunk
  <2>7. left \in Nat /\ most \in Nat /\ most <= left /\ n \in Nat /\ n <= left
    BY <2>3, <2>4, <2>5, <2>6, ChunkAssumption
  <2>8. PICK chunk : chunk = SubSeq(kids, start + 1, start + n)
    OBVIOUS
  <2>9. chunk \in Seq(Objects)
    <3>1. \A i \in start + 1 .. start + n : kids[i] \in Objects
      BY <2>3, <2>4, <2>7
    <3>2. start + 1 \in Int /\ start + n \in Int
      BY <2>3, <2>7
    <3> QED BY <2>8, <3>1, <3>2, SubSeqProperties
  <2>10. PICK a : a = Parsed(chunk)
    OBVIOUS
  <2>11. a \in Seq(BrowseCalls)
    BY <2>9, <2>10, ParsedIs
  <2>12. PICK c : c = Request(Top.id, start + n, count)
    OBVIOUS
  <2>13. c \in BrowseCalls
    BY <2>3, <2>7, <2>12 DEF Request, BrowseCalls
  <2>14. PICK b : b = IF start + n < count THEN <<c>> ELSE <<>>
    OBVIOUS
  <2>15. b \in Seq(BrowseCalls)
    <3>1. <<c>> \in Seq(BrowseCalls) /\ <<>> \in Seq(BrowseCalls)
      BY <2>13
    <3> QED BY <2>14, <3>1
  <2>16. browse' = IF kids = <<>> THEN Rest ELSE a \o b \o Rest
    BY <2>6, <2>8, <2>10, <2>12, <2>14
  <2>17. a \o b \o Rest \in Seq(BrowseCalls)
    BY <2>1, <2>11, <2>15
  <2>18. browse' \in Seq(BrowseCalls)
    BY <2>1, <2>16, <2>17
  <2>19. spoiled' \in BOOLEAN
    BY <2>6
  <2> QED BY <1>1, <1>9, <2>18, <2>19 DEF BrowseChunk
<1>10. CASE UNCHANGED browseVars
  BY <1>1, <1>10 DEF browseVars
<1> QED BY <1>3, <1>4, <1>5, <1>6, <1>7, <1>8, <1>9, <1>10
        DEF BrowseStep, BrowseTrouble

----------------------------------------------------------------------------
(***************************************************************************)
(* Type correctness.                                                       *)
(***************************************************************************)
DevInv == dev \in [Devices -> Record] /\ KnownInv

LEMMA DeviceTyped ==
    ASSUME Base, KnownInv, NEW t \in Threads, Thread(t)
    PROVE  DevInv'
<1>1. /\ CallsInv /\ observers \in [Plugins -> SUBSET Observers]
      /\ dev \in [Devices -> Record]
  BY DEF Base, Typed, TypeOK
<1>2. ASSUME NEW d \in Devices, NEW s \in Record,
             ~s.known => ~s.avail /\ s.alive = 0, dev' = [dev EXCEPT ![d] = s]
      PROVE  DevInv'
  <2>1. dev' \in [Devices -> Record]
    BY <1>1, <1>2
  <2>2. \A e \in Devices : dev'[e] = dev[e] \/ dev'[e] = s
    BY <1>1, <1>2
  <2> QED BY <1>2, <2>1, <2>2 DEF DevInv, KnownInv
<1>3. CASE dev' = dev
  BY <1>1, <1>3 DEF DevInv, KnownInv
<1>4. CASE Add(t) \/ Refresh(t) \/ Remove(t) \/ Inject(t) \/ Check(t)
  <2>1. PICK d : d = Next1(t).on
    OBVIOUS
  <2>2. d \in Devices
    BY <1>1, <1>4, <2>1, DeviceStep
  <2>3. PICK s : Made(Next1(t), dev[d], Lives(d), s) /\ Becomes(t, d, s)
    BY <1>1, <1>4, <2>1, DeviceStep
  <2>4. dev[d] \in Record /\ (~dev[d].known => ~dev[d].avail /\ dev[d].alive = 0)
    BY <1>1, <2>2 DEF KnownInv
  <2>5. s \in Record /\ (~s.known => ~s.avail /\ s.alive = 0)
    BY <2>3, <2>4, LivesType, MadeIs
  <2>6. dev' = [dev EXCEPT ![d] = s]
    BY <2>3 DEF Becomes
  <2> QED BY <1>2, <2>2, <2>5, <2>6
<1>5. CASE PushRequest(t)
  <2>1. Next1(t).on \in Devices
    BY <1>1, <1>5, TidyActions
  <2>2. PICK d, s : d = Next1(t).on /\ s = Asked(dev[d])
    OBVIOUS
  <2>3. dev' = [dev EXCEPT ![d] = s]
    BY <1>5, <2>2 DEF PushRequest
  <2>4. dev[d] \in Record /\ (~dev[d].known => ~dev[d].avail /\ dev[d].alive = 0)
    BY <1>1, <2>1, <2>2 DEF KnownInv
  <2>5. s \in Record /\ (~s.known => ~s.avail /\ s.alive = 0)
    BY <2>2, <2>4 DEF Asked, Record
  <2> QED BY <1>2, <2>1, <2>2, <2>3, <2>5
<1>6. CASE \/ Modify(t) \/ RecordState(t) \/ MergePut(t) \/ IndexState(t)
           \/ MarkRows(t) \/ AskScan(t)
  <2>1. dev' = dev
    BY <1>6 DEF Modify, RecordState, MergePut, IndexState, MarkRows, AskScan
  <2> QED BY <1>3, <2>1
<1>7. CASE CheckDevices(t) \/ RemoveAll(t)
  BY <1>3, <1>7 DEF CheckDevices, RemoveAll
<1>8. CASE Detecting(t)
  <2>1. dev' = dev
    BY <1>8 DEF Detecting, Observe, Ignore, Forget, Run, Halt, SetDetect,
                Find, Await, SetEnable, Erase, RequestMeta
  <2> QED BY <1>3, <2>1
<1>9. CASE GetDeviceMeta
  BY <1>3, <1>9 DEF GetDeviceMeta
<1> QED BY <1>4, <1>5, <1>6, <1>7, <1>8, <1>9 DEF Thread, Plugging, Observing

LEMMA DeviceTypedNext ==
    ASSUME Base, KnownInv, [Next]_vars PROVE DevInv'
<1>1. dev \in [Devices -> Record]
  BY DEF Base, Typed, TypeOK
<1>2. CASE dev' = dev
  BY <1>1, <1>2 DEF DevInv, KnownInv
<1>3. CASE \E t \in Threads : Thread(t)
  BY <1>3, DeviceTyped
<1>4. CASE \E d \in Devices : ScanEnds(d)
  <2>1. PICK d \in Devices : ScanEnds(d)
    BY <1>4
  <2>2. dev' = [dev EXCEPT ![d].asked = FALSE]
    BY <2>1 DEF ScanEnds
  <2>3. PICK s : s = [dev[d] EXCEPT !.asked = FALSE]
    OBVIOUS
  <2>4. dev[d] \in Record /\ (~dev[d].known => ~dev[d].avail /\ dev[d].alive = 0)
    BY <1>1 DEF KnownInv
  <2>5. s \in Record /\ (~s.known => ~s.avail /\ s.alive = 0)
    BY <2>3, <2>4 DEF Record
  <2>6. dev' = [dev EXCEPT ![d] = s]
    BY <2>2, <2>3
  <2>7. dev' \in [Devices -> Record]
    BY <1>1, <2>5, <2>6
  <2>8. \A e \in Devices : dev'[e] = dev[e] \/ dev'[e] = s
    BY <1>1, <2>6
  <2> QED BY <2>5, <2>7, <2>8 DEF DevInv, KnownInv
<1>5. CASE Crash
  <2>1. dev' = [d \in Devices |-> Unknown]
    BY <1>5 DEF Crash
  <2>2. Unknown \in Record /\ ~Unknown.avail /\ Unknown.alive = 0
    BY DEF Unknown, Record
  <2>3. dev' \in [Devices -> Record] /\ \A d \in Devices : dev'[d] = Unknown
    BY <2>1, <2>2
  <2> QED BY <2>2, <2>3 DEF DevInv, KnownInv
<1>6. CASE \/ \E d \in Devices : ScanStarts(d)
           \/ Browse \/ ServerTrouble \/ Change \/ Swap \/ UNCHANGED vars
  <2>1. dev' = dev
    BY <1>6 DEF ScanStarts, Browse, ServerTrouble, Change, Swap, vars, core
  <2> QED BY <1>2, <2>1
<1>7. CASE \/ DbConnected \/ BusMethod \/ PdmMessage \/ PollRound
           \/ \E p \in Plugins : SettingsFound(p)
           \/ \E t \in Pool : SearchTimeout(t)
           \/ \E t \in Pool, d \in Of("upnp") : Event(t, d)
  <2>1. dev' = dev
    BY <1>7 DEF DbConnected, BusMethod, PdmMessage, PollRound, SettingsFound,
                SearchTimeout, Event, ServiceFound, ServiceLost
  <2> QED BY <1>2, <2>1
<1> QED BY <1>3, <1>4, <1>5, <1>6, <1>7 DEF Next

SetsOK ==
    /\ up \in BOOLEAN /\ subscribed \in BOOLEAN
    /\ plugins \subseteq Plugins /\ running \subseteq Plugins
    /\ finds \subseteq Plugins
    /\ observers \in [Plugins -> SUBSET Observers]
    /\ walking \subseteq Devices
    /\ blacklist \subseteq Devices /\ byebyes \subseteq Devices
DbsOK ==
    /\ record \in [Devices -> {"none", "here", "gone"}]
    /\ rows \in [Devices -> {"none", "clean", "dirty"}]
    /\ settings \in [Plugins -> {"none", "on", "off"}]
MapOK ==
    /\ DOMAIN mounted \subseteq Mounts
    /\ \A m \in DOMAIN mounted : mounted[m] \in Devices

LEMMA TypeParts ==
    TypeOK <=> SetsOK /\ DbsOK /\ MapOK /\ BrowseType
               /\ dev \in [Devices -> Record]
  BY DEF TypeOK, SetsOK, DbsOK, MapOK

\* What a thread does to the databases.
LEMMA DbsOfThread ==
    ASSUME Base, NEW t \in Threads, Thread(t) PROVE DbsOK'
<1>1. CallsInv /\ DbsOK
  BY DEF Base, Typed, TypeOK, DbsOK
<1>2. CASE UNCHANGED dbs
  BY <1>1, <1>2 DEF dbs, DbsOK
<1>3. CASE MergePut(t)
  <2>1. Doing(t, "mergePut")
    BY <1>3 DEF MergePut
  <2>2. ~Idle(t) /\ Next1(t).op = "mergePut"
    BY <2>1 DEF Doing
  <2>3. Next1(t) \in AnyCall
    BY <1>1, <2>2, FirstCall
  <2>4. Next1(t).with \in {"here", "gone"} /\ Next1(t).on \in Devices
    BY <2>2, <2>3, CallTypes DEF DeviceOps
  <2>5. /\ record' = [record EXCEPT ![Next1(t).on] = Next1(t).with]
        /\ UNCHANGED <<rows, settings>>
    BY <1>3 DEF MergePut
  <2> QED BY <1>1, <2>4, <2>5 DEF DbsOK
<1>4. CASE MarkRows(t)
  <2>1. PICK d, flag :
          /\ flag \in {"dirty", "clean"}
          /\ rows' = [rows EXCEPT ![d] = IF @ = "none" THEN @ ELSE flag]
    BY <1>4 DEF MarkRows
  <2>2. UNCHANGED <<record, settings>>
    BY <1>4 DEF MarkRows
  <2> QED BY <1>1, <2>1, <2>2 DEF DbsOK
<1>5. CASE SetEnable(t)
  <2>1. ~Idle(t) /\ Next1(t).op = "setEnable"
    BY <1>5 DEF SetEnable, Doing
  <2>2. Next1(t) \in AnyCall
    BY <1>1, <2>1, FirstCall
  <2>3. Next1(t).with \in {"on", "off"}
    BY <2>1, <2>2, CallTypes
  <2>4. /\ settings' = [settings EXCEPT ![Next1(t).on] = Next1(t).with]
        /\ UNCHANGED <<record, rows>>
    BY <1>5 DEF SetEnable
  <2> QED BY <1>1, <2>3, <2>4 DEF DbsOK
<1>6. CASE Plugging(t)
  <2>1. UNCHANGED Others
    BY <1>6 DEF Plugging, Add, Refresh, Modify, Remove, Inject, Check,
                CheckDevices, RemoveAll
  <2> QED BY <1>2, <2>1 DEF Others
<1>7. CASE RecordState(t) \/ IndexState(t) \/ AskScan(t) \/ PushRequest(t)
  <2>1. UNCHANGED Others
    BY <1>7 DEF RecordState, IndexState, AskScan, PushRequest
  <2> QED BY <1>2, <2>1 DEF Others
<1>8. CASE \/ Observe(t) \/ Ignore(t) \/ Forget(t) \/ Run(t) \/ Halt(t)
           \/ SetDetect(t) \/ Find(t) \/ Await(t) \/ Erase(t) \/ RequestMeta(t)
  <2>1. UNCHANGED dbs
    BY <1>8 DEF Observe, Ignore, Forget, Run, Halt, SetDetect, Find, Await,
                Erase, RequestMeta, Others
  <2> QED BY <1>2, <2>1
<1>9. CASE GetDeviceMeta
  BY <1>2, <1>9 DEF GetDeviceMeta
<1> QED BY <1>3, <1>4, <1>5, <1>6, <1>7, <1>8, <1>9
        DEF Thread, Observing, Detecting

LEMMA DbsNext ==
    ASSUME Base, [Next]_vars PROVE DbsOK'
<1>1. DbsOK
  BY DEF Base, Typed, TypeOK, DbsOK
<1>2. CASE UNCHANGED <<record, rows, settings>>
  BY <1>1, <1>2 DEF DbsOK
<1>3. CASE \E t \in Threads : Thread(t)
  BY <1>3, DbsOfThread
<1>4. CASE \E d \in Devices : ScanEnds(d)
  <2>1. PICK d \in Devices : ScanEnds(d)
    BY <1>4
  <2>2. \E v \in {rows[d], "clean", "none"} : rows' = [rows EXCEPT ![d] = v]
    BY <2>1 DEF ScanEnds
  <2>3. UNCHANGED <<record, settings>>
    BY <2>1 DEF ScanEnds
  <2> QED BY <1>1, <2>2, <2>3 DEF DbsOK
<1>5. CASE \/ \E d \in Devices : ScanStarts(d)
           \/ Browse \/ ServerTrouble \/ Change \/ Swap \/ Crash
           \/ UNCHANGED vars
  <2>1. UNCHANGED <<record, rows, settings>>
    BY <1>5 DEF ScanStarts, Browse, ServerTrouble, Change, Swap, Crash, vars,
                dbs
  <2> QED BY <1>2, <2>1
<1>6. CASE \/ DbConnected \/ BusMethod \/ PdmMessage \/ PollRound
           \/ \E p \in Plugins : SettingsFound(p)
           \/ \E t \in Pool : SearchTimeout(t)
           \/ \E t \in Pool, d \in Of("upnp") : Event(t, d)
  <2>1. UNCHANGED <<record, rows, settings>>
    BY <1>6 DEF DbConnected, BusMethod, PdmMessage, PollRound, SettingsFound,
                SearchTimeout, Event, ServiceFound, ServiceLost, Others, dbs
  <2> QED BY <1>2, <2>1
<1> QED BY <1>3, <1>4, <1>5, <1>6 DEF Next

\* What a thread does to the sets of plugins, observers and devices.
LEMMA SetsOfThread ==
    ASSUME Base, NEW t \in Threads, Thread(t) PROVE SetsOK'
<1>1. CallsInv /\ SetsOK
  BY DEF Base, Typed, TypeOK, SetsOK
<1>2. CASE UNCHANGED <<up, subscribed, plugins, running, finds, observers,
                       walking, blacklist, byebyes>>
  BY <1>1, <1>2 DEF SetsOK
<1>3. CASE Observe(t)
  <2>1. ~Idle(t) /\ Next1(t).op = "observe"
    BY <1>3 DEF Observe, Doing
  <2>2. Next1(t) \in AnyCall
    BY <1>1, <2>1, FirstCall
  <2>3. Next1(t).with \in Observers
    BY <2>1, <2>2, CallTypes
  <2>4. PICK p, o : p = Next1(t).on /\ o = Next1(t).with
    OBVIOUS
  <2>5. observers' = [observers EXCEPT ![p] = observers[p] \cup {o}]
    BY <1>3, <2>4 DEF Observe
  <2>6. observers' \in [Plugins -> SUBSET Observers]
    <3>1. CASE p \in Plugins
      <4>1. observers[p] \cup {o} \in SUBSET Observers
        BY <1>1, <2>3, <2>4, <3>1 DEF SetsOK
      <4> QED BY <1>1, <2>5, <4>1 DEF SetsOK
    <3>2. CASE p \notin Plugins
      BY <1>1, <2>5, <3>2 DEF SetsOK
    <3> QED BY <3>1, <3>2
  <2>7. UNCHANGED <<up, subscribed, plugins, running, finds, walking,
                    blacklist, byebyes>>
    BY <1>3 DEF Observe, dbs, pdm, upnp
  <2> QED BY <1>1, <2>6, <2>7 DEF SetsOK
<1>4. CASE Forget(t)
  <2>1. PICK p \in Plugins, o \in Observers :
          observers' = [observers EXCEPT ![p] = @ \ {o}]
    BY <1>4, ForgetStep
  <2>2. observers' \in [Plugins -> SUBSET Observers]
    BY <1>1, <2>1 DEF SetsOK
  <2>3. UNCHANGED <<up, subscribed, plugins, running, finds, walking,
                    blacklist, byebyes>>
    BY <1>4 DEF Forget, dbs, pdm, upnp
  <2> QED BY <1>1, <2>2, <2>3 DEF SetsOK
<1>5. CASE Run(t)
  <2>1. PICK p \in Plugins : running' = running \cup {p}
    BY <1>5, RunStep
  <2>2. subscribed' \in BOOLEAN
    BY <1>1, <1>5 DEF Run, SetsOK
  <2>3. UNCHANGED <<up, plugins, finds, observers, walking, blacklist,
                    byebyes>>
    BY <1>5 DEF Run, dbs, upnp
  <2> QED BY <1>1, <2>1, <2>2, <2>3 DEF SetsOK
<1>6. CASE Halt(t)
  <2>1. PICK p \in Plugins : running' = running \ {p}
    BY <1>6, HaltStep
  <2>3. UNCHANGED <<up, plugins, finds, observers, walking, blacklist,
                    byebyes, subscribed>>
    BY <1>6 DEF Halt, dbs, upnp, pdm
  <2> QED BY <1>1, <2>1, <2>3 DEF SetsOK
<1>7. CASE Erase(t)
  <2>1. plugins' \subseteq plugins
    BY <1>7 DEF Erase
  <2>3. UNCHANGED <<up, running, finds, observers, walking, blacklist,
                    byebyes, subscribed>>
    BY <1>7 DEF Erase, dbs, upnp, pdm
  <2> QED BY <1>1, <2>1, <2>3 DEF SetsOK
<1>8. CASE GetDeviceMeta
  <2>1. ~Idle("meta") /\ Next1("meta").op = "getDeviceMeta"
    BY <1>8, GetDeviceMetaStep
  <2>2. "meta" \in Threads
    BY DEF Threads
  <2>3. Next1("meta") \in AnyCall
    BY <1>1, <2>1, <2>2, FirstCall
  <2>4. Next1("meta").on \in Devices
    BY <2>1, <2>3, CallTypes DEF DeviceOps
  <2>5. blacklist' \subseteq blacklist \cup {Next1("meta").on}
    BY <1>8 DEF GetDeviceMeta
  <2>6. UNCHANGED <<up, plugins, running, finds, observers, walking, byebyes,
                    subscribed>>
    BY <1>8 DEF GetDeviceMeta, dbs, pdm
  <2> QED BY <1>1, <2>4, <2>5, <2>6 DEF SetsOK
<1>9. CASE Plugging(t) \/ Observing(t)
  <2>1. UNCHANGED <<up, subscribed, plugins, running, finds, observers,
                       walking, blacklist, byebyes>>
    BY <1>9 DEF Plugging, Add, Refresh, Modify, Remove, Inject, Check,
                CheckDevices, RemoveAll, Observing, RecordState, MergePut,
                IndexState, MarkRows, AskScan, PushRequest, BecomeAnd,
                Become, Others, dbs, pdm, upnp
  <2> QED BY <1>2, <2>1
<1>10. CASE \/ Ignore(t) \/ SetDetect(t) \/ Find(t) \/ Await(t)
            \/ SetEnable(t) \/ RequestMeta(t)
  <2>1. UNCHANGED <<up, subscribed, plugins, running, finds, observers,
                       walking, blacklist, byebyes>>
    BY <1>10 DEF Ignore, SetDetect, Find, Await, SetEnable, RequestMeta,
                 Others, dbs, pdm, upnp
  <2> QED BY <1>2, <2>1
<1> QED BY <1>3, <1>4, <1>5, <1>6, <1>7, <1>8, <1>9, <1>10
        DEF Thread, Detecting

LEMMA SetsNext ==
    ASSUME Base, [Next]_vars PROVE SetsOK'
<1>1. SetsOK
  BY DEF Base, Typed, TypeOK, SetsOK
<1>2. CASE UNCHANGED <<up, subscribed, plugins, running, finds, observers,
                       walking, blacklist, byebyes>>
  BY <1>1, <1>2 DEF SetsOK
<1>3. CASE \E t \in Threads : Thread(t)
  BY <1>3, SetsOfThread
<1>4. CASE \E d \in Devices : ScanStarts(d) \/ ScanEnds(d)
  <2>1. walking' \subseteq Devices
    BY <1>1, <1>4 DEF ScanStarts, ScanEnds, SetsOK
  <2>2. UNCHANGED <<up, subscribed, plugins, running, finds, observers,
                    blacklist, byebyes>>
    BY <1>4 DEF ScanStarts, ScanEnds, core, dbs, pdm, upnp
  <2> QED BY <1>1, <2>1, <2>2 DEF SetsOK
<1>5. CASE DbConnected
  <2>1. plugins' \subseteq Plugins /\ up' = TRUE
    BY <1>5, DbConnectedStep DEF DbConnected
  <2>2. UNCHANGED <<subscribed, running, finds, observers, walking,
                    blacklist, byebyes>>
    BY <1>5 DEF DbConnected, dbs, pdm, upnp
  <2> QED BY <1>1, <2>1, <2>2 DEF SetsOK
<1>6. CASE BusMethod
  <2>1. plugins' \subseteq Plugins /\ finds' \subseteq Plugins
    BY <1>6, BusMethodStep
  <2>2. observers' = observers /\ running' = running
    BY <1>6, BusMethodStep
  <2>3. UNCHANGED <<up, subscribed, walking, blacklist, byebyes>>
    BY <1>6 DEF BusMethod, pdm, upnp
  <2> QED BY <1>1, <2>1, <2>2, <2>3 DEF SetsOK
<1>7. CASE \E p \in Plugins : SettingsFound(p)
  <2>1. finds' \subseteq finds
    BY <1>7 DEF SettingsFound
  <2>2. UNCHANGED <<up, subscribed, plugins, running, observers, walking,
                    blacklist, byebyes>>
    BY <1>7 DEF SettingsFound, pdm, upnp
  <2> QED BY <1>1, <2>1, <2>2 DEF SetsOK
<1>8. CASE Change \/ \E t \in Pool, d \in Of("upnp") : ServiceLost(t, d)
  <2>1. byebyes' \subseteq byebyes \cup Present
    BY <1>8 DEF Change, ServiceLost
  <2>2. Present \subseteq Devices
    BY DEF Present
  <2>3. UNCHANGED <<up, subscribed, plugins, running, finds, observers,
                    walking, blacklist>>
    BY <1>8 DEF Change, ServiceLost, core, dbs, pdm
  <2> QED BY <1>1, <2>1, <2>2, <2>3 DEF SetsOK
<1>9. CASE Crash
  <2>1. /\ up' = FALSE /\ subscribed' = FALSE /\ plugins' = {}
        /\ running' = {} /\ finds' = {} /\ walking' = {} /\ blacklist' = {}
        /\ byebyes' = {}
    BY <1>9 DEF Crash
  <2>2. observers' = [p \in Plugins |-> {}]
    BY <1>9 DEF Crash
  <2>3. observers' \in [Plugins -> SUBSET Observers]
    BY <2>2
  <2> QED BY <2>1, <2>3 DEF SetsOK
<1>10. CASE \/ Browse \/ ServerTrouble \/ PdmMessage \/ PollRound \/ Swap
            \/ \E t \in Pool : SearchTimeout(t)
            \/ \E t \in Pool, d \in Of("upnp") : ServiceFound(t, d)
            \/ UNCHANGED vars
  <2>1. UNCHANGED <<up, subscribed, plugins, running, finds, observers,
                    walking, blacklist, byebyes>>
    BY <1>10 DEF Browse, ServerTrouble, PdmMessage, PollRound, Swap,
                 SearchTimeout, ServiceFound, vars, core, dbs, pdm, upnp,
                 Others
  <2> QED BY <1>2, <2>1
<1> QED BY <1>3, <1>4, <1>5, <1>6, <1>7, <1>8, <1>9, <1>10 DEF Next, Event

\* The messages of PDM.
At == [Devices -> Mounts \cup {NoMount}]
Message(m) ==
    /\ m \in [list : BOOLEAN, at : At] /\ Alone(m.at)
    /\ \A d \in Devices : m.at[d] # NoMount => d \in Present /\ Home[d] \in OnPdm
    /\ ~m.list => \A d \in Devices : m.at[d] = NoMount
InboxOK ==
    inbox \in Seq([list : BOOLEAN, at : At])
    /\ \A k \in DOMAIN inbox : Message(inbox[k])
AttachedOK == attached \in At /\ Alone(attached)
MountedOK ==
    /\ mounted = [m \in DOMAIN mounted |-> mounted[m]]
    /\ \A m \in DOMAIN mounted :
         mounted[m] \in Present /\ Home[mounted[m]] \in OnPdm

LEMMA PlacesParts ==
    PlacesInv <=> world \in Worlds /\ AttachedOK /\ InboxOK /\ MountedOK
<1>1. \A S : inbox \in Seq(S) => \A k \in DOMAIN inbox : inbox[k] \in S
  OBVIOUS
<1>2. PlacesInv => InboxOK
  BY <1>1 DEF PlacesInv, InboxOK, Message, At
<1>3. InboxOK => /\ inbox \in Seq([list : BOOLEAN, at : At])
                 /\ \A k \in DOMAIN inbox :
                      /\ Alone(inbox[k].at)
                      /\ \A d \in Devices : inbox[k].at[d] # NoMount =>
                               d \in Present /\ Home[d] \in OnPdm
                      /\ ~inbox[k].list => \A d \in Devices : inbox[k].at[d] = NoMount
  BY DEF InboxOK, Message
<1> QED BY <1>2, <1>3 DEF PlacesInv, AttachedOK, MountedOK, At

LEMMA WorldStays == ASSUME [Next]_vars PROVE world' = world
<1>1. CASE \E t \in Threads : Thread(t)
  <2>1. PICK t \in Threads : Thread(t)
    BY <1>1
  <2>2. CASE Plugging(t) \/ Observing(t)
    BY <2>2 DEF Plugging, Add, Refresh, Modify, Remove, Inject, Check,
                CheckDevices, RemoveAll, Observing, RecordState, MergePut,
                IndexState, MarkRows, AskScan, PushRequest, Others, env
  <2>3. CASE Detecting(t) \/ GetDeviceMeta
    BY <2>3 DEF Detecting, Observe, Ignore, Forget, Run, Halt, SetDetect, Find,
                Await, SetEnable, Erase, RequestMeta, GetDeviceMeta, Others, env
  <2> QED BY <2>1, <2>2, <2>3 DEF Thread
<1>2. CASE \/ \E d \in Devices : ScanStarts(d) \/ ScanEnds(d)
           \/ Browse \/ ServerTrouble \/ Change \/ Swap \/ Crash
           \/ UNCHANGED vars
  BY <1>2 DEF ScanStarts, ScanEnds, Browse, ServerTrouble, Change, Swap,
              Crash, vars, env
<1>3. CASE \/ DbConnected \/ BusMethod \/ PdmMessage \/ PollRound
           \/ \E p \in Plugins : SettingsFound(p)
           \/ \E t \in Pool : SearchTimeout(t)
           \/ \E t \in Pool, d \in Of("upnp") : Event(t, d)
  BY <1>3 DEF DbConnected, BusMethod, PdmMessage, PollRound, SettingsFound,
              SearchTimeout, Event, ServiceFound, ServiceLost, Others, env
<1> QED BY <1>1, <1>2, <1>3 DEF Next

\* Few actions change where devices are, or what PdmListener knows of it.
LEMMA PlacesOfThread ==
    ASSUME Base, NEW t \in Threads, Thread(t)
    PROVE  /\ attached' = attached /\ mounted' = mounted
           /\ Run(t) \/ inbox' = inbox
<1>1. CASE Plugging(t) \/ Observing(t)
  BY <1>1 DEF Plugging, Add, Refresh, Modify, Remove, Inject, Check,
              CheckDevices, RemoveAll, Observing, RecordState, MergePut,
              IndexState, MarkRows, AskScan, PushRequest, Others, env, pdm
<1>2. CASE Detecting(t) \/ GetDeviceMeta
  BY <1>2 DEF Detecting, Observe, Ignore, Forget, Run, Halt, SetDetect, Find,
              Await, SetEnable, Erase, RequestMeta, GetDeviceMeta, Others,
              env, pdm
<1> QED BY <1>1, <1>2 DEF Thread

LEMMA PlacesOfStep ==
    ASSUME Base, [Next]_vars
    PROVE  /\ Change \/ Swap \/ attached' = attached
           /\ PdmMessage \/ Crash \/ mounted' = mounted
           /\ \/ Change \/ Swap \/ Crash \/ PdmMessage \/ inbox' = inbox
              \/ \E t \in Threads : Run(t)
<1>1. CASE \E t \in Threads : Thread(t)
  BY <1>1, PlacesOfThread
<1>2. CASE \/ \E d \in Devices : ScanStarts(d) \/ ScanEnds(d)
           \/ Browse \/ ServerTrouble \/ Change \/ Swap \/ Crash
           \/ UNCHANGED vars
  BY <1>2 DEF ScanStarts, ScanEnds, Browse, ServerTrouble, Change, Swap,
              Crash, vars, env, pdm
<1>3. CASE \/ DbConnected \/ BusMethod \/ PdmMessage \/ PollRound
           \/ \E p \in Plugins : SettingsFound(p)
           \/ \E t \in Pool : SearchTimeout(t)
           \/ \E t \in Pool, d \in Of("upnp") : Event(t, d)
  BY <1>3 DEF DbConnected, BusMethod, PdmMessage, PollRound, SettingsFound,
              SearchTimeout, Event, ServiceFound, ServiceLost, Others, env, pdm
<1> QED BY <1>1, <1>2, <1>3 DEF Next

LEMMA SnapshotIs ==
    ASSUME NEW place \in At, Alone(place), NEW list \in BOOLEAN,
           ~list => \A e \in Devices : place[e] = NoMount \/ Home[e] \notin OnPdm
    PROVE  Message(Snapshot(place, list))
<1>1. PICK m : m = Snapshot(place, list)
  OBVIOUS
<1>2. m = [list |-> list, at |-> [d \in Devices |->
             IF Home[d] \in OnPdm /\ d \in Present THEN place[d] ELSE NoMount]]
  BY <1>1 DEF Snapshot
<1>3. /\ m.list = list
      /\ m.at = [d \in Devices |->
             IF Home[d] \in OnPdm /\ d \in Present THEN place[d] ELSE NoMount]
  BY <1>2
<1>4. m.at \in At
  BY <1>3 DEF At
<1>5. m \in [list : BOOLEAN, at : At]
  BY <1>2, <1>3, <1>4
<1>6. \A d \in Devices : m.at[d] # NoMount =>
        m.at[d] = place[d] /\ d \in Present /\ Home[d] \in OnPdm
  BY <1>3
<1>7. Alone(m.at)
  BY <1>6 DEF Alone
<1>8. ~m.list => \A d \in Devices : m.at[d] = NoMount
  BY <1>3, <1>6
<1> QED BY <1>1, <1>5, <1>6, <1>7, <1>8 DEF Message

LEMMA InboxGrows ==
    ASSUME InboxOK, NEW m, Message(m), inbox' = Append(inbox, m), world' = world
    PROVE  InboxOK'
<1>1. m \in [list : BOOLEAN, at : At]
  BY DEF Message
<1>2. inbox' \in Seq([list : BOOLEAN, at : At])
  BY <1>1 DEF InboxOK
<1>3. \A k \in DOMAIN inbox' : Message(inbox'[k])
  BY <1>1 DEF InboxOK
<1>4. \A x : Message(x)' <=> Message(x)
  BY DEF Message, Present, OnPdm, Factory, build
<1> QED BY <1>2, <1>3, <1>4 DEF InboxOK, At

LEMMA InboxShrinks ==
    ASSUME InboxOK, inbox # <<>>, inbox' = Tail(inbox), world' = world
    PROVE  InboxOK'
<1>1. inbox' \in Seq([list : BOOLEAN, at : At])
  BY DEF InboxOK
<1>2. \A k \in DOMAIN inbox' : k + 1 \in DOMAIN inbox /\ inbox'[k] = inbox[k + 1]
  BY DEF InboxOK
<1>3. \A k \in DOMAIN inbox' : Message(inbox'[k])
  BY <1>2 DEF InboxOK
<1>4. \A x : Message(x)' <=> Message(x)
  BY DEF Message, Present, OnPdm, Factory, build
<1> QED BY <1>1, <1>3, <1>4 DEF InboxOK, At

LEMMA AttachedNext ==
    ASSUME Base, [Next]_vars PROVE AttachedOK'
<1>1. AttachedOK
  BY PlacesParts DEF Base, Typed
<1>2. CASE attached' = attached
  BY <1>1, <1>2 DEF AttachedOK, Alone, At
<1>3. CASE Change
  <2>0. PICK d \in Present : \E m \in Places[d] \cup {NoMount} :
          /\ m # NoMount => \A e \in Devices \ {d} : attached[e] # m
          /\ attached' = [attached EXCEPT ![d] = m]
    BY <1>3 DEF Change
  <2>1. PICK m \in Places[d] \cup {NoMount} :
          /\ m # NoMount => \A e \in Devices \ {d} : attached[e] # m
          /\ attached' = [attached EXCEPT ![d] = m]
    BY <2>0
  <2>2. d \in Devices /\ m \in Mounts \cup {NoMount}
    BY <2>1, PlacesAssumption DEF Present
  <2>3. attached' \in At
    BY <1>1, <2>1, <2>2 DEF AttachedOK, At
  <2>4. Alone(attached')
    BY <1>1, <2>1, <2>2 DEF AttachedOK, Alone, At
  <2> QED BY <2>3, <2>4 DEF AttachedOK, Alone, At
<1>4. CASE Swap
  <2>1. PICK d \in Present, e \in Present :
          /\ d # e /\ attached[d] # NoMount
          /\ \/ attached' = [attached EXCEPT ![d] = NoMount, ![e] = NoMount]
             \/ attached' = [attached EXCEPT ![d] = NoMount,
                                             ![e] = attached[d]]
    BY <1>4 DEF Swap
  <2>2. d \in Devices /\ e \in Devices
    BY DEF Present
  <2>3. attached' \in At
    BY <1>1, <2>1, <2>2 DEF AttachedOK, At
  <2>4. Alone(attached')
    BY <1>1, <2>1, <2>2 DEF AttachedOK, Alone, At
  <2> QED BY <2>3, <2>4 DEF AttachedOK, Alone, At
<1> QED BY <1>2, <1>3, <1>4, PlacesOfStep

LEMMA InboxNext ==
    ASSUME Base, [Next]_vars PROVE InboxOK'
<1>1. AttachedOK /\ InboxOK /\ world' = world
  BY PlacesParts, WorldStays DEF Base, Typed
<1>2. OnPdm' = OnPdm
  BY <1>1 DEF OnPdm, build
<1>3. CASE inbox' = inbox
  <2>1. \A x : Message(x)' <=> Message(x)
    BY <1>1 DEF Message, Present, OnPdm, Factory, build
  <2> QED BY <1>1, <1>3, <2>1 DEF InboxOK, At
<1>4. CASE PdmMessage
  BY <1>1, <1>4, PdmMessageStep, InboxShrinks
<1>5. CASE Crash
  <2>1. inbox' = <<>>
    BY <1>5 DEF Crash
  <2> QED BY <2>1 DEF InboxOK, At
<1>6. CASE \E t \in Threads : Run(t)
  <2>1. inbox' = inbox \/ inbox' = Append(inbox, Snapshot(attached, TRUE))
    BY <1>6 DEF Run
  <2>2. Message(Snapshot(attached, TRUE))
    BY <1>1, SnapshotIs DEF AttachedOK
  <2> QED BY <1>1, <1>3, <2>1, <2>2, InboxGrows
<1>7. ASSUME NEW at, at = attached', NEW list \in BOOLEAN,
             ~list => \A e \in Devices : at[e] = NoMount \/ Home[e] \notin OnPdm,
             inbox' = Append(inbox, Snapshot(at, list))
      PROVE  InboxOK'
  <2>1. AttachedOK'
    BY AttachedNext
  <2>2. at \in At /\ Alone(at)
    BY <1>7, <2>1 DEF AttachedOK, Alone, At
  <2>3. Message(Snapshot(at, list))
    BY <1>7, <2>2, SnapshotIs
  <2> QED BY <1>1, <1>7, <2>3, InboxGrows
<1>8. CASE Change
  <2>1. PICK at : at = attached'
    OBVIOUS
  <2>2. \/ inbox' = inbox
        \/ \E list \in BOOLEAN :
             /\ ~list => \A e \in Devices : attached'[e] = NoMount
                                            \/ Home[e] \notin OnPdm
             /\ inbox' = Append(inbox, [list |-> list, at |-> [d \in Devices |->
                 IF Home[d] \in OnPdm /\ d \in Present THEN attached'[d]
                 ELSE NoMount]])
    BY <1>8 DEF Change, Snapshot
  <2>3. \/ inbox' = inbox
        \/ \E list \in BOOLEAN :
             /\ ~list => \A e \in Devices : at[e] = NoMount \/ Home[e] \notin OnPdm
             /\ inbox' = Append(inbox, Snapshot(at, list))
    BY <2>1, <2>2 DEF Snapshot
  <2> QED BY <1>3, <1>7, <2>1, <2>3
<1>9. CASE Swap
  <2>1. PICK at : at = attached'
    OBVIOUS
  <2>2. \/ inbox' = inbox
        \/ inbox' = Append(inbox, [list |-> TRUE, at |-> [d \in Devices |->
                 IF Home[d] \in OnPdm /\ d \in Present THEN attached'[d]
                 ELSE NoMount]])
    BY <1>9 DEF Swap, Snapshot
  <2>3. inbox' = inbox \/ inbox' = Append(inbox, Snapshot(at, TRUE))
    BY <2>1, <2>2 DEF Snapshot
  <2> QED BY <1>3, <1>7, <2>1, <2>3
<1> QED BY <1>3, <1>4, <1>5, <1>6, <1>8, <1>9, PlacesOfStep

\* deviceMap_ after a list: what was known there, and what is new.
LEMMA MapHandled ==
    ASSUME TypeOK, MountedOK, NEW at \in At, NEW gone, Mapped(at, gone),
           \A d \in Devices : at[d] # NoMount => d \in Present /\ Home[d] \in OnPdm,
           Alone(at)
    PROVE  /\ DOMAIN mounted' \subseteq Mounts
           /\ \A m : m \in DOMAIN mounted' <=>
                /\ m \notin gone
                /\ \/ m \in DOMAIN mounted
                   \/ \E d \in NewlyMounted(at) : at[d] = m
           /\ \A m \in DOMAIN mounted' :
                /\ m \in DOMAIN mounted => mounted'[m] = mounted[m]
                /\ \A d \in NewlyMounted(at) : at[d] = m => mounted'[m] = d
           /\ \A m \in DOMAIN mounted' :
                mounted'[m] \in Present /\ Home[mounted'[m]] \in OnPdm
           /\ mounted' = [m \in DOMAIN mounted' |-> mounted'[m]]
<1>1. PICK fresh : fresh = NewlyMounted(at)
  OBVIOUS
<1>2. mounted' = [m \in (DOMAIN mounted \cup {at[d] : d \in fresh}) \ gone |->
                  IF m \in DOMAIN mounted THEN mounted[m]
                  ELSE CHOOSE d \in fresh : at[d] = m]
  BY <1>1 DEF Mapped
<1>3. \A d \in fresh : /\ d \in Devices /\ at[d] # NoMount /\ at[d] \in Mounts
                       /\ at[d] \notin DOMAIN mounted
  BY <1>1 DEF NewlyMounted, Listed, At
<1>4. DOMAIN mounted' = (DOMAIN mounted \cup {at[d] : d \in fresh}) \ gone
  BY <1>2
<1>5. DOMAIN mounted' \subseteq Mounts
  BY <1>3, <1>4 DEF TypeOK
<1>6. \A m \in DOMAIN mounted' : m \in DOMAIN mounted => mounted'[m] = mounted[m]
  BY <1>2, <1>4
<1>7. ASSUME NEW m \in DOMAIN mounted', NEW d \in fresh, at[d] = m
      PROVE  mounted'[m] = d
  <2>1. mounted'[m] = CHOOSE e \in fresh : at[e] = m
    BY <1>2, <1>3, <1>4, <1>7
  <2>2. mounted'[m] \in fresh /\ at[mounted'[m]] = m
    BY <1>7, <2>1
  <2> QED BY <1>3, <1>7, <2>2 DEF Alone
<1>8. \A m \in DOMAIN mounted' : m \in DOMAIN mounted \/ \E d \in fresh : at[d] = m
  BY <1>4
<1>9. \A m \in DOMAIN mounted' :
        mounted'[m] \in Present /\ Home[mounted'[m]] \in OnPdm
  BY <1>3, <1>6, <1>7, <1>8 DEF MountedOK
<1>10. mounted' = [m \in DOMAIN mounted' |-> mounted'[m]]
  BY <1>2, <1>4
<1>11. \A m : m \in DOMAIN mounted' <=>
                /\ m \notin gone
                /\ \/ m \in DOMAIN mounted
                   \/ \E d \in fresh : at[d] = m
  BY <1>4
<1> QED BY <1>1, <1>5, <1>6, <1>7, <1>9, <1>10, <1>11

LEMMA MountedNext ==
    ASSUME Base, [Next]_vars PROVE MountedOK' /\ MapOK'
<1>1. TypeOK /\ MountedOK /\ MapOK /\ InboxOK /\ world' = world
  BY PlacesParts, WorldStays, TypeParts DEF Base, Typed
<1>2. Present' = Present /\ OnPdm' = OnPdm
  BY <1>1 DEF Present, OnPdm, Factory, build
<1>3. CASE mounted' = mounted
  BY <1>1, <1>2, <1>3 DEF MountedOK, MapOK
<1>4. ASSUME mounted' = [m \in {} |-> NoMount] PROVE MountedOK' /\ MapOK'
  <2>1. DOMAIN mounted' = {}
    BY <1>4
  <2>2. mounted' = [m \in DOMAIN mounted' |-> mounted'[m]]
    BY <1>4
  <2> QED BY <2>1, <2>2 DEF MountedOK, MapOK
<1>5. CASE Crash
  BY <1>4, <1>5 DEF Crash
<1>6. CASE PdmMessage
  <2>1. PICK more \in Seq(AnyCall) : Handled(Head(inbox), more)
    BY <1>6, PdmMessageStep
  <2>2. inbox # <<>>
    BY <1>6, PdmMessageStep
  <2>3. Message(Head(inbox))
    BY <1>1, <2>2 DEF InboxOK
  <2>4. CASE ~Head(inbox).list
    BY <1>4, <2>1, <2>4 DEF Handled
  <2>5. CASE Head(inbox).list
    <3>1. PICK at : at = Head(inbox).at
      OBVIOUS
    <3>2. PICK gone : Mapped(at, gone)
      BY <2>1, <2>5, <3>1 DEF Handled, ListHandled
    <3>3. /\ at \in At /\ Alone(at)
          /\ \A d \in Devices : at[d] # NoMount => d \in Present /\ Home[d] \in OnPdm
      BY <2>3, <3>1 DEF Message
    <3>4. /\ DOMAIN mounted' \subseteq Mounts
          /\ \A m \in DOMAIN mounted' :
               mounted'[m] \in Present /\ Home[mounted'[m]] \in OnPdm
          /\ mounted' = [m \in DOMAIN mounted' |-> mounted'[m]]
      BY <1>1, <3>2, <3>3, MapHandled
    <3> QED BY <1>2, <3>4 DEF MountedOK, MapOK, Present
  <2> QED BY <2>4, <2>5
<1> QED BY <1>3, <1>5, <1>6, PlacesOfStep

LEMMA BrowseOfThread ==
    ASSUME NEW t \in Threads, Thread(t) PROVE UNCHANGED browseVars
<1>1. CASE Plugging(t) \/ Observing(t)
  BY <1>1 DEF Plugging, Add, Refresh, Modify, Remove, Inject, Check,
              CheckDevices, RemoveAll, Observing, RecordState, MergePut,
              IndexState, MarkRows, AskScan, PushRequest, Others
<1>2. CASE Detecting(t) \/ GetDeviceMeta
  BY <1>2 DEF Detecting, Observe, Ignore, Forget, Run, Halt, SetDetect, Find,
              Await, SetEnable, Erase, RequestMeta, GetDeviceMeta, Others
<1> QED BY <1>1, <1>2 DEF Thread

LEMMA BrowseNext ==
    ASSUME Base, [Next]_vars PROVE BrowseType'
<1>1. BrowseType
  BY DEF Base, Typed, TypeOK
<1>2. CASE UNCHANGED browseVars
  BY <1>1, <1>2, BrowseTyped
<1>3. CASE \E t \in Threads : Thread(t)
  BY <1>2, <1>3, BrowseOfThread
<1>4. CASE \E d \in Devices : ScanStarts(d) \/ ScanEnds(d)
  <2>1. StartBrowse \/ EndBrowse \/ UNCHANGED browseVars
    BY <1>4 DEF ScanStarts, ScanEnds
  <2> QED BY <1>1, <2>1, BrowseTyped
<1>5. CASE Browse \/ ServerTrouble
  <2>1. \E b \in BOOLEAN : BrowseStep(b) \/ BrowseTrouble
    BY <1>5 DEF Browse, ServerTrouble
  <2> QED BY <1>1, <2>1, BrowseTyped
<1>6. CASE Crash
  <2>1. /\ browse' = <<>> /\ spoiled' = FALSE /\ content' = content
        /\ delivered' = [o \in Objects |-> 0]
    BY <1>6 DEF Crash
  <2>2. delivered' \in [Objects -> 0 .. MaxDelivered]
    BY <2>1 DEF MaxDelivered
  <2>3. browse' \in Seq(BrowseCalls)
    BY <2>1
  <2>4. content' \in [Objects -> Seq(Objects)]
    BY <1>1, <2>1 DEF BrowseType
  <2> QED BY <2>1, <2>2, <2>3, <2>4 DEF BrowseType, BrowseCalls
<1>7. CASE Change \/ Swap \/ UNCHANGED vars
  BY <1>2, <1>7 DEF Change, Swap, vars
<1>8. CASE \/ DbConnected \/ BusMethod \/ PdmMessage \/ PollRound
           \/ \E p \in Plugins : SettingsFound(p)
           \/ \E t \in Pool : SearchTimeout(t)
           \/ \E t \in Pool, d \in Of("upnp") : Event(t, d)
  <2>1. UNCHANGED browseVars
    BY <1>8 DEF DbConnected, BusMethod, PdmMessage, PollRound, SettingsFound,
                SearchTimeout, Event, ServiceFound, ServiceLost, Others
  <2> QED BY <1>2, <2>1
<1> QED BY <1>3, <1>4, <1>5, <1>6, <1>7, <1>8 DEF Next

Sound == Base /\ KnownInv

LEMMA SoundNext == Sound /\ [Next]_vars => Sound'
<1> SUFFICES ASSUME Sound, [Next]_vars PROVE Sound'
  OBVIOUS
<1> USE DEF Sound
<1>1. CallsInv' /\ MainSplits' /\ KnownInv'
  BY CallsStep, DeviceTypedNext DEF DevInv
<1>2. SetsOK' /\ DbsOK' /\ MapOK' /\ BrowseType' /\ (dev \in [Devices -> Record])'
  BY SetsNext, DbsNext, MountedNext, BrowseNext, DeviceTypedNext DEF DevInv
<1>3. TypeOK'
  <2>1. (SetsOK /\ DbsOK /\ MapOK /\ BrowseType /\ dev \in [Devices -> Record])'
    BY <1>2
  <2>2. (TypeOK <=> SetsOK /\ DbsOK /\ MapOK /\ BrowseType
                    /\ dev \in [Devices -> Record])'
    BY TypeParts, PTL
  <2> QED BY <2>1, <2>2
<1>4. PlacesInv'
  <2>1. world' \in Worlds
    BY WorldStays DEF Base, Typed, PlacesInv
  <2>2. AttachedOK' /\ InboxOK' /\ MountedOK'
    BY AttachedNext, InboxNext, MountedNext
  <2>3. (PlacesInv <=> world \in Worlds /\ AttachedOK /\ InboxOK /\ MountedOK)'
    BY PlacesParts, PTL
  <2> QED BY <2>1, <2>2, <2>3
<1> QED BY <1>1, <1>3, <1>4 DEF Base, Typed

LEMMA SoundInit == Init => Sound
<1> SUFFICES ASSUME Init PROVE Sound
  OBVIOUS
<1>1. world \in Worlds
  BY DEF Init
<1>2. SetsOK
  <2>1. observers = [p \in Plugins |-> {}]
    BY DEF Init
  <2>2. observers \in [Plugins -> SUBSET Observers]
    BY <2>1
  <2> QED BY <2>2 DEF Init, SetsOK
<1>3. DbsOK
  BY DEF Init, DbsOK
<1>4. mounted = [m \in {} |-> NoMount]
  BY DEF Init
<1>5. DOMAIN mounted = {} /\ mounted = [m \in DOMAIN mounted |-> mounted[m]]
  BY <1>4
<1>6. MapOK /\ MountedOK
  BY <1>5 DEF MapOK, MountedOK
<1>7. BrowseType
  <2>1. BrowseInit(world)
    BY DEF Init
  <2>2. world.content \in [Objects -> Seq(Objects)]
    BY <1>1, WorldsAssumption
  <2>3. /\ content = world.content /\ browse = <<>> /\ spoiled = FALSE
        /\ delivered = [o \in Objects |-> 0]
    BY <2>1 DEF BrowseInit
  <2>4. content \in [Objects -> Seq(Objects)]
    BY <2>2, <2>3
  <2>5. delivered \in [Objects -> 0 .. MaxDelivered]
    BY <2>3 DEF MaxDelivered
  <2>6. browse \in Seq(BrowseCalls)
    BY <2>3
  <2>7. spoiled \in BOOLEAN
    BY <2>3
  <2> QED BY <2>4, <2>5, <2>6, <2>7 DEF BrowseType, BrowseCalls
<1>8. dev \in [Devices -> Record] /\ KnownInv
  <2>1. dev = [d \in Devices |-> Unknown]
    BY DEF Init
  <2>2. Unknown \in Record /\ ~Unknown.avail /\ Unknown.alive = 0
    BY DEF Unknown, Record
  <2>3. \A d \in Devices : dev[d] = Unknown
    BY <2>1
  <2>4. dev \in [Devices -> Record]
    BY <2>1, <2>2
  <2> QED BY <2>2, <2>3, <2>4 DEF KnownInv
<1>9. TypeOK
  BY <1>2, <1>3, <1>6, <1>7, <1>8, TypeParts
<1>10. AttachedOK
  <2>1. PICK S : S = {o \in Devices : Home[o] = "storage" \/ o \in world.there}
    OBVIOUS
  <2>2. attached = [d \in Devices |->
                     IF Home[d] = "storage" \/ d \in world.there
                     THEN PathOf(d) ELSE NoMount]
    BY DEF Init
  <2>3. \A d \in Devices : attached[d] = IF d \in S THEN PathOf(d) ELSE NoMount
    BY <2>1, <2>2
  <2>4. \A d, e \in S : PathOf(d) = PathOf(e) => d = e
    BY <1>1, <2>1, ThereAssumption
  <2>5. attached \in At
    BY <2>2, PathIs DEF At
  <2>6. Alone(attached)
    BY <2>3, <2>4 DEF Alone
  <2> QED BY <2>5, <2>6 DEF AttachedOK
<1>11. InboxOK
  <2>1. inbox = <<>>
    BY DEF Init
  <2> QED BY <2>1 DEF InboxOK
<1>12. PlacesInv
  BY <1>1, <1>6, <1>10, <1>11, PlacesParts
<1>13. stack = [t \in Threads |-> <<>>]
  BY DEF Init
<1>14. CallsInv
  <2>1. stack \in [Threads -> Seq(AnyCall)]
    BY <1>13
  <2>2. \A t \in Threads : CallsOf(t) = {}
    BY <1>13 DEF CallsOf
  <2> QED BY <2>1, <2>2 DEF CallsInv
<1>15. MainSplits
  <2>1. stack["main"] = <<>>
    BY <1>13, MainIsThread
  <2>2. \A p \in Plugins : observers[p] = {} /\ p \notin running
    BY DEF Init
  <2>3. \A p \in Plugins : Settled(p)
    BY <2>2 DEF Settled, Has
  <2>4. "msc" \in Plugins
    BY DEF Plugins
  <2>5. <<>> \o (<<>> \o <<>>) = <<>>
    OBVIOUS
  <2>6. Splits(<<>>, "msc", <<>>, <<>>)
    BY <2>1, <2>3, <2>4, <2>5 DEF Splits, Doable
  <2>7. /\ <<>> \in Seq(WorkCalls) /\ <<>> \in Seq(PluginCalls)
        /\ <<>> \in Seq(DetectCalls)
    OBVIOUS
  <2>8. \E work \in Seq(WorkCalls), plan \in Seq(PluginCalls),
           rest \in Seq(DetectCalls) : Splits(work, "msc", plan, rest)
    BY <2>6, <2>7, Zenon
  <2> QED BY <2>4, <2>8, Zenon DEF MainSplits
<1> QED BY <1>8, <1>9, <1>12, <1>14, <1>15 DEF Sound, Base, Typed

LEMMA AlwaysSound == Spec => []Sound
  BY SoundInit, SoundNext, PTL DEF Spec

\* What the main loop is in the middle of is always told by its calls.
LEMMA MainSafe == Spec => []MainInv
<1>1. Sound => MainInv
  BY SplitIsMain DEF Sound, Base
<1> QED BY <1>1, AlwaysSound, PTL

\* Every variable of plugins, observers, devices, databases, PdmListener and
\* the browsing of UPnP servers has the values that its part of the code can
\* give it, in every build, with any devices, threads and servers.
THEOREM DeviceTyping == Spec => []TypeOK
<1>1. Sound => TypeOK
  BY DEF Sound, Base, Typed
<1> QED BY <1>1, AlwaysSound, PTL

\* Between two handlers of the main loop every plugin has both observers or
\* none, and its device detection runs exactly when it has them: setDetect,
\* putPlugin and what SettingsDb starts leave no other state behind, whatever
\* their order and whatever other threads do between the calls that they make.
THEOREM DetectionSafe == Spec => []DetectionFollowsObservers
<1>1. ASSUME Sound PROVE DetectionFollowsObservers
  <2>1. ASSUME Idle("main") PROVE \A p \in Plugins : Settled(p)
    BY <1>1, <2>1, MainIdle DEF Sound, Base
  <2>2. \A p \in Plugins : Settled(p) =>
            /\ observers[p] \in {{}, Observers}
            /\ p \in running <=> observers[p] # {}
    BY DEF Settled, Has, Observers
  <2> QED BY <2>1, <2>2 DEF DetectionFollowsObservers
<1> QED BY <1>1, AlwaysSound, PTL

=============================================================================
