--------------------------- MODULE BusCallsProofs ---------------------------
(***************************************************************************)
(* Proofs about BusCalls, for any connectors, threads and worlds: types,   *)
(* and that every answer finds the session of its call.                    *)
(***************************************************************************)
EXTENDS BusCalls, TLAPS

LEMMA InitTypeOK == Init => TypeOK
  BY WorldsAssumption, NamesAssumption
  DEF Init, TypeOK, Threads, Loops, None

\* A new call of thread t is a call.
LEMMA NewCall ==
    ASSUME TypeOK, NEW t \in Threads, NEW j \in Job
    PROVE  [by |-> t, nth |-> made[t], op |-> j.op, on |-> j.on] \in Call
  BY DEF TypeOK, Job, Call

LEMMA PendingAreCalls ==
    ASSUME TypeOK, NEW k PROVE Pending(k) \subseteq Call
  BY DEF TypeOK, Pending

LEMMA MakeTypeOK ==
    ASSUME TypeOK, NEW t \in Threads, NEW c \in Call, Make(t, c)
    PROVE  /\ call' \in [Threads -> Call \cup {None}]
           /\ pc' \in [Threads -> {"idle", "peek", "block", "blocked", "enter",
                           "static", "call", "note", "check", "sleep",
                           "asleep", "woken", "late", "search", "token"}]
           /\ overlapped' \subseteq Call
           /\ \A u \in Threads : pc'[u] # "idle" => call'[u] \in Call
  <1>1. Pending(c.on) \subseteq Call
    BY PendingAreCalls
  <1> QED
    BY <1>1 DEF TypeOK, Make, Go

\* What a thread that is not idle sends, and what a loop serves.
LEMMA CallFacts ==
    ASSUME TypeOK, NEW t \in Threads, pc[t] # "idle"
    PROVE  /\ call[t] \in Call /\ call[t].on \in Connectors
           /\ call[t].by \in Threads /\ call[t].nth \in Nat
           /\ call[t].op \in Ops /\ Static(call[t]) \in {"sync", "async"}
  <1>1. call[t] \in Call
    BY DEF TypeOK
  <1> QED
    BY <1>1 DEF Call, Static

LEMMA ServingFacts ==
    ASSUME TypeOK, NEW l \in Loops, step[l] # "idle"
    PROVE  /\ serving[l] \in Call /\ LoopOf(serving[l]) = l
           /\ serving[l].by \in Threads /\ serving[l].nth \in Nat
           /\ serving[l].op \in Ops /\ Static(serving[l]) \in {"sync", "async"}
           /\ l = "main" <=> serving[l].op = "search"
           /\ l # "main" => serving[l].on = l
  <1>1. serving[l] \in Call /\ LoopOf(serving[l]) = l
    BY DEF TypeOK
  <1>2. serving[l].on \in Connectors
    BY <1>1 DEF Call
  <1> QED
    BY <1>1, <1>2, NamesAssumption DEF Call, Static, LoopOf

LEMMA SenderTypeOK ==
    ASSUME TypeOK, NEW t \in Threads, SendMessage(t) PROVE TypeOK'
  <1> USE DEF sender, wrapper, start, bus, server, history, At, Go
  <1>1. CASE Begin(t)
    <2>1. todo[t] \in Seq(Job) /\ todo[t] # <<>>
      BY <1>1 DEF Begin, TypeOK
    <2>2. Head(todo[t]) \in Job /\ Tail(todo[t]) \in Seq(Job)
      BY <2>1
    <2> DEFINE c == [by |-> t, nth |-> made[t],
                     op |-> Head(todo[t]).op, on |-> Head(todo[t]).on]
    <2>3. c \in Call /\ Make(t, c)
      BY <1>1, <2>2, NewCall DEF Begin
    <2> HIDE DEF c
    <2>4. /\ call' \in [Threads -> Call \cup {None}]
          /\ pc' \in [Threads -> {"idle", "peek", "block", "blocked", "enter",
                           "static", "call", "note", "check", "sleep",
                           "asleep", "woken", "late", "search", "token"}]
          /\ overlapped' \subseteq Call
          /\ \A u \in Threads : pc'[u] # "idle" => call'[u] \in Call
      BY <2>3, MakeTypeOK
    <2>5. todo' \in [Threads -> Seq(Job)] /\ made' \in [Threads -> Nat]
      BY <1>1, <2>2 DEF Begin, TypeOK
    <2> QED
      BY <1>1, <2>4, <2>5 DEF Begin, TypeOK
  <1>2. CASE Peek(t) \/ Block(t) \/ FallAsleep(t) \/ TimeOut(t)
    BY <1>2 DEF TypeOK, Peek, Block, FallAsleep, TimeOut
  <1> SUFFICES ASSUME pc[t] # "idle" PROVE TypeOK'
    <2>1. ~Begin(t) /\ ~(Peek(t) \/ Block(t) \/ FallAsleep(t) \/ TimeOut(t))
          => pc[t] # "idle"
      BY DEF SendMessage, SetHandler, LockStatic, Sent, Refused,
             RememberSession, CheckFlag, Sleep, WakeUp, GiveUp, Search,
             SearchRefused, RememberSearch
    <2> QED
      BY <1>1, <1>2, <2>1
  <1> DEFINE c == call[t]
  <1>3. /\ c \in Call /\ c.on \in Connectors
        /\ Static(c) \in {"sync", "async"}
    BY CallFacts
  <1>4. CASE SetHandler(t)
    BY <1>3, <1>4 DEF TypeOK, SetHandler, Free
  <1>5. CASE WakeUp(t)
    BY <1>3, <1>5 DEF TypeOK, WakeUp, Free
  <1>6. CASE Sleep(t)
    BY <1>3, <1>6 DEF TypeOK, Sleep
  <1>7. CASE LockStatic(t)
    BY <1>3, <1>7 DEF TypeOK, LockStatic
  <1>8. CASE Sent(t) \/ Search(t)
    BY <1>3, <1>8 DEF TypeOK, Sent, Search
  <1>9. ASSUME NEW ok, Return(t, ok)
        PROVE  /\ call' \in [Threads -> Call \cup {None}]
               /\ pc' = [pc EXCEPT ![t] = "idle"]
               /\ astray' \subseteq Call
               /\ \A u \in Threads : pc'[u] # "idle" => call'[u] \in Call
    BY <1>3, <1>9 DEF TypeOK, Return
  <1>10. CASE Refused(t)
    <2>1. Return(t, FALSE)
      BY <1>10 DEF Refused
    <2> QED
      BY <1>3, <1>9, <1>10, <2>1 DEF TypeOK, Refused
  <1>11. CASE GiveUp(t)
    <2>1. Return(t, FALSE)
      BY <1>11 DEF GiveUp
    <2> QED
      BY <1>3, <1>9, <1>11, <2>1 DEF TypeOK, GiveUp
  <1>12. CASE RememberSession(t)
    <2>1. sessions' \subseteq Call
      BY <1>3, <1>12 DEF TypeOK, RememberSession
    <2>2. static' \in [{"sync", "async"} -> Threads \cup {Nobody}]
      BY <1>3, <1>12 DEF TypeOK, RememberSession
    <2>3. CASE c.op \in Sync
      BY <1>3, <1>12, <2>1, <2>2, <2>3 DEF TypeOK, RememberSession
    <2>4. CASE c.op \notin Sync
      <3>1. Return(t, TRUE)
        BY <1>12, <2>4 DEF RememberSession
      <3> QED
        BY <1>3, <1>9, <1>12, <2>1, <2>2, <2>4, <3>1
        DEF TypeOK, RememberSession
    <2> QED
      BY <2>3, <2>4
  <1>13. CASE CheckFlag(t)
    <2>1. Return(t, TRUE)
      BY <1>13 DEF CheckFlag
    <2> QED
      BY <1>3, <1>9, <1>13, <2>1 DEF TypeOK, CheckFlag
  <1>14. CASE SearchRefused(t)
    <2>1. Return(t, FALSE)
      BY <1>14 DEF SearchRefused
    <2> QED
      BY <1>3, <1>9, <1>14, <2>1 DEF TypeOK, SearchRefused
  <1>15. CASE RememberSearch(t)
    <2>1. Return(t, TRUE)
      BY <1>15 DEF RememberSearch
    <2> QED
      BY <1>3, <1>9, <1>15, <2>1 DEF TypeOK, RememberSearch
  <1> QED
    BY <1>1, <1>2, <1>4, <1>5, <1>6, <1>7, <1>8, <1>10, <1>11, <1>12, <1>13,
       <1>14, <1>15 DEF SendMessage

LEMMA ServerTypeOK ==
    ASSUME TypeOK, MainInv, NEW l \in Loops, ServeAnswer(l)
    PROVE  TypeOK' /\ MainInv'
  <1> USE DEF sender, wrapper, start, bus, server, history, At, Go
  <1>1. CASE TakeAnswer(l)
    BY <1>1 DEF TypeOK, MainInv, TakeAnswer
  <1> SUFFICES ASSUME step[l] # "idle" PROVE TypeOK' /\ MainInv'
    <2>1. ~TakeAnswer(l) => step[l] # "idle"
      BY DEF ServeAnswer, Callback, Handle, SendNested, Wake
    <2> QED
      BY <1>1, <2>1
  <1> DEFINE c == serving[l]
  <1>2. /\ c \in Call /\ LoopOf(c) = l /\ Static(c) \in {"sync", "async"}
        /\ l = "main" <=> c.op = "search"
    BY ServingFacts
  <1>3. l \in Threads /\ (l # "main" => l \in Connectors)
    BY DEF Threads, Loops
  <1>4. CASE Callback(l)
    <2>1. l # "main"
      BY <1>4 DEF MainInv, Callback
    <2> QED
      BY <1>2, <1>3, <1>4, <2>1 DEF TypeOK, MainInv, Callback
  <1>5. CASE Handle(l)
    <2>1. cell' \in [Connectors -> Call \cup {None}]
      BY <1>2, <1>5 DEF TypeOK, Handle, Stored
    <2>2. sessions' \subseteq Call /\ done' \subseteq Call /\ missed' \subseteq Call
      BY <1>2, <1>5 DEF TypeOK, Handle
    <2>3. CASE l = "main"
      BY <1>2, <1>3, <1>5, <2>1, <2>2, <2>3 DEF TypeOK, MainInv, Handle
    <2>4. CASE l # "main"
      BY <1>2, <1>3, <1>5, <2>1, <2>2, <2>4 DEF TypeOK, MainInv, Handle
    <2> QED
      BY <2>3, <2>4
  <1>6. CASE SendNested(l)
    <2> DEFINE n == [by |-> l, nth |-> made[l], op |-> "put", on |-> l]
    <2>1. l # "main"
      BY <1>6 DEF SendNested, MainInv
    <2>2. n \in Call
      BY <1>3, <2>1 DEF Call, Ops, TypeOK
    <2>3. Make(l, n)
      BY <1>6 DEF SendNested
    <2> HIDE DEF n
    <2>4. /\ call' \in [Threads -> Call \cup {None}]
          /\ pc' \in [Threads -> {"idle", "peek", "block", "blocked", "enter",
                           "static", "call", "note", "check", "sleep",
                           "asleep", "woken", "late", "search", "token"}]
          /\ overlapped' \subseteq Call
          /\ \A u \in Threads : pc'[u] # "idle" => call'[u] \in Call
      BY <1>3, <2>2, <2>3, MakeTypeOK
    <2>5. /\ step' = [step EXCEPT ![l] = "wake"]
          /\ made' = [made EXCEPT ![l] = @ + 1]
          /\ UNCHANGED <<world, todo, wrapper, start, static, sessions, bus,
                         serving, begun, done, missed, astray>>
      BY <1>6 DEF SendNested
    <2>6. made' \in [Threads -> Nat]
      BY <1>3, <2>5 DEF TypeOK
    <2>7. step' \in [Loops -> {"idle", "callback", "handle", "nested", "wake"}]
          /\ \A k \in Loops : step'[k] # "idle" =>
                 serving[k] \in Call /\ LoopOf(serving[k]) = k
      BY <1>2, <2>5 DEF TypeOK
    <2> QED
      BY <2>1, <2>4, <2>5, <2>6, <2>7 DEF TypeOK, MainInv
  <1>7. CASE Wake(l)
    <2>1. l # "main"
      BY <1>7 DEF Wake, MainInv
    <2> QED
      BY <1>2, <1>3, <1>7, <2>1 DEF TypeOK, MainInv, Wake, Asleep
  <1> QED
    BY <1>1, <1>4, <1>5, <1>6, <1>7 DEF ServeAnswer

LEMMA OtherTypeOK ==
    TypeOK /\ (\/ \E k \in Connectors : RunConnector(k)
               \/ \E c \in asked : Answer(c)
               \/ UNCHANGED vars) => TypeOK'
  <1> USE DEF sender, wrapper, start, bus, server, history, At, Go
  <1>1. ASSUME TypeOK, NEW k \in Connectors, RunLoop(k) PROVE TypeOK'
    BY <1>1 DEF TypeOK, RunLoop
  <1>2. ASSUME TypeOK, NEW k \in Connectors, NotifyStart(k) PROVE TypeOK'
    BY <1>2 DEF TypeOK, NotifyStart, Blocked
  <1>3. ASSUME TypeOK, NEW c \in asked, Answer(c) PROVE TypeOK'
    BY <1>3 DEF TypeOK, Answer
  <1>4. TypeOK /\ UNCHANGED vars => TypeOK'
    BY DEF TypeOK, vars
  <1> QED
    BY <1>1, <1>2, <1>3, <1>4 DEF RunConnector

LEMMA NextMainInv == MainInv /\ [Next]_vars /\ TypeOK => MainInv'
  <1> USE DEF sender, wrapper, start, bus, server, history
  <1>1. ASSUME NEW t \in Threads, SendMessage(t) PROVE step' = step
    BY <1>1 DEF SendMessage, Begin, Peek, Block, SetHandler, LockStatic, Sent,
       Refused, RememberSession, CheckFlag, FallAsleep, Sleep, WakeUp,
       TimeOut, GiveUp, Search, SearchRefused, RememberSearch
  <1>2. ASSUME NEW k \in Connectors, RunConnector(k) PROVE step' = step
    BY <1>2 DEF RunConnector, RunLoop, NotifyStart
  <1>3. ASSUME NEW c \in asked, Answer(c) PROVE step' = step
    BY <1>3 DEF Answer
  <1>4. UNCHANGED vars => step' = step
    BY DEF vars
  <1> QED
    BY <1>1, <1>2, <1>3, <1>4, ServerTypeOK DEF Next, Running, MainInv

LEMMA NextTypeOK == TypeOK /\ MainInv /\ [Next]_vars => TypeOK'
  BY SenderTypeOK, ServerTypeOK, OtherTypeOK DEF Next, Running

\* Every variable keeps its type, whatever connectors and threads call.
THEOREM Typing == Spec => []TypeOK
  <1>1. Init => TypeOK /\ MainInv
    BY InitTypeOK, NamesAssumption DEF Init, MainInv, Loops
  <1>2. TypeOK /\ MainInv /\ [Next]_vars => (TypeOK /\ MainInv)'
    BY NextTypeOK, NextMainInv
  <1> QED
    BY <1>1, <1>2, PTL DEF Spec

----------------------------------------------------------------------------
(***************************************************************************)
(* Every answer finds the session of its call.                             *)
(***************************************************************************)
\* A step of a sender t changes nothing of the other threads.
LEMMA SenderFrame ==
    ASSUME TypeOK, NEW t \in Threads, SendMessage(t)
    PROVE  /\ UNCHANGED <<step, serving, arrived, missed>>
           /\ \A u \in Threads \ {t} :
                  pc'[u] = pc[u] /\ call'[u] = call[u] /\ made'[u] = made[u]
  <1> USE DEF sender, wrapper, start, bus, server, history, At, Go
  <1>1. UNCHANGED <<step, serving, arrived, missed>>
    BY DEF SendMessage, Begin, Peek, Block, SetHandler, LockStatic, Sent,
       Refused, RememberSession, CheckFlag, FallAsleep, Sleep, WakeUp,
       TimeOut, GiveUp, Search, SearchRefused, RememberSearch
  <1>2. ASSUME Begin(t)
        PROVE  \A u \in Threads \ {t} :
                  pc'[u] = pc[u] /\ call'[u] = call[u] /\ made'[u] = made[u]
    BY <1>2 DEF Begin, Make, TypeOK
  <1>3. ASSUME NEW ok, Return(t, ok)
        PROVE  \A u \in Threads \ {t} : pc'[u] = pc[u] /\ call'[u] = call[u]
    BY <1>3 DEF Return, TypeOK
  <1>4. ~Begin(t) => made' = made
    BY DEF SendMessage, Peek, Block, SetHandler, LockStatic, Sent,
       Refused, RememberSession, CheckFlag, FallAsleep, Sleep, WakeUp,
       TimeOut, GiveUp, Search, SearchRefused, RememberSearch
  <1>5. ASSUME \/ Peek(t) \/ Block(t) \/ SetHandler(t) \/ LockStatic(t)
               \/ Sent(t) \/ FallAsleep(t) \/ Sleep(t) \/ WakeUp(t)
               \/ TimeOut(t) \/ Search(t)
        PROVE  \A u \in Threads \ {t} : pc'[u] = pc[u] /\ call'[u] = call[u]
    BY <1>5 DEF Peek, Block, SetHandler, LockStatic, Sent, FallAsleep, Sleep,
       WakeUp, TimeOut, Search, TypeOK
  <1>6. ASSUME RememberSession(t)
        PROVE  \A u \in Threads \ {t} : pc'[u] = pc[u] /\ call'[u] = call[u]
    BY <1>3, <1>6 DEF RememberSession, TypeOK
  <1>7. ASSUME \/ Refused(t) \/ CheckFlag(t) \/ GiveUp(t)
               \/ SearchRefused(t) \/ RememberSearch(t)
        PROVE  \A u \in Threads \ {t} : pc'[u] = pc[u] /\ call'[u] = call[u]
    BY <1>3, <1>7 DEF Refused, CheckFlag, GiveUp, SearchRefused, RememberSearch
  <1> QED
    BY <1>1, <1>2, <1>4, <1>5, <1>6, <1>7 DEF SendMessage

\* It begins a call, goes on with it, or returns from it.
LEMMA SenderSteps ==
    ASSUME TypeOK, NEW t \in Threads, SendMessage(t), ~Begin(t)
    PROVE  /\ pc[t] # "idle" /\ made' = made
           /\ \/ /\ call' = call /\ pc'[t] # "idle"
                 /\ (pc'[t] \in {"search", "token"}
                        <=> pc[t] \in {"search", "token"})
                 /\ Unsent(t)' => Unsent(t)
                 /\ pc'[t] = "call" => LockStatic(t)
                 /\ pc'[t] = "note" => pc[t] = "call"
              \/ pc'[t] = "idle"
  <1> USE DEF sender, wrapper, start, bus, server, history, At, Go
  <1>1. ASSUME NEW ok, Return(t, ok) PROVE pc'[t] = "idle"
    BY <1>1 DEF Return, TypeOK
  <1>2. CASE \/ Peek(t) \/ Block(t) \/ SetHandler(t) \/ LockStatic(t)
             \/ Sent(t) \/ FallAsleep(t) \/ Sleep(t) \/ WakeUp(t)
             \/ TimeOut(t) \/ Search(t)
    BY <1>2 DEF Peek, Block, SetHandler, LockStatic, Sent, FallAsleep, Sleep,
       WakeUp, TimeOut, Search, TypeOK, Unsent
  <1>3. CASE RememberSession(t)
    <2>1. CASE call[t].op \in Sync
      BY <1>3, <2>1 DEF RememberSession, TypeOK, Unsent
    <2>2. CASE call[t].op \notin Sync
      BY <1>1, <1>3, <2>2 DEF RememberSession
    <2> QED
      BY <2>1, <2>2
  <1>4. CASE \/ Refused(t) \/ CheckFlag(t) \/ GiveUp(t)
             \/ SearchRefused(t) \/ RememberSearch(t)
    BY <1>1, <1>4 DEF Refused, CheckFlag, GiveUp, SearchRefused, RememberSearch
  <1> QED
    BY <1>2, <1>3, <1>4 DEF SendMessage

\* A call that begins is the next of its thread, and has not been sent.
LEMMA Begins ==
    ASSUME TypeOK, NEW t \in Threads, NEW c \in Call, Make(t, c)
    PROVE  /\ call'[t] = c
           /\ pc'[t] \in {"search", "enter", "peek"}
           /\ (pc'[t] = "search" <=> c.op = "search")
  BY DEF Make, Go, TypeOK

Parts == TypeOK /\ MainInv /\ StepInv /\ LockInv /\ OutInv /\ SessionInv

LEMMA SenderStepInv ==
    ASSUME Parts, NEW t \in Threads, SendMessage(t) PROVE StepInv'
  <1> USE DEF Parts
  <1>1. /\ UNCHANGED <<step, serving>>
        /\ \A u \in Threads \ {t} :
               pc'[u] = pc[u] /\ call'[u] = call[u] /\ made'[u] = made[u]
    BY SenderFrame
  <1>2. CASE Begin(t)
    <2> DEFINE c == [by |-> t, nth |-> made[t],
                     op |-> Head(todo[t]).op, on |-> Head(todo[t]).on]
    <2>1. /\ todo[t] \in Seq(Job) /\ todo[t] # <<>>
          /\ made'[t] = made[t] + 1 /\ made[t] \in Nat
          /\ t \in Loops => step[t] = "idle"
      BY <1>2 DEF Begin, TypeOK
    <2>2. Head(todo[t]) \in Job
      BY <2>1
    <2>3. c \in Call /\ Make(t, c)
      BY <1>2, <2>2, NewCall DEF Begin
    <2>4. c.by = t /\ c.nth < made'[t]
      BY <2>1
    <2> HIDE DEF c
    <2>5. /\ call'[t] = c
          /\ pc'[t] \in {"search", "enter", "peek"}
          /\ (pc'[t] = "search" <=> c.op = "search")
      BY <2>3, Begins
    <2>6. \A u \in Threads : pc'[u] # "idle" =>
             /\ call'[u].by = u /\ call'[u].nth < made'[u]
             /\ (pc'[u] \in {"search", "token"} <=> call'[u].op = "search")
      BY <1>1, <2>1, <2>4, <2>5 DEF StepInv
    <2>7. \A l \in Loops : step[l] # "idle" /\ pc'[l] # "idle" =>
             step[l] = "wake" /\ serving[l].op = "inject" /\ call'[l].op = "put"
      BY <1>1, <2>1 DEF StepInv, Threads, Loops
    <2> QED
      BY <1>1, <2>6, <2>7 DEF StepInv
  <1>3. CASE ~Begin(t)
    <2>1. /\ pc[t] # "idle" /\ made' = made
          /\ \/ /\ call' = call /\ pc'[t] # "idle"
                /\ (pc'[t] \in {"search", "token"}
                        <=> pc[t] \in {"search", "token"})
             \/ pc'[t] = "idle"
      BY <1>3, SenderSteps
    <2>2. \A u \in Threads : pc'[u] # "idle" =>
             /\ call'[u].by = u /\ call'[u].nth < made'[u]
             /\ (pc'[u] \in {"search", "token"} <=> call'[u].op = "search")
      BY <1>1, <2>1 DEF StepInv
    <2>3. \A l \in Loops : step[l] # "idle" /\ pc'[l] # "idle" =>
             step[l] = "wake" /\ serving[l].op = "inject" /\ call'[l].op = "put"
      BY <1>1, <2>1 DEF StepInv, Threads, Loops
    <2> QED
      BY <1>1, <2>2, <2>3 DEF StepInv
  <1> QED
    BY <1>2, <1>3

LEMMA SenderLockInv ==
    ASSUME Parts, NEW t \in Threads, SendMessage(t) PROVE LockInv'
  <1> USE DEF Parts
  <1>1. /\ UNCHANGED <<step, serving>>
        /\ \A u \in Threads \ {t} : pc'[u] = pc[u] /\ call'[u] = call[u]
    BY SenderFrame
  <1>2. Connectors \subseteq Loops /\ Connectors \subseteq Threads
        /\ Nobody \notin Threads
    BY NamesAssumption DEF Loops, Threads
  <1>3. ASSUME pc[t] \in {"call", "note"}, pc'[t] \notin {"call", "note"},
               static' = [static EXCEPT ![Static(call[t])] = Nobody]
        PROVE  LockInv'
    <2>1. static[Static(call[t])] = t /\ Static(call[t]) \in {"sync", "async"}
      BY <1>3, CallFacts DEF LockInv
    <2>2. ASSUME NEW s, static[s] \in Threads \ {t} PROVE static'[s] = static[s]
      BY <1>3, <2>1, <2>2 DEF TypeOK
    <2>3. ASSUME NEW u \in Threads, pc'[u] \in {"call", "note"}
          PROVE  static'[Static(call'[u])] = u
      BY <1>1, <1>3, <2>2, <2>3 DEF LockInv, Static
    <2>4. ASSUME NEW l \in Connectors, step[l] \in {"handle", "nested", "wake"}
          PROVE  static'[Static(serving[l])] = l
      <3>1. static[Static(serving[l])] = l
        BY <2>4 DEF LockInv
      <3>2. CASE l # t
        BY <1>2, <2>2, <3>1, <3>2
      <3>3. CASE l = t
        <4>1. serving[l].op = "inject" /\ call[l].op = "put"
          BY <1>2, <1>3, <2>4, <3>3 DEF StepInv
        <4>2. Static(serving[l]) = "sync" /\ Static(call[l]) = "async"
          BY <4>1 DEF Static, Sync
        <4> QED
          BY <1>3, <3>1, <3>3, <4>2 DEF TypeOK
      <3> QED
        BY <3>2, <3>3
    <2> QED
      BY <1>1, <2>3, <2>4 DEF LockInv, Static
  <1>4. CASE Begin(t)
    <2>1. /\ pc'[t] \notin {"call", "note"} /\ static' = static
      BY <1>4 DEF Begin, Make, Go, TypeOK
    <2> QED
      BY <1>1, <2>1 DEF LockInv, Static
  <1>5. CASE LockStatic(t)
    <2>1. /\ static[Static(call[t])] = Nobody /\ call' = call
          /\ static' = [static EXCEPT ![Static(call[t])] = t]
          /\ pc[t] # "idle"
      BY <1>5 DEF LockStatic, At
    <2>2. Static(call[t]) \in {"sync", "async"}
      BY <2>1, CallFacts
    <2>3. ASSUME NEW s, static[s] \in Threads PROVE static'[s] = static[s]
      BY <1>2, <2>1, <2>2, <2>3 DEF TypeOK
    <2>4. \A u \in Threads : pc'[u] \in {"call", "note"} =>
             static'[Static(call[u])] = u
      BY <1>1, <2>1, <2>2, <2>3 DEF LockInv, TypeOK
    <2>5. \A l \in Connectors : step[l] \in {"handle", "nested", "wake"} =>
             static'[Static(serving[l])] = l
      BY <1>2, <2>3 DEF LockInv
    <2> QED
      BY <1>1, <2>1, <2>4, <2>5 DEF LockInv, Static
  <1>6. CASE Refused(t)
    <2>1. /\ pc[t] = "call" /\ pc'[t] = "idle"
          /\ static' = [static EXCEPT ![Static(call[t])] = Nobody]
      BY <1>6 DEF Refused, Return, At, TypeOK
    <2> QED
      BY <1>3, <2>1
  <1>7. CASE RememberSession(t)
    <2>1. /\ pc[t] = "note" /\ pc'[t] \in {"check", "idle"}
          /\ static' = [static EXCEPT ![Static(call[t])] = Nobody]
      <3>1. CASE call[t].op \in Sync
        BY <1>7, <3>1 DEF RememberSession, At, Go, TypeOK
      <3>2. CASE call[t].op \notin Sync
        BY <1>7, <3>2 DEF RememberSession, Return, At, TypeOK
      <3> QED
        BY <3>1, <3>2
    <2> QED
      BY <1>3, <2>1
  <1>8. CASE ~Begin(t) /\ ~LockStatic(t) /\ ~Refused(t) /\ ~RememberSession(t)
    <2>1. static' = static
      BY <1>8 DEF SendMessage, Peek, Block, SetHandler, Sent, CheckFlag,
         FallAsleep, Sleep, WakeUp, TimeOut, GiveUp, Search, SearchRefused,
         RememberSearch
    <2>2. pc'[t] \in {"call", "note"} => call' = call /\ pc[t] = "call"
      BY <1>8, SenderSteps
    <2> QED
      BY <1>1, <2>1, <2>2 DEF LockInv, Static
  <1> QED
    BY <1>4, <1>5, <1>6, <1>7, <1>8

\* What is asked of the bus grows by the sender's call only.
LEMMA SenderAsks ==
    ASSUME Parts, NEW t \in Threads, SendMessage(t)
    PROVE  \/ asked' = asked
           \/ /\ pc[t] \in {"call", "search"} /\ pc'[t] \in {"note", "token"}
              /\ call' = call /\ asked' = asked \cup {call[t]}
  <1>1. CASE Sent(t) \/ Search(t)
    BY <1>1 DEF Parts, Sent, Search, At, Go, TypeOK
  <1>2. CASE ~Sent(t) /\ ~Search(t)
    BY <1>2 DEF SendMessage, Begin, Peek, Block, SetHandler, LockStatic,
       Refused, RememberSession, CheckFlag, FallAsleep, Sleep, WakeUp,
       TimeOut, GiveUp, SearchRefused, RememberSearch, bus
  <1> QED
    BY <1>1, <1>2

LEMMA OutFacts ==
    ASSUME TypeOK
    PROVE  /\ \A c \in Out : c \in Call /\ c.by \in Threads /\ c.nth \in Nat
           /\ Unhandled \subseteq Out
  <1>1. \A c \in Call : c.by \in Threads /\ c.nth \in Nat
    BY DEF Call
  <1>2. Served \subseteq Call
    BY ServingFacts DEF Served
  <1>3. Unhandled \subseteq Out
    BY DEF Unhandled, Out, Served
  <1> QED
    BY <1>1, <1>2, <1>3 DEF Out, TypeOK

LEMMA SenderOutInv ==
    ASSUME Parts, NEW t \in Threads, SendMessage(t) PROVE OutInv'
  <1> USE DEF Parts
  <1>1. /\ UNCHANGED <<step, serving, arrived>> /\ Served' = Served
        /\ \A u \in Threads \ {t} :
               pc'[u] = pc[u] /\ call'[u] = call[u] /\ made'[u] = made[u]
    BY SenderFrame DEF Served
  <1>2. /\ asked \cap arrived = {} /\ (asked \cup arrived) \cap Served = {}
        /\ \A c \in Out : c.nth < made[c.by]
        /\ \A u \in Threads : Unsent(u) => call[u] \notin Out
    BY DEF OutInv
  <1>3. \A u \in Threads : pc[u] # "idle" =>
           call[u].by = u /\ call[u].nth < made[u]
    BY DEF StepInv
  <1>4. \A c \in Out : c \in Call /\ c.by \in Threads /\ c.nth \in Nat
    BY OutFacts
  <1>5. CASE Begin(t)
    <2> DEFINE c == [by |-> t, nth |-> made[t],
                     op |-> Head(todo[t]).op, on |-> Head(todo[t]).on]
    <2>1. /\ todo[t] \in Seq(Job) /\ todo[t] # <<>>
          /\ made'[t] = made[t] + 1 /\ made[t] \in Nat
          /\ asked' = asked
      BY <1>5 DEF Begin, TypeOK, bus
    <2>2. Head(todo[t]) \in Job
      BY <2>1
    <2>3. c \in Call /\ Make(t, c)
      BY <1>5, <2>2, NewCall DEF Begin
    <2>4. c.by = t /\ c.nth = made[t]
      OBVIOUS
    <2> HIDE DEF c
    <2>5. call'[t] = c
      BY <2>3, Begins
    <2>6. Out' = Out
      BY <1>1, <2>1 DEF Out
    <2>7. c \notin Out
      BY <1>2, <2>1, <2>4
    <2>8. ASSUME NEW d \in Out PROVE d.nth < made'[d.by]
      <3>1. d.nth < made[d.by] /\ d.by \in Threads /\ d.nth \in Nat
        BY <1>2, <1>4
      <3>2. CASE d.by = t
        BY <2>1, <3>1, <3>2
      <3>3. CASE d.by # t
        BY <1>1, <3>1, <3>3
      <3> QED
        BY <3>2, <3>3
    <2>9. \A u \in Threads : Unsent(u)' => call'[u] \notin Out
      BY <1>1, <1>2, <2>5, <2>7 DEF Unsent
    <2> QED
      BY <1>1, <1>2, <2>1, <2>6, <2>8, <2>9 DEF OutInv
  <1>6. CASE ~Begin(t)
    <2>1. /\ pc[t] # "idle" /\ made' = made
          /\ \/ call' = call /\ (Unsent(t)' => Unsent(t))
             \/ pc'[t] = "idle"
      BY <1>6, SenderSteps
    <2>2. CASE asked' = asked
      <3>1. Out' = Out
        BY <1>1, <2>2 DEF Out
      <3>2. \A u \in Threads : Unsent(u)' => call'[u] \notin Out
        BY <1>1, <1>2, <2>1 DEF Unsent
      <3> QED
        BY <1>1, <1>2, <2>1, <2>2, <3>1, <3>2 DEF OutInv
    <2>3. CASE /\ pc[t] \in {"call", "search"} /\ pc'[t] \in {"note", "token"}
               /\ call' = call /\ asked' = asked \cup {call[t]}
      <3>1. call[t] \notin Out /\ Out' = Out \cup {call[t]}
        BY <1>1, <1>2, <2>3 DEF Out, Unsent
      <3>2. \A u \in Threads : Unsent(u)' => call'[u] \notin Out'
        <4> SUFFICES ASSUME NEW u \in Threads, Unsent(u)'
                     PROVE  call[u] \notin Out /\ call[u] # call[t]
          BY <2>3, <3>1
        <4>1. u # t
          BY <2>3 DEF Unsent
        <4>2. Unsent(u) /\ pc[u] # "idle"
          BY <1>1, <4>1 DEF Unsent
        <4> QED
          BY <1>2, <1>3, <2>1, <4>1, <4>2
      <3>3. \A c \in Out' : c.nth < made'[c.by]
        BY <1>2, <1>3, <2>1, <3>1
      <3>4. asked' \cap arrived' = {} /\ (asked' \cup arrived') \cap Served' = {}
        BY <1>1, <1>2, <2>3, <3>1 DEF Out
      <3> QED
        BY <3>2, <3>3, <3>4 DEF OutInv
    <2> QED
      BY <2>2, <2>3, SenderAsks
  <1> QED
    BY <1>5, <1>6

\* A sender leaves a call that is asked for and not noted yet only by noting
\* it.
LEMMA SenderNotes ==
    ASSUME Parts, NEW t \in Threads, SendMessage(t)
    PROVE  /\ sessions \subseteq sessions'
           /\ pc[t] \in {"note", "token"} /\ call[t].op # "query"
                => call[t] \in sessions'
  <1> USE DEF At
  <1>1. CASE RememberSession(t)
    BY <1>1 DEF RememberSession
  <1>2. CASE RememberSearch(t)
    BY <1>2 DEF RememberSearch
  <1>3. CASE ~RememberSession(t) /\ ~RememberSearch(t)
    <2>1. sessions' = sessions
      BY <1>3 DEF SendMessage, Begin, Peek, Block, SetHandler, LockStatic,
         Sent, Refused, CheckFlag, FallAsleep, Sleep, WakeUp, TimeOut,
         GiveUp, Search, SearchRefused
    <2>2. pc[t] \notin {"note", "token"}
      BY <1>3 DEF SendMessage, Begin, Peek, Block, SetHandler, LockStatic,
         Sent, Refused, CheckFlag, FallAsleep, Sleep, WakeUp, TimeOut,
         GiveUp, Search, SearchRefused
    <2> QED
      BY <2>1, <2>2
  <1> QED
    BY <1>1, <1>2, <1>3

LEMMA SenderSessionInv ==
    ASSUME Parts, NEW t \in Threads, SendMessage(t) PROVE SessionInv'
  <1> USE DEF Parts
  <1>1. /\ UNCHANGED <<step, serving, arrived>>
        /\ \A u \in Threads \ {t} : pc'[u] = pc[u] /\ call'[u] = call[u]
    BY SenderFrame
  <1>2. \A c \in Unhandled : c \in Call /\ c.by \in Threads
    BY OutFacts
  <1>3. ASSUME NEW c \in Unhandled, c.op # "query",
               c.op = "search" => c.by = "main"
        PROVE  Remembered(c)'
    <2>1. Remembered(c)
      BY <1>3 DEF SessionInv
    <2>2. CASE c \in sessions \/ c.by = t
      BY <1>3, <2>1, <2>2, SenderNotes DEF Remembered
    <2>3. CASE c \notin sessions /\ c.by # t
      BY <1>1, <1>2, <2>1, <2>3 DEF Remembered
    <2> QED
      BY <2>2, <2>3
  <1>4. CASE asked' = asked
    BY <1>1, <1>3, <1>4 DEF SessionInv, Unhandled
  <1>5. CASE /\ pc[t] \in {"call", "search"} /\ pc'[t] \in {"note", "token"}
             /\ call' = call /\ asked' = asked \cup {call[t]}
    <2>1. Unhandled' = Unhandled \cup {call[t]}
      BY <1>1, <1>5 DEF Unhandled
    <2>2. Remembered(call[t])'
      BY <1>5 DEF StepInv, Remembered
    <2> QED
      BY <1>3, <1>5, <2>1, <2>2 DEF SessionInv
  <1> QED
    BY <1>4, <1>5, SenderAsks
----------------------------------------------------------------------------
(* The loops: one lemma for each step.                                     *)
LEMMA TakeAnswerInv ==
    ASSUME Parts, NEW l \in Loops, TakeAnswer(l)
    PROVE  StepInv' /\ LockInv' /\ OutInv' /\ SessionInv' /\ missed' = missed
  <1> USE DEF Parts
  <1>1. PICK c \in arrived :
           /\ LoopOf(c) = l /\ arrived' = arrived \ {c}
           /\ serving' = [serving EXCEPT ![l] = c]
           /\ step' = [step EXCEPT ![l] = IF l = "main" THEN "handle"
                                          ELSE "callback"]
    BY DEF TakeAnswer
  <1>2. /\ step[l] = "idle" /\ pc[l] = "idle"
        /\ UNCHANGED <<made, pc, call, static, sessions, asked, missed>>
    BY DEF TakeAnswer, At, sender, history
  <1>3. /\ serving'[l] = c /\ step'[l] \in {"handle", "callback"}
        /\ l # "main" => step'[l] = "callback"
        /\ \A k \in Loops \ {l} : serving'[k] = serving[k] /\ step'[k] = step[k]
    BY <1>1 DEF TypeOK
  <1>4. Served' = Served \cup {c} /\ Unhandled' = Unhandled /\ Out' = Out
    <2>1. Served' = Served \cup {c}
      BY <1>2, <1>3 DEF Served
    <2>2. Unhandled' = Unhandled
      BY <1>1, <1>2, <1>3 DEF Unhandled
    <2> QED
      BY <1>1, <1>2, <2>1, <2>2 DEF Out
  <1>5. StepInv'
    BY <1>2, <1>3 DEF StepInv
  <1>6. LockInv'
    BY <1>2, <1>3, NamesAssumption DEF LockInv, Static, Loops
  <1>7. OutInv'
    BY <1>1, <1>2, <1>4 DEF OutInv, Unsent
  <1>8. SessionInv'
    BY <1>2, <1>4 DEF SessionInv, Remembered
  <1> QED
    BY <1>2, <1>5, <1>6, <1>7, <1>8

LEMMA CallbackInv ==
    ASSUME Parts, NEW l \in Loops, Callback(l)
    PROVE  StepInv' /\ LockInv' /\ OutInv' /\ SessionInv' /\ missed' = missed
  <1> USE DEF Parts
  <1>1. /\ step[l] = "callback" /\ static[Static(serving[l])] = Nobody
        /\ static' = [static EXCEPT ![Static(serving[l])] = l]
        /\ step' = [step EXCEPT ![l] = "handle"]
        /\ UNCHANGED <<made, pc, call, sessions, asked, arrived, serving, missed>>
    BY DEF Callback, sender, bus, history
  <1>2. Static(serving[l]) \in {"sync", "async"}
    BY <1>1, ServingFacts
  <1>3. step'[l] = "handle" /\ \A k \in Loops \ {l} : step'[k] = step[k]
    BY <1>1 DEF TypeOK
  <1>4. \A s : static[s] \in Threads => static'[s] = static[s]
    BY <1>1, <1>2, NamesAssumption DEF TypeOK
  <1>5. Served' = Served /\ Unhandled' = Unhandled /\ Out' = Out
    BY <1>1, <1>3 DEF Served, Unhandled, Out
  <1>6. StepInv'
    BY <1>1, <1>3 DEF StepInv
  <1>7. LockInv'
    <2>1. static'[Static(serving[l])] = l
      BY <1>1, <1>2 DEF TypeOK
    <2>2. \A t \in Threads : pc[t] \in {"call", "note"} =>
             static'[Static(call[t])] = t
      BY <1>4 DEF LockInv
    <2>3. \A k \in Connectors : step'[k] \in {"handle", "nested", "wake"} =>
             static'[Static(serving[k])] = k
      BY <1>3, <1>4, <2>1 DEF LockInv, Loops, Threads
    <2> QED
      BY <1>1, <2>2, <2>3 DEF LockInv, Static
  <1>8. OutInv'
    BY <1>1, <1>5 DEF OutInv, Unsent
  <1>9. SessionInv'
    BY <1>1, <1>5 DEF SessionInv, Remembered
  <1> QED
    BY <1>1, <1>6, <1>7, <1>8, <1>9

\* The heart of it: when a handler looks for the session, its sender has
\* noted it, since both do so with the same static lock - or both are the
\* main loop.
LEMMA HandlerFindsSession ==
    ASSUME Parts, NEW l \in Loops, step[l] = "handle",
           serving[l].op # "query",
           serving[l].op = "search" => serving[l].by = "main"
    PROVE  serving[l] \in sessions
  <1> USE DEF Parts
  <1> DEFINE c == serving[l]
             t == c.by
  <1>1. /\ c \in Call /\ t \in Threads /\ (l = "main" <=> c.op = "search")
    BY ServingFacts
  <1>2. Remembered(c)
    BY DEF SessionInv, Unhandled
  <1> SUFFICES ASSUME pc[t] \in {"note", "token"}, call[t] = c PROVE FALSE
    BY <1>2 DEF Remembered
  <1>3. pc[l] = "idle"
    BY DEF StepInv
  <1>4. CASE l = "main"
    BY <1>1, <1>3, <1>4
  <1>5. CASE l # "main"
    <2>1. pc[t] = "note"
      BY <1>1, <1>5 DEF StepInv
    <2>2. static[Static(c)] = t
      BY <1>1, <2>1 DEF LockInv
    <2>3. static[Static(c)] = l
      BY <1>5 DEF LockInv, Loops
    <2> QED
      BY <1>3, <2>1, <2>2, <2>3
  <1> QED
    BY <1>4, <1>5

LEMMA HandleInv ==
    ASSUME Parts, NEW l \in Loops, Handle(l)
    PROVE  /\ StepInv' /\ LockInv' /\ OutInv' /\ SessionInv'
           /\ AnswersFindTheirCall => AnswersFindTheirCall'
  <1> USE DEF Parts
  <1> DEFINE c == serving[l]
  <1>1. /\ step[l] = "handle" /\ sessions' = sessions \ {c}
        /\ missed' = IF Known(c) THEN missed ELSE missed \cup {c}
        /\ step' = [step EXCEPT ![l] =
                      IF l = "main" THEN "idle"
                      ELSE IF c.op = "inject" /\ Known(c) THEN "nested"
                      ELSE "wake"]
        /\ serving' = IF l = "main" THEN [serving EXCEPT ![l] = None]
                      ELSE serving
        /\ UNCHANGED <<made, pc, call, static, asked, arrived>>
    BY DEF Handle, sender, bus
  <1>2. /\ \A k \in Loops \ {l} : serving'[k] = serving[k] /\ step'[k] = step[k]
        /\ step'[l] \in {"idle", "nested", "wake"}
        /\ l = "main" => step'[l] = "idle"
        /\ l # "main" => step'[l] # "idle" /\ serving'[l] = serving[l]
        /\ step'[l] = "nested" => c.op = "inject"
    BY <1>1 DEF TypeOK
  <1>3. pc[l] = "idle"
    BY <1>1 DEF StepInv
  <1>4. Served' \subseteq Served /\ Out' \subseteq Out
    <2>1. Served' \subseteq Served
      BY <1>1, <1>2 DEF Served
    <2> QED
      BY <1>1, <2>1 DEF Out
  <1>5. Unhandled' \subseteq Unhandled \ {c}
    <2>1. c \notin asked \cup arrived
      BY <1>1 DEF OutInv, Served
    <2>2. ASSUME NEW k \in Loops, step'[k] \in {"callback", "handle"}
          PROVE  serving'[k] = serving[k] /\ serving[k] # c
                 /\ step[k] \in {"callback", "handle"}
      <3>1. k # l
        BY <1>2, <2>2
      <3>2. step[k] = step'[k] /\ serving'[k] = serving[k]
        BY <1>2, <3>1
      <3>3. LoopOf(serving[k]) = k /\ LoopOf(c) = l
        BY <1>1, <2>2, <3>2, ServingFacts
      <3> QED
        BY <2>2, <3>1, <3>2, <3>3
    <2> QED
      BY <1>1, <2>1, <2>2 DEF Unhandled
  <1>6. StepInv'
    <2>1. \A k \in Loops : step'[k] # "idle" /\ pc[k] # "idle" =>
             step'[k] = "wake" /\ serving'[k].op = "inject" /\ call[k].op = "put"
      BY <1>2, <1>3 DEF StepInv
    <2>2. \A k \in Loops : step'[k] = "nested" => serving'[k].op = "inject"
      BY <1>2 DEF StepInv
    <2> QED
      BY <1>1, <2>1, <2>2 DEF StepInv
  <1>7. LockInv'
    <2>1. \A k \in Connectors : step'[k] \in {"handle", "nested", "wake"} =>
             static[Static(serving'[k])] = k
      BY <1>1, <1>2, NamesAssumption DEF LockInv, Loops
    <2> QED
      BY <1>1, <2>1 DEF LockInv, Static
  <1>8. OutInv'
    BY <1>1, <1>4 DEF OutInv, Unsent
  <1>9. SessionInv'
    BY <1>1, <1>5 DEF SessionInv, Remembered
  <1>10. AnswersFindTheirCall => AnswersFindTheirCall'
    <2>1. ~Known(c) => c.op = "search" /\ c.by # "main"
      BY <1>1, HandlerFindsSession DEF Known
    <2> QED
      BY <1>1, <2>1 DEF AnswersFindTheirCall
  <1> QED
    BY <1>6, <1>7, <1>8, <1>9, <1>10

LEMMA SendNestedInv ==
    ASSUME Parts, NEW l \in Loops, SendNested(l)
    PROVE  StepInv' /\ LockInv' /\ OutInv' /\ SessionInv' /\ missed' = missed
  <1> USE DEF Parts
  <1> DEFINE n == [by |-> l, nth |-> made[l], op |-> "put", on |-> l]
  <1>1. /\ step[l] = "nested" /\ pc[l] = "idle"
        /\ step' = [step EXCEPT ![l] = "wake"]
        /\ made' = [made EXCEPT ![l] = @ + 1]
        /\ Make(l, n)
        /\ UNCHANGED <<static, sessions, asked, arrived, serving, missed>>
    BY DEF SendNested, At, bus
  <1>2. l \in Threads /\ l # "main" /\ n \in Call
    BY <1>1 DEF MainInv, Threads, Loops, Call, Ops, TypeOK
  <1>3. n.by = l /\ n.nth = made[l] /\ n.op = "put"
    OBVIOUS
  <1> HIDE DEF n
  <1>4. call'[l] = n /\ pc'[l] \in {"enter", "peek"}
    BY <1>1, <1>2, <1>3, Begins
  <1>5. /\ step'[l] = "wake" /\ \A k \in Loops \ {l} : step'[k] = step[k]
        /\ made[l] \in Nat /\ made'[l] = made[l] + 1
        /\ \A u \in Threads \ {l} :
               pc'[u] = pc[u] /\ call'[u] = call[u] /\ made'[u] = made[u]
    BY <1>1, <1>2 DEF TypeOK, Make, Go
  <1>6. Served' = Served /\ Unhandled' = Unhandled /\ Out' = Out
    <2>1. Served' = Served
      BY <1>1, <1>5 DEF Served
    <2>2. Unhandled' = Unhandled
      BY <1>1, <1>5 DEF Unhandled
    <2> QED
      BY <1>1, <2>1, <2>2 DEF Out
  <1>7. StepInv'
    <2>1. \A u \in Threads : pc'[u] # "idle" =>
             /\ call'[u].by = u /\ call'[u].nth < made'[u]
             /\ (pc'[u] \in {"search", "token"} <=> call'[u].op = "search")
      BY <1>3, <1>4, <1>5 DEF StepInv
    <2>2. \A k \in Loops : step'[k] # "idle" /\ pc'[k] # "idle" =>
             step'[k] = "wake" /\ serving[k].op = "inject" /\ call'[k].op = "put"
      BY <1>1, <1>3, <1>4, <1>5 DEF StepInv, Threads, Loops
    <2>3. \A k \in Loops : step'[k] = "nested" => serving[k].op = "inject"
      BY <1>5 DEF StepInv
    <2> QED
      BY <1>1, <2>1, <2>2, <2>3 DEF StepInv
  <1>8. LockInv'
    <2>1. \A u \in Threads : pc'[u] \in {"call", "note"} =>
             static[Static(call'[u])] = u
      BY <1>4, <1>5 DEF LockInv
    <2>2. \A k \in Connectors : step'[k] \in {"handle", "nested", "wake"} =>
             static[Static(serving[k])] = k
      BY <1>1, <1>2, <1>5 DEF LockInv, Loops
    <2> QED
      BY <1>1, <2>1, <2>2 DEF LockInv, Static
  <1>9. OutInv'
    <2>1. n \notin Out
      BY <1>3, <1>5 DEF OutInv
    <2>2. ASSUME NEW d \in Out PROVE d.nth < made'[d.by]
      <3>1. d.nth < made[d.by] /\ d.by \in Threads /\ d.nth \in Nat
        BY OutFacts DEF OutInv
      <3>2. CASE d.by = l
        BY <1>5, <3>1, <3>2
      <3>3. CASE d.by # l
        BY <1>5, <3>1, <3>3
      <3> QED
        BY <3>2, <3>3
    <2>3. \A u \in Threads : Unsent(u)' => call'[u] \notin Out
      BY <1>4, <1>5, <2>1 DEF OutInv, Unsent
    <2> QED
      BY <1>1, <1>6, <2>2, <2>3 DEF OutInv
  <1>10. SessionInv'
    <2>1. ASSUME NEW c \in Unhandled, Remembered(c) PROVE Remembered(c)'
      <3>1. c.by \in Threads
        BY OutFacts
      <3> QED
        BY <1>1, <1>5, <2>1, <3>1 DEF Remembered
    <2> QED
      BY <1>6, <2>1 DEF SessionInv
  <1> QED
    BY <1>1, <1>7, <1>8, <1>9, <1>10

LEMMA WakeInv ==
    ASSUME Parts, NEW l \in Loops, Wake(l)
    PROVE  StepInv' /\ LockInv' /\ OutInv' /\ SessionInv' /\ missed' = missed
  <1> USE DEF Parts
  <1>1. /\ step[l] = "wake" /\ pc[l] = "idle"
        /\ static' = [static EXCEPT ![Static(serving[l])] = Nobody]
        /\ step' = [step EXCEPT ![l] = "idle"]
        /\ serving' = [serving EXCEPT ![l] = None]
        /\ UNCHANGED <<made, call, sessions, asked, arrived, missed>>
    BY DEF Wake, At, bus, history
  <1>2. l # "main" /\ l \in Connectors /\ l \in Threads
    BY <1>1 DEF MainInv, Loops, Threads
  <1>3. /\ step'[l] = "idle"
        /\ \A k \in Loops \ {l} : serving'[k] = serving[k] /\ step'[k] = step[k]
    BY <1>1 DEF TypeOK
  <1>4. \A u \in Threads :
           pc'[u] = pc[u] \/ (pc[u] = "asleep" /\ pc'[u] = "woken")
    <2>1. CASE pc' = pc
      BY <2>1
    <2>2. CASE \E t \in Asleep(l) : Go(t, "woken")
      <3>1. PICK t \in Threads : pc[t] = "asleep" /\ Go(t, "woken")
        BY <2>2 DEF Asleep, At
      <3> QED
        BY <3>1 DEF Go, TypeOK
    <2> QED
      BY <2>1, <2>2 DEF Wake
  <1>5. static[Static(serving[l])] = l /\ Static(serving[l]) \in {"sync", "async"}
    BY <1>1, <1>2, ServingFacts DEF LockInv
  <1>6. \A s : static[s] \in Threads \ {l} => static'[s] = static[s]
    BY <1>1, <1>5 DEF TypeOK
  <1>7. Served' \subseteq Served /\ Out' \subseteq Out /\ Unhandled' = Unhandled
    <2>1. Served' \subseteq Served
      BY <1>3 DEF Served
    <2>2. Unhandled' = Unhandled
      BY <1>1, <1>3 DEF Unhandled
    <2> QED
      BY <1>1, <2>1, <2>2 DEF Out
  <1>8. StepInv'
    <2>1. \A u \in Threads : pc'[u] # "idle" =>
             /\ call[u].by = u /\ call[u].nth < made[u]
             /\ (pc'[u] \in {"search", "token"} <=> call[u].op = "search")
      BY <1>4 DEF StepInv
    <2>2. \A k \in Loops : step'[k] # "idle" /\ pc'[k] # "idle" =>
             step'[k] = "wake" /\ serving'[k].op = "inject" /\ call[k].op = "put"
      BY <1>3, <1>4 DEF StepInv, Threads, Loops
    <2>3. \A k \in Loops : step'[k] = "nested" => serving'[k].op = "inject"
      BY <1>3 DEF StepInv
    <2> QED
      BY <1>1, <2>1, <2>2, <2>3 DEF StepInv
  <1>9. LockInv'
    <2>1. \A u \in Threads : pc'[u] \in {"call", "note"} =>
             static'[Static(call[u])] = u
      BY <1>1, <1>4, <1>6 DEF LockInv
    <2>2. \A k \in Connectors : step'[k] \in {"handle", "nested", "wake"} =>
             static'[Static(serving'[k])] = k
      BY <1>3, <1>6 DEF LockInv, Loops, Threads
    <2> QED
      BY <1>1, <2>1, <2>2 DEF LockInv, Static
  <1>10. OutInv'
    BY <1>1, <1>4, <1>7 DEF OutInv, Unsent
  <1>11. SessionInv'
    <2>1. ASSUME NEW c \in Unhandled, Remembered(c) PROVE Remembered(c)'
      <3>1. c.by \in Threads
        BY OutFacts
      <3> QED
        BY <1>1, <1>4, <2>1, <3>1 DEF Remembered
    <2> QED
      BY <1>7, <2>1 DEF SessionInv
  <1> QED
    BY <1>1, <1>8, <1>9, <1>10, <1>11

(* The bus, and the start of the connectors' threads.                      *)
LEMMA OtherInv ==
    ASSUME Parts,
           \/ \E k \in Connectors : RunConnector(k)
           \/ \E c \in asked : Answer(c)
           \/ UNCHANGED vars
    PROVE  StepInv' /\ LockInv' /\ OutInv' /\ SessionInv' /\ missed' = missed
  <1> USE DEF Parts
  <1>1. /\ UNCHANGED <<made, call, static, sessions, serving, step, missed>>
        /\ \A u \in Threads :
               pc'[u] = pc[u] \/ (pc[u] = "blocked" /\ pc'[u] = "enter")
    <2>1. ASSUME NEW k \in Connectors, NotifyStart(k)
          PROVE  \A u \in Threads :
                   pc'[u] = pc[u] \/ (pc[u] = "blocked" /\ pc'[u] = "enter")
      <3>1. CASE pc' = pc
        BY <3>1
      <3>2. CASE \E t \in Blocked(k) : Go(t, "enter")
        <4>1. PICK t \in Threads : pc[t] = "blocked" /\ Go(t, "enter")
          BY <3>2 DEF Blocked, At
        <4> QED
          BY <4>1 DEF Go, TypeOK
      <3> QED
        BY <2>1, <3>1, <3>2 DEF NotifyStart
    <2>2. ASSUME NEW k \in Connectors, NotifyStart(k)
          PROVE  UNCHANGED <<made, call, static, sessions, serving, step, missed>>
      BY <2>2 DEF NotifyStart, server, history
    <2>3. (\E k \in Connectors : RunLoop(k)) \/ (\E c \in asked : Answer(c))
          \/ UNCHANGED vars
          => UNCHANGED <<pc, made, call, static, sessions, serving, step, missed>>
      BY DEF RunLoop, Answer, vars, sender, server, history
    <2> QED
      BY <2>1, <2>2, <2>3 DEF RunConnector
  <1>2. \/ UNCHANGED <<asked, arrived>>
        \/ \E c \in asked : asked' = asked \ {c} /\ arrived' = arrived \cup {c}
    BY DEF RunConnector, RunLoop, NotifyStart, Answer, vars, bus
  <1>3. /\ Served' = Served /\ Out' = Out /\ Unhandled' = Unhandled
        /\ asked' \cup arrived' = asked \cup arrived
        /\ asked \cap arrived = {} => asked' \cap arrived' = {}
    BY <1>1, <1>2 DEF Served, Out, Unhandled
  <1>4. StepInv'
    <2>1. \A u \in Threads : pc'[u] # "idle" =>
             /\ call[u].by = u /\ call[u].nth < made[u]
             /\ (pc'[u] \in {"search", "token"} <=> call[u].op = "search")
      BY <1>1 DEF StepInv
    <2>2. \A k \in Loops : step[k] # "idle" /\ pc'[k] # "idle" =>
             step[k] = "wake" /\ serving[k].op = "inject" /\ call[k].op = "put"
      BY <1>1 DEF StepInv, Threads, Loops
    <2> QED
      BY <1>1, <2>1, <2>2 DEF StepInv
  <1>5. LockInv'
    BY <1>1 DEF LockInv, Static
  <1>6. OutInv'
    BY <1>1, <1>3 DEF OutInv, Unsent
  <1>7. SessionInv'
    <2>1. ASSUME NEW c \in Unhandled, Remembered(c) PROVE Remembered(c)'
      <3>1. c.by \in Threads
        BY OutFacts
      <3> QED
        BY <1>1, <2>1, <3>1 DEF Remembered
    <2> QED
      BY <1>3, <2>1 DEF SessionInv
  <1> QED
    BY <1>1, <1>4, <1>5, <1>6, <1>7

LEMMA InitAnswerInv == Init => AnswerInv
  <1> SUFFICES ASSUME Init PROVE AnswerInv
    OBVIOUS
  <1>1. TypeOK
    BY InitTypeOK
  <1>2. \A l \in Loops : step[l] = "idle"
    BY DEF Init
  <1>3. \A t \in Threads : pc[t] = "idle"
    BY DEF Init
  <1>4. Connectors \subseteq Loops /\ Loops \subseteq Threads /\ "main" \in Loops
    BY DEF Loops, Threads
  <1>5. Served = {} /\ Unhandled = {} /\ Out = {}
    BY <1>2 DEF Init, Served, Unhandled, Out
  <1>6. StepInv /\ LockInv /\ MainInv
    BY <1>2, <1>3, <1>4 DEF StepInv, LockInv, MainInv
  <1>7. OutInv /\ SessionInv
    BY <1>3, <1>5 DEF Init, OutInv, SessionInv, Unsent
  <1> QED
    BY <1>1, <1>6, <1>7 DEF AnswerInv, AnswersFindTheirCall, Init

LEMMA NextAnswerInv == AnswerInv /\ [Next]_vars => AnswerInv'
  <1> SUFFICES ASSUME AnswerInv, [Next]_vars PROVE AnswerInv'
    OBVIOUS
  <1>1. Parts /\ AnswersFindTheirCall
    BY DEF AnswerInv, Parts
  <1>2. TypeOK' /\ MainInv'
    BY <1>1, NextTypeOK, NextMainInv DEF Parts
  <1>3. StepInv' /\ LockInv' /\ OutInv' /\ SessionInv' /\ AnswersFindTheirCall'
    <2>1. ASSUME missed' = missed PROVE AnswersFindTheirCall'
      BY <1>1, <2>1 DEF AnswersFindTheirCall
    <2>2. ASSUME NEW t \in Threads, SendMessage(t)
          PROVE  /\ StepInv' /\ LockInv' /\ OutInv' /\ SessionInv'
                 /\ missed' = missed
      BY <1>1, <2>2, SenderStepInv, SenderLockInv, SenderOutInv,
         SenderSessionInv, SenderFrame DEF Parts
    <2>3. ASSUME NEW l \in Loops, ServeAnswer(l)
          PROVE  /\ StepInv' /\ LockInv' /\ OutInv' /\ SessionInv'
                 /\ AnswersFindTheirCall'
      BY <1>1, <2>1, <2>3, TakeAnswerInv, CallbackInv, HandleInv,
         SendNestedInv, WakeInv DEF ServeAnswer
    <2>4. ASSUME \/ \E k \in Connectors : RunConnector(k)
                 \/ \E c \in asked : Answer(c)
                 \/ UNCHANGED vars
          PROVE  /\ StepInv' /\ LockInv' /\ OutInv' /\ SessionInv'
                 /\ missed' = missed
      BY <1>1, <2>4, OtherInv
    <2> QED
      BY <2>1, <2>2, <2>3, <2>4 DEF Next, Running
  <1> QED
    BY <1>2, <1>3 DEF AnswerInv

\* Whatever the bus refuses, delays or reorders, and whatever threads and
\* connectors there are: the handler of an answer finds what DbConnector
\* remembered of its call, save for searches of other threads than the main
\* loop's.
THEOREM SessionsAreFound == Spec => []AnswersFindTheirCall
  <1>1. AnswerInv => AnswersFindTheirCall
    BY DEF AnswerInv
  <1> QED
    BY <1>1, InitAnswerInv, NextAnswerInv, PTL DEF Spec

-----------------------------------------------------------------------------
(***************************************************************************)
(* No session outlives its answer, and a call that is alone gets its own.  *)
(***************************************************************************)

\* A step that notes nothing and handles nothing, and sends a call at most by
\* having it under way, keeps NotedInv.
LEMMA KeepsNoted ==
    ASSUME NotedInv, sessions' = sessions, missed' = missed,
           \A c \in sessions : c.nth < made'[c.by],
           \A c \in Unhandled : c \in Unhandled',
           \A u \in Threads :
               Unsent(u)' \/ Noting(u)' => call'[u] \notin sessions,
           \A u \in Threads :
               Noting(u)' => call'[u] \in Unhandled' \cup missed
    PROVE  NotedInv'
  BY DEF NotedInv, Noting

\* No thread is where it was not, but for the named moves within a wait.
LEMMA KeepsNotedApart ==
    ASSUME NotedInv, sessions' = sessions, missed' = missed, made' = made,
           call' = call, Unhandled' = Unhandled,
           \A u \in Threads : \/ pc'[u] = pc[u]
                              \/ pc[u] = "asleep" /\ pc'[u] = "woken"
                              \/ pc[u] = "blocked" /\ pc'[u] = "enter"
    PROVE  NotedInv'
  <1>1. \A u \in Threads : (Noting(u)' => Noting(u)) /\ (Unsent(u)' => Unsent(u))
    BY DEF Noting, Unsent
  <1> QED
    BY <1>1, KeepsNoted DEF NotedInv

\* A new call of thread t, the next of its calls, has no session yet.
LEMMA MakeNoted ==
    ASSUME Parts, NotedInv, NEW t \in Threads, NEW c \in Call, Make(t, c),
           c.by = t, c.nth = made[t],
           made' = [made EXCEPT ![t] = @ + 1],
           sessions' = sessions, missed' = missed, Unhandled' = Unhandled
    PROVE  NotedInv'
  <1> USE DEF Parts
  <1>1. call'[t] = c /\ pc'[t] \in {"search", "enter", "peek"}
    BY Begins
  <1>2. /\ made[t] \in Nat /\ made'[t] = made[t] + 1
        /\ \A u \in Threads \ {t} :
               pc'[u] = pc[u] /\ call'[u] = call[u] /\ made'[u] = made[u]
    BY DEF TypeOK, Make, Go
  <1>3. \A d \in sessions : /\ d.by \in Threads /\ d.nth \in Nat
                            /\ d.nth < made[d.by]
    BY DEF TypeOK, Call, NotedInv
  <1>4. c \notin sessions
    BY <1>2, <1>3
  <1>5. ASSUME NEW d \in sessions PROVE d.nth < made'[d.by]
    <2>1. CASE d.by = t
      BY <1>2, <1>3, <2>1
    <2>2. CASE d.by # t
      BY <1>2, <1>3, <2>2
    <2> QED
      BY <2>1, <2>2
  <1>6. \A u \in Threads : Unsent(u)' \/ Noting(u)' => call'[u] \notin sessions
    BY <1>1, <1>2, <1>4 DEF Unsent, Noting, NotedInv
  <1>7. \A u \in Threads : Noting(u)' => call'[u] \in Unhandled' \cup missed
    BY <1>1, <1>2 DEF Noting, NotedInv
  <1> QED
    BY <1>5, <1>6, <1>7, KeepsNoted

----------------------------------------------------------------------------
(* Senders.                                                                *)
LEMMA SenderNoted ==
    ASSUME Parts, NotedInv, NEW t \in Threads, SendMessage(t)
    PROVE  NotedInv'
  <1> USE DEF Parts
  <1>1. /\ UNCHANGED <<step, serving, arrived, missed>>
        /\ \A u \in Threads \ {t} :
               pc'[u] = pc[u] /\ call'[u] = call[u] /\ made'[u] = made[u]
    BY SenderFrame
  <1>2. /\ asked' = asked => Unhandled' = Unhandled
        /\ asked' = asked \cup {call[t]} => Unhandled' = Unhandled \cup {call[t]}
    BY <1>1 DEF Unhandled
  <1>3. CASE Begin(t)
    <2> DEFINE c == [by |-> t, nth |-> made[t],
                     op |-> Head(todo[t]).op, on |-> Head(todo[t]).on]
    <2>1. todo[t] \in Seq(Job) /\ todo[t] # <<>>
      BY <1>3 DEF Begin, TypeOK
    <2>2. Head(todo[t]) \in Job
      BY <2>1
    <2>3. c \in Call /\ Make(t, c)
      BY <1>3, <2>2, NewCall DEF Begin
    <2>4. c.by = t /\ c.nth = made[t]
      OBVIOUS
    <2>5. /\ made' = [made EXCEPT ![t] = @ + 1]
          /\ sessions' = sessions /\ asked' = asked
      BY <1>3 DEF Begin, bus
    <2> HIDE DEF c
    <2> QED
      BY <1>1, <1>2, <2>3, <2>4, <2>5, MakeNoted
  <1> SUFFICES ASSUME ~Begin(t) PROVE NotedInv'
    BY <1>3
  <1>4. /\ pc[t] # "idle" /\ made' = made
        /\ \/ call' = call /\ (Unsent(t)' => Unsent(t))
           \/ pc'[t] = "idle"
    BY SenderSteps
  <1>5. /\ call[t] \in Call /\ call[t].by = t /\ call[t].nth < made[t]
        /\ \A u \in Threads : pc[u] # "idle" => call[u].by = u
    BY <1>4, CallFacts DEF StepInv
  <1>6. CASE RememberSession(t) \/ RememberSearch(t)
    <2>1. /\ Noting(t) /\ asked' = asked
          /\ sessions' = sessions \/ sessions' = sessions \cup {call[t]}
      BY <1>6 DEF RememberSession, RememberSearch, At, Noting, bus
    <2>2. pc'[t] \in {"check", "idle"}
      <3>1. CASE RememberSession(t) /\ call[t].op \in Sync
        BY <3>1 DEF RememberSession, Go, TypeOK
      <3>2. CASE RememberSession(t) /\ call[t].op \notin Sync
        BY <3>2 DEF RememberSession, Return, TypeOK
      <3>3. CASE RememberSearch(t)
        BY <3>3 DEF RememberSearch, Return, TypeOK
      <3> QED
        BY <1>6, <3>1, <3>2, <3>3
    <2>3. call[t] \in Unhandled \cup missed
      BY <2>1 DEF NotedInv
    <2>4. \A c \in sessions' :
             c \in Unhandled' \cup missed' /\ c.nth < made'[c.by]
      BY <1>1, <1>2, <1>4, <1>5, <2>1, <2>3 DEF NotedInv
    <2>5. ASSUME NEW u \in Threads, Unsent(u)' \/ Noting(u)'
          PROVE  /\ call'[u] \notin sessions'
                 /\ Noting(u)' => call'[u] \in Unhandled' \cup missed'
      <3>1. u # t /\ pc[u] = pc'[u] /\ call'[u] = call[u] /\ pc[u] # "idle"
        BY <1>1, <2>2, <2>5 DEF Unsent, Noting
      <3>2. call[u] # call[t]
        BY <1>5, <3>1
      <3> QED
        BY <1>1, <1>2, <2>1, <2>5, <3>1, <3>2 DEF NotedInv, Unsent, Noting
    <2> QED
      BY <2>4, <2>5 DEF NotedInv
  <1>7. CASE Sent(t) \/ Search(t)
    <2>1. /\ Unsent(t) /\ Noting(t)' /\ call' = call
          /\ sessions' = sessions /\ asked' = asked \cup {call[t]}
      BY <1>7 DEF Sent, Search, At, Go, TypeOK, Unsent, Noting
    <2>2. \A u \in Threads : Unsent(u)' \/ Noting(u)' => call[u] \notin sessions
      BY <1>1, <2>1 DEF NotedInv, Unsent, Noting
    <2>3. \A u \in Threads : Noting(u)' => call[u] \in Unhandled' \cup missed
      BY <1>1, <1>2, <2>1 DEF NotedInv, Noting
    <2> QED
      BY <1>1, <1>2, <1>4, <2>1, <2>2, <2>3, KeepsNoted DEF NotedInv
  <1>8. CASE /\ ~RememberSession(t) /\ ~RememberSearch(t)
             /\ ~Sent(t) /\ ~Search(t)
    <2>1. sessions' = sessions /\ asked' = asked
      BY <1>8 DEF SendMessage, Begin, Peek, Block, SetHandler, LockStatic,
         Refused, CheckFlag, FallAsleep, Sleep, WakeUp, TimeOut, GiveUp,
         SearchRefused, bus
    <2>2. ~Noting(t)'
      <3>1. ASSUME NEW ok, Return(t, ok) PROVE pc'[t] = "idle"
        BY <3>1 DEF Return, TypeOK
      <3>2. CASE Refused(t) \/ CheckFlag(t) \/ GiveUp(t) \/ SearchRefused(t)
        BY <3>1, <3>2 DEF Refused, CheckFlag, GiveUp, SearchRefused, Noting
      <3>3. CASE \/ Peek(t) \/ Block(t) \/ SetHandler(t) \/ LockStatic(t)
                 \/ FallAsleep(t) \/ Sleep(t) \/ WakeUp(t) \/ TimeOut(t)
        BY <3>3 DEF Peek, Block, SetHandler, LockStatic, FallAsleep, Sleep,
           WakeUp, TimeOut, Go, TypeOK, Noting
      <3> QED
        BY <1>8, <3>2, <3>3 DEF SendMessage
    <2>3. \A u \in Threads :
             Unsent(u)' \/ Noting(u)' => call'[u] \notin sessions
      BY <1>1, <1>4, <2>2 DEF NotedInv, Unsent, Noting
    <2>4. \A u \in Threads : Noting(u)' => call'[u] \in Unhandled' \cup missed
      BY <1>1, <1>2, <2>1, <2>2 DEF NotedInv, Noting
    <2> QED
      BY <1>1, <1>2, <1>4, <2>1, <2>3, <2>4, KeepsNoted DEF NotedInv
  <1> QED
    BY <1>6, <1>7, <1>8

----------------------------------------------------------------------------
(* Loops.                                                                  *)
LEMMA TakeAnswerNoted ==
    ASSUME Parts, NotedInv, NEW l \in Loops, TakeAnswer(l) PROVE NotedInv'
  <1> USE DEF Parts
  <1>1. PICK c \in arrived :
           /\ arrived' = arrived \ {c}
           /\ serving' = [serving EXCEPT ![l] = c]
           /\ step' = [step EXCEPT ![l] = IF l = "main" THEN "handle"
                                          ELSE "callback"]
    BY DEF TakeAnswer
  <1>2. /\ step[l] = "idle"
        /\ UNCHANGED <<made, pc, call, sessions, asked, missed>>
    BY DEF TakeAnswer, sender, history
  <1>3. /\ serving'[l] = c /\ step'[l] \in {"handle", "callback"}
        /\ \A k \in Loops \ {l} : serving'[k] = serving[k] /\ step'[k] = step[k]
    BY <1>1 DEF TypeOK
  <1>4. Unhandled' = Unhandled
    BY <1>1, <1>2, <1>3 DEF Unhandled
  <1> QED
    BY <1>2, <1>4, KeepsNotedApart

LEMMA CallbackNoted ==
    ASSUME Parts, NotedInv, NEW l \in Loops, Callback(l) PROVE NotedInv'
  <1> USE DEF Parts
  <1>1. /\ step[l] = "callback" /\ step' = [step EXCEPT ![l] = "handle"]
        /\ UNCHANGED <<made, pc, call, sessions, asked, arrived, serving, missed>>
    BY DEF Callback, sender, bus, history
  <1>2. step'[l] = "handle" /\ \A k \in Loops \ {l} : step'[k] = step[k]
    BY <1>1 DEF TypeOK
  <1>3. Unhandled' = Unhandled
    BY <1>1, <1>2 DEF Unhandled
  <1> QED
    BY <1>1, <1>3, KeepsNotedApart

\* The handler takes the session away with the call.  If the call is not noted
\* yet, its sender does not hold the handler's lock, so it is a search, has
\* no session, and is missed.
LEMMA HandleNoted ==
    ASSUME Parts, NotedInv, NEW l \in Loops, Handle(l) PROVE NotedInv'
  <1> USE DEF Parts
  <1> DEFINE c == serving[l]
  <1>1. /\ step[l] = "handle" /\ sessions' = sessions \ {c}
        /\ missed' = IF Known(c) THEN missed ELSE missed \cup {c}
        /\ step' = [step EXCEPT ![l] =
                      IF l = "main" THEN "idle"
                      ELSE IF c.op = "inject" /\ Known(c) THEN "nested"
                      ELSE "wake"]
        /\ serving' = IF l = "main" THEN [serving EXCEPT ![l] = None]
                      ELSE serving
        /\ UNCHANGED <<made, pc, call, asked, arrived>>
    BY DEF Handle, sender, bus
  <1>2. \A k \in Loops \ {l} : serving'[k] = serving[k] /\ step'[k] = step[k]
    BY <1>1 DEF TypeOK
  <1>3. Unhandled \ {c} \subseteq Unhandled'
    BY <1>1, <1>2 DEF Unhandled
  <1>4. missed \subseteq missed'
    BY <1>1
  <1>5. \A d \in sessions' : d \in Unhandled' \cup missed' /\ d.nth < made'[d.by]
    BY <1>1, <1>3, <1>4 DEF NotedInv
  <1>6. \A u \in Threads : Unsent(u)' \/ Noting(u)' => call'[u] \notin sessions'
    BY <1>1 DEF NotedInv, Unsent, Noting
  <1>7. ASSUME NEW u \in Threads, Noting(u)
        PROVE  call[u] \in Unhandled' \cup missed'
    <2>1. call[u] \in Unhandled \cup missed /\ call[u] \notin sessions
      BY <1>7 DEF NotedInv
    <2>2. CASE call[u] # c
      BY <1>3, <1>4, <2>1, <2>2
    <2>3. CASE call[u] = c
      <3>1. pc[l] = "idle"
        BY <1>1 DEF StepInv
      <3>2. l = "main" <=> c.op = "search"
        BY <1>1, ServingFacts
      <3>3. c.op = "search"
        <4> SUFFICES ASSUME c.op # "search" PROVE FALSE
          OBVIOUS
        <4>1. pc[u] = "note" /\ l \in Connectors
          BY <1>7, <2>3, <3>2 DEF StepInv, Noting, Loops
        <4>2. static[Static(c)] = u /\ static[Static(c)] = l
          BY <1>1, <2>3, <4>1 DEF LockInv
        <4> QED
          BY <3>1, <4>1, <4>2
      <3>4. ~Known(c)
        BY <2>1, <2>3, <3>3 DEF Known
      <3> QED
        BY <1>1, <2>3, <3>4
    <2> QED
      BY <2>2, <2>3
  <1>8. \A u \in Threads : Noting(u)' => call'[u] \in Unhandled' \cup missed'
    BY <1>1, <1>7 DEF Noting
  <1> QED
    BY <1>5, <1>6, <1>8 DEF NotedInv

LEMMA SendNestedNoted ==
    ASSUME Parts, NotedInv, NEW l \in Loops, SendNested(l) PROVE NotedInv'
  <1> USE DEF Parts
  <1> DEFINE n == [by |-> l, nth |-> made[l], op |-> "put", on |-> l]
  <1>1. /\ step[l] = "nested" /\ step' = [step EXCEPT ![l] = "wake"]
        /\ made' = [made EXCEPT ![l] = @ + 1]
        /\ Make(l, n)
        /\ UNCHANGED <<sessions, asked, arrived, serving, missed>>
    BY DEF SendNested, bus
  <1>2. l \in Threads /\ n \in Call
    BY <1>1 DEF MainInv, Threads, Loops, Call, Ops, TypeOK
  <1>3. n.by = l /\ n.nth = made[l]
    OBVIOUS
  <1> HIDE DEF n
  <1>4. step'[l] = "wake" /\ \A k \in Loops \ {l} : step'[k] = step[k]
    BY <1>1 DEF TypeOK
  <1>5. Unhandled' = Unhandled
    BY <1>1, <1>4 DEF Unhandled
  <1> QED
    BY <1>1, <1>2, <1>3, <1>5, MakeNoted

LEMMA WakeNoted ==
    ASSUME Parts, NotedInv, NEW l \in Loops, Wake(l) PROVE NotedInv'
  <1> USE DEF Parts
  <1>1. /\ step[l] = "wake"
        /\ step' = [step EXCEPT ![l] = "idle"]
        /\ serving' = [serving EXCEPT ![l] = None]
        /\ UNCHANGED <<made, call, sessions, asked, arrived, missed>>
    BY DEF Wake, bus, history
  <1>2. /\ step'[l] = "idle"
        /\ \A k \in Loops \ {l} : serving'[k] = serving[k] /\ step'[k] = step[k]
    BY <1>1 DEF TypeOK
  <1>3. \A u \in Threads :
           pc'[u] = pc[u] \/ (pc[u] = "asleep" /\ pc'[u] = "woken")
    <2>1. CASE pc' = pc
      BY <2>1
    <2>2. CASE \E t \in Asleep(l) : Go(t, "woken")
      <3>1. PICK t \in Threads : pc[t] = "asleep" /\ Go(t, "woken")
        BY <2>2 DEF Asleep, At
      <3> QED
        BY <3>1 DEF Go, TypeOK
    <2> QED
      BY <2>1, <2>2 DEF Wake
  <1>4. Unhandled' = Unhandled
    BY <1>1, <1>2 DEF Unhandled
  <1> QED
    BY <1>1, <1>3, <1>4, KeepsNotedApart

(* The bus, and the start of the connectors' threads.                      *)
LEMMA OtherNoted ==
    ASSUME Parts, NotedInv,
           \/ \E k \in Connectors : RunConnector(k)
           \/ \E c \in asked : Answer(c)
           \/ UNCHANGED vars
    PROVE  NotedInv'
  <1> USE DEF Parts
  <1>1. ASSUME NEW k \in Connectors, NotifyStart(k) PROVE NotedInv'
    <2>1. UNCHANGED <<made, call, sessions, asked, arrived, serving, step, missed>>
      BY <1>1 DEF NotifyStart, bus, server, history
    <2>2. \A u \in Threads :
             pc'[u] = pc[u] \/ (pc[u] = "blocked" /\ pc'[u] = "enter")
      <3>1. CASE pc' = pc
        BY <3>1
      <3>2. CASE \E t \in Blocked(k) : Go(t, "enter")
        <4>1. PICK t \in Threads : pc[t] = "blocked" /\ Go(t, "enter")
          BY <3>2 DEF Blocked, At
        <4> QED
          BY <4>1 DEF Go, TypeOK
      <3> QED
        BY <1>1, <3>1, <3>2 DEF NotifyStart
    <2>3. Unhandled' = Unhandled
      BY <2>1 DEF Unhandled
    <2> QED
      BY <2>1, <2>2, <2>3, KeepsNotedApart
  <1>2. ASSUME \/ \E k \in Connectors : RunLoop(k)
               \/ \E c \in asked : Answer(c)
               \/ UNCHANGED vars
        PROVE  NotedInv'
    <2>1. UNCHANGED <<pc, made, call, sessions, serving, step, missed>>
      BY <1>2 DEF RunLoop, Answer, vars, sender, server, history
    <2>2. asked' \cup arrived' = asked \cup arrived
      BY <1>2 DEF RunLoop, Answer, vars, bus
    <2>3. Unhandled' = Unhandled
      BY <2>1, <2>2 DEF Unhandled
    <2> QED
      BY <2>1, <2>3, KeepsNotedApart
  <1> QED
    BY <1>1, <1>2 DEF RunConnector

LEMMA NextUnansweredInv == UnansweredInv /\ [Next]_vars => UnansweredInv'
  <1> SUFFICES ASSUME UnansweredInv, [Next]_vars PROVE UnansweredInv'
    OBVIOUS
  <1>1. Parts /\ AnswerInv /\ NotedInv
    BY DEF UnansweredInv, AnswerInv, Parts
  <1>2. AnswerInv'
    BY <1>1, NextAnswerInv
  <1>3. NotedInv'
    <2>1. ASSUME NEW l \in Loops, ServeAnswer(l) PROVE NotedInv'
      BY <1>1, <2>1, TakeAnswerNoted, CallbackNoted, HandleNoted,
         SendNestedNoted, WakeNoted DEF ServeAnswer
    <2> QED
      BY <1>1, <2>1, SenderNoted, OtherNoted DEF Next, Running
  <1> QED
    BY <1>2, <1>3 DEF UnansweredInv

\* When no thread is in a call and no answer waits, messageMap_ holds only
\* calls that the bus has still to answer, given up or not, and searches
\* whose answer was faster than the token: no session is left behind by
\* refused calls, timeouts or nested calls.
THEOREM NoSessionIsLeft == Spec => []SessionsAreUnanswered
  <1>1. Init => UnansweredInv
    <2> SUFFICES ASSUME Init PROVE NotedInv
      BY InitAnswerInv DEF UnansweredInv
    <2>1. sessions = {} /\ \A t \in Threads : pc[t] = "idle"
      BY DEF Init
    <2> QED
      BY <2>1 DEF NotedInv, Noting
  <1>2. UnansweredInv => SessionsAreUnanswered
    <2> SUFFICES ASSUME UnansweredInv, Quiet
                 PROVE  sessions \subseteq asked \cup missed
      BY DEF SessionsAreUnanswered
    <2>1. Unhandled = asked
      BY DEF Quiet, Unhandled
    <2> QED
      BY <2>1 DEF UnansweredInv, NotedInv
  <1> QED
    BY <1>1, <1>2, NextUnansweredInv, PTL DEF Spec

----------------------------------------------------------------------------
(***************************************************************************)
(* A synchronous call that is alone returns with its own answer.           *)
(***************************************************************************)
\* A call of a connector is pending as long as its thread is in it, or its
\* handler is.
LEMMA NoneIsNoCall == None \notin Call
  BY NamesAssumption DEF None, Call

LEMMA ArePending ==
    ASSUME Parts
    PROVE  /\ \A t \in Threads : pc[t] # "idle" /\ call[t].op # "search"
                 => call[t].on \in Connectors /\ call[t] \in Pending(call[t].on)
           /\ \A l \in Connectors : step[l] # "idle" => serving[l] \in Pending(l)
  <1> USE DEF Parts
  <1>1. ASSUME NEW t \in Threads, pc[t] # "idle", call[t].op # "search"
        PROVE  call[t].on \in Connectors /\ call[t] \in Pending(call[t].on)
    BY <1>1, CallFacts, NoneIsNoCall DEF Pending
  <1>2. ASSUME NEW l \in Connectors, step[l] # "idle"
        PROVE  serving[l] \in Pending(l)
    <2>1. l \in Loops /\ l # "main"
      BY NamesAssumption DEF Loops
    <2> QED
      BY <1>2, <2>1, ServingFacts, NoneIsNoCall DEF Pending
  <1> QED
    BY <1>1, <1>2

\* Two calls of one connector that are pending have overlapped, both.
LEMMA TogetherOverlap ==
    ASSUME AloneInv, NEW k \in Connectors,
           NEW c \in Pending(k), NEW d \in Pending(k), c # d
    PROVE  c \in overlapped /\ d \in overlapped
  BY DEF AloneInv

\* A step that begins no call, sets no flag and no response keeps AloneInv.
LEMMA KeepsAlone ==
    ASSUME AloneInv,
           UNCHANGED <<overlapped, made, done, cell, flag, astray, begun>>,
           \A k \in Connectors : Pending(k)' \subseteq Pending(k),
           \A u \in Threads : pc'[u] # "idle" =>
               /\ pc[u] # "idle" /\ call'[u] = call[u]
               /\ Waiting(u)' => Waiting(u)
    PROVE  AloneInv'
  BY DEF AloneInv, AloneMeansAnswered

\* Pending calls move; none comes but by Make.
LEMMA PendingMoves ==
    ASSUME \A c \in (asked \cup arrived \cup {serving[l] : l \in Loops}
                     \cup {call[t] : t \in Threads})' :
               c # None => c \in asked \cup arrived \cup {serving[l] : l \in Loops}
                                \cup {call[t] : t \in Threads}
    PROVE  \A k \in Connectors : Pending(k)' \subseteq Pending(k)
  BY DEF Pending, None

\* What a thread makes overlaps with what it finds pending.
LEMMA MakeAlone ==
    ASSUME Parts, AloneInv, NEW t \in Threads, NEW c \in Call, Make(t, c),
           c.by = t, c.nth = made[t],
           made' = [made EXCEPT ![t] = @ + 1],
           UNCHANGED <<asked, arrived, serving, done, cell, flag, astray, begun>>
    PROVE  AloneInv'
  <1> USE DEF Parts
  <1>1. call'[t] = c /\ pc'[t] \in {"search", "enter", "peek"}
    BY Begins
  <1>2. /\ made[t] \in Nat /\ made'[t] = made[t] + 1
        /\ \A u \in Threads \ {t} :
               pc'[u] = pc[u] /\ call'[u] = call[u] /\ made'[u] = made[u]
    BY DEF TypeOK, Make, Go
  <1>3. /\ overlapped \subseteq overlapped'
        /\ c.op # "search" /\ Pending(c.on) # {}
              => Pending(c.on) \cup {c} \subseteq overlapped'
    BY DEF Make
  <1>4. ASSUME NEW k \in Connectors, NEW d \in Pending(k)'
        PROVE  d \in Pending(k) \/ (d = c /\ c.on = k /\ c.op # "search")
    <2>1. d # None /\ d.op # "search" /\ d.on = k
      BY <1>4 DEF Pending, None
    <2>2. d \in asked \cup arrived \cup {serving[l] : l \in Loops}
                \cup {call'[u] : u \in Threads}
      BY <1>4 DEF Pending
    <2>3. CASE d \in asked \cup arrived \cup {serving[l] : l \in Loops}
      BY <2>1, <2>3 DEF Pending
    <2>4. CASE \E u \in Threads : d = call'[u]
      BY <1>1, <1>2, <2>1, <2>4 DEF Pending
    <2> QED
      BY <2>2, <2>3, <2>4
  <1>5. ASSUME NEW k \in Connectors, NEW d \in Pending(k)', NEW e \in Pending(k)',
               d # e
        PROVE  d \in overlapped'
    <2>1. CASE d \in Pending(k) /\ e \in Pending(k)
      BY <1>3, <1>5, <2>1, TogetherOverlap
    <2>2. CASE d = c /\ c.on = k /\ c.op # "search" /\ e \in Pending(k)
      BY <1>3, <2>2
    <2>3. CASE e = c /\ c.on = k /\ c.op # "search" /\ d \in Pending(k)
      BY <1>3, <2>3
    <2> QED
      BY <1>4, <1>5, <2>1, <2>2, <2>3
  <1>6. \A d \in done : d.by \in Threads /\ d.nth \in Nat /\ d.nth < made[d.by]
    BY DEF TypeOK, Call, AloneInv
  <1>7. c \notin done
    BY <1>2, <1>6
  <1>8. ASSUME NEW d \in done PROVE d.nth < made'[d.by]
    <2>1. CASE d.by = t
      BY <1>2, <1>6, <2>1
    <2>2. CASE d.by # t
      BY <1>2, <1>6, <2>2
    <2> QED
      BY <2>1, <2>2
  <1>9. ASSUME NEW u \in Threads, pc'[u] # "idle", call'[u] \notin overlapped'
        PROVE  /\ Waiting(u)' /\ call'[u].op \in Sync /\ flag[call'[u].on]
                     => call'[u] \in begun
               /\ call'[u].op = "query" /\ call'[u] \in done
                     => cell[call'[u].on] = call'[u]
    <2>1. CASE u = t
      BY <1>1, <1>7, <2>1 DEF Waiting
    <2>2. CASE u # t
      BY <1>2, <1>3, <1>9, <2>2 DEF AloneInv, Waiting
    <2> QED
      BY <2>1, <2>2
  <1>10. AloneMeansAnswered'
    BY <1>3 DEF AloneInv, AloneMeansAnswered
  <1> QED
    BY <1>5, <1>8, <1>9, <1>10 DEF AloneInv

(* Senders.                                                                *)
\* Of the other threads only the flag can change: it goes down, or a caller
\* that gives up sets it for a call it has overlapped with.
LEMMA SenderAlone ==
    ASSUME Parts, AloneInv, NEW t \in Threads, SendMessage(t)
    PROVE  AloneInv'
  <1> USE DEF Parts
  <1>1. /\ UNCHANGED <<step, serving, arrived, missed>>
        /\ \A u \in Threads \ {t} :
               pc'[u] = pc[u] /\ call'[u] = call[u] /\ made'[u] = made[u]
    BY SenderFrame
  <1>2. begun' = begun /\ done' = done /\ cell' = cell
    BY DEF SendMessage, Begin, Peek, Block, SetHandler, LockStatic, Sent,
       Refused, RememberSession, CheckFlag, FallAsleep, Sleep, WakeUp,
       TimeOut, GiveUp, Search, SearchRefused, RememberSearch, wrapper, history
  <1>3. CASE Begin(t)
    <2> DEFINE c == [by |-> t, nth |-> made[t],
                     op |-> Head(todo[t]).op, on |-> Head(todo[t]).on]
    <2>1. todo[t] \in Seq(Job) /\ todo[t] # <<>>
      BY <1>3 DEF Begin, TypeOK
    <2>2. Head(todo[t]) \in Job
      BY <2>1
    <2>3. c \in Call /\ Make(t, c)
      BY <1>3, <2>2, NewCall DEF Begin
    <2>4. c.by = t /\ c.nth = made[t]
      OBVIOUS
    <2>5. /\ made' = [made EXCEPT ![t] = @ + 1]
          /\ UNCHANGED <<asked, flag, astray>>
      BY <1>3 DEF Begin, bus, wrapper
    <2> HIDE DEF c
    <2> QED
      BY <1>1, <1>2, <2>3, <2>4, <2>5, MakeAlone
  <1> SUFFICES ASSUME ~Begin(t) PROVE AloneInv'
    BY <1>3
  <1>4. overlapped' = overlapped
    BY DEF SendMessage, Begin, Peek, Block, SetHandler, LockStatic, Sent,
       Refused, RememberSession, CheckFlag, FallAsleep, Sleep, WakeUp,
       TimeOut, GiveUp, Search, SearchRefused, RememberSearch, history
  <1>5. /\ pc[t] # "idle" /\ made' = made
        /\ \/ call' = call /\ pc'[t] # "idle"
           \/ pc'[t] = "idle"
    BY SenderSteps
  <1>6. \A u \in Threads : pc[u] # "idle" =>
           /\ call[u].by = u
           /\ (pc[u] \in {"search", "token"} <=> call[u].op = "search")
    BY DEF StepInv
  <1>7. \A u \in Threads : call'[u] = call[u] \/ call'[u] = None
    <2>1. ASSUME NEW ok, Return(t, ok)
          PROVE  \A u \in Threads : call'[u] = call[u] \/ call'[u] = None
      BY <2>1 DEF Return, TypeOK
    <2>2. ASSUME ~\E ok \in BOOLEAN : Return(t, ok) PROVE call' = call
      BY <2>2 DEF SendMessage, Begin, Peek, Block, SetHandler, LockStatic,
         Sent, Refused, RememberSession, CheckFlag, FallAsleep, Sleep, WakeUp,
         TimeOut, GiveUp, Search, SearchRefused, RememberSearch
    <2> QED
      BY <2>1, <2>2
  <1>8. \A k \in Connectors : Pending(k)' \subseteq Pending(k)
    <2>1. asked' \subseteq asked \cup {call[t]}
      BY SenderAsks
    <2>2. \A u \in Threads : call'[u] # None => call'[u] = call[u]
      BY <1>7
    <2> QED
      BY <1>1, <2>1, <2>2, PendingMoves
  <1>9. astray' \subseteq overlapped
    <2>1. astray \subseteq overlapped
      BY DEF AloneInv, AloneMeansAnswered
    <2>2. CASE CheckFlag(t)
      <3>1. pc[t] = "check" /\ flag[call[t].on] /\ Return(t, TRUE)
        BY <2>2 DEF CheckFlag, At
      <3>2. CASE call[t] \in overlapped
        BY <2>1, <3>1, <3>2 DEF Return
      <3>3. CASE call[t] \notin overlapped
        <4>1. call[t].op \in Sync => call[t] \in begun
          BY <3>1, <3>3 DEF AloneInv, Waiting
        <4>2. ~ReadsAnother(t)
          BY <3>1, <3>3 DEF AloneInv, ReadsAnother
        <4> QED
          BY <2>1, <3>1, <4>1, <4>2 DEF Return
      <3> QED
        BY <3>2, <3>3
    <2>3. CASE RememberSession(t) \/ RememberSearch(t)
      <3>1. astray' = astray \/ (Return(t, TRUE) /\ call[t].op \notin Sync)
        BY <1>6, <2>3 DEF RememberSession, RememberSearch, At, Sync
      <3> QED
        BY <2>1, <3>1 DEF Return, ReadsAnother, Sync
    <2>4. CASE Refused(t) \/ GiveUp(t) \/ SearchRefused(t)
      <3>1. Return(t, FALSE)
        BY <2>4 DEF Refused, GiveUp, SearchRefused
      <3> QED
        BY <2>1, <3>1 DEF Return
    <2>5. CASE ~\/ CheckFlag(t) \/ RememberSession(t) \/ RememberSearch(t)
                \/ Refused(t) \/ GiveUp(t) \/ SearchRefused(t)
      BY <2>1, <2>5 DEF SendMessage, Begin, Peek, Block, SetHandler,
         LockStatic, Sent, FallAsleep, Sleep, WakeUp, TimeOut, Search, history
    <2> QED
      BY <2>2, <2>3, <2>4, <2>5
  <1>10. ASSUME NEW u \in Threads, pc'[u] # "idle", call[u] \notin overlapped,
                Waiting(u)', call[u].op \in Sync, flag'[call[u].on]
         PROVE  call[u] \in begun
    <2>1. pc[u] # "idle"
      BY <1>1, <1>5, <1>10
    <2>2. call[u].on \in Connectors /\ call[u] \in Pending(call[u].on)
      BY <1>10, <2>1, ArePending DEF Sync
    <2>3. CASE SetHandler(t)
      <3>1. /\ pc[t] = "enter" /\ pc'[t] = "static"
            /\ flag' = [flag EXCEPT ![call[t].on] = FALSE]
        BY <2>3 DEF SetHandler, At, Go, TypeOK
      <3>2. call[t].on # call[u].on
        BY <1>10, <2>2, <3>1 DEF TypeOK
      <3>3. u # t /\ flag[call[u].on]
        BY <1>10, <2>2, <3>1, <3>2 DEF TypeOK
      <3> QED
        BY <1>1, <1>10, <2>1, <3>3 DEF AloneInv, Waiting
    <2>4. CASE GiveUp(t)
      <3>1. /\ pc[t] = "late" /\ pc'[t] = "idle"
            /\ flag' = [flag EXCEPT ![call[t].on] = TRUE]
        BY <2>4 DEF GiveUp, Return, At, TypeOK
      <3>2. u # t /\ call[t] # call[u]
        BY <1>5, <1>6, <1>10, <2>1, <3>1
      <3>3. call[t].on \in Connectors /\ call[t] \in Pending(call[t].on)
        BY <1>6, <3>1, ArePending
      <3>4. call[t].on # call[u].on
        BY <1>10, <2>2, <3>2, <3>3, TogetherOverlap
      <3>5. flag[call[u].on]
        BY <1>10, <2>2, <3>1, <3>4 DEF TypeOK
      <3> QED
        BY <1>1, <1>10, <2>1, <3>2, <3>5 DEF AloneInv, Waiting
    <2>5. CASE ~SetHandler(t) /\ ~GiveUp(t)
      <3>1. flag' = flag
        BY <2>5 DEF SendMessage, Begin, Peek, Block, LockStatic, Sent,
           Refused, RememberSession, CheckFlag, FallAsleep, Sleep, WakeUp,
           TimeOut, Search, SearchRefused, RememberSearch, wrapper
      <3>2. pc'[t] = "idle" \/ (Waiting(t)' => Waiting(t))
        <4>1. ASSUME NEW ok, Return(t, ok) PROVE pc'[t] = "idle"
          BY <4>1 DEF Return, TypeOK
        <4>2. CASE \/ Refused(t) \/ CheckFlag(t) \/ SearchRefused(t)
                   \/ RememberSearch(t)
          BY <4>1, <4>2 DEF Refused, CheckFlag, SearchRefused, RememberSearch
        <4>3. CASE \/ Peek(t) \/ Block(t) \/ LockStatic(t) \/ Sent(t)
                   \/ RememberSession(t) \/ FallAsleep(t) \/ Sleep(t)
                   \/ WakeUp(t) \/ TimeOut(t) \/ Search(t)
          BY <4>3 DEF Peek, Block, LockStatic, Sent, RememberSession,
             FallAsleep, Sleep, WakeUp, TimeOut, Search, Go, At, TypeOK,
             Waiting
        <4> QED
          BY <2>5, <4>2, <4>3 DEF SendMessage
      <3>3. Waiting(u)
        BY <1>1, <1>10, <3>2 DEF Waiting
      <3> QED
        BY <1>10, <2>1, <3>1, <3>3 DEF AloneInv
    <2> QED
      BY <2>3, <2>4, <2>5
  <1>11. ASSUME NEW u \in Threads, pc'[u] # "idle", call[u] \notin overlapped
         PROVE  call[u].op = "query" /\ call[u] \in done
                  => cell[call[u].on] = call[u]
    <2>1. pc[u] # "idle"
      BY <1>1, <1>5, <1>11
    <2> QED
      BY <1>11, <2>1 DEF AloneInv
  <1>12. \A u \in Threads : pc'[u] # "idle" => call'[u] = call[u]
    BY <1>1, <1>5
  <1> QED
    BY <1>2, <1>4, <1>5, <1>8, <1>9, <1>10, <1>11, <1>12
    DEF AloneInv, AloneMeansAnswered

----------------------------------------------------------------------------
(* Loops.                                                                  *)
LEMMA TakeAnswerAlone ==
    ASSUME Parts, AloneInv, NEW l \in Loops, TakeAnswer(l) PROVE AloneInv'
  <1> USE DEF Parts
  <1>1. PICK c \in arrived :
           arrived' = arrived \ {c} /\ serving' = [serving EXCEPT ![l] = c]
    BY DEF TakeAnswer
  <1>2. UNCHANGED <<overlapped, made, done, cell, flag, astray, begun, pc,
                    call, asked>>
    BY DEF TakeAnswer, sender, wrapper, history
  <1>3. \A k \in Loops : serving'[k] = serving[k] \/ serving'[k] = c
    BY <1>1 DEF TypeOK
  <1>4. \A k \in Connectors : Pending(k)' \subseteq Pending(k)
    BY <1>1, <1>2, <1>3, PendingMoves
  <1> QED
    BY <1>2, <1>4, KeepsAlone DEF Waiting

\* The flag goes up for all callers of the connector, but one that waits for
\* another answer has overlapped with it.
LEMMA CallbackAlone ==
    ASSUME Parts, AloneInv, NEW l \in Loops, Callback(l) PROVE AloneInv'
  <1> USE DEF Parts
  <1> DEFINE c == serving[l]
  <1>1. /\ step[l] = "callback" /\ flag' = [flag EXCEPT ![l] = TRUE]
        /\ begun' = begun \cup {c}
        /\ UNCHANGED <<made, pc, call, asked, arrived, serving, done, cell,
                       overlapped, astray>>
    BY DEF Callback, sender, bus
  <1>2. l \in Connectors /\ c \in Pending(l)
    BY <1>1, ArePending DEF MainInv, Loops
  <1>3. \A k \in Connectors : Pending(k)' = Pending(k)
    BY <1>1 DEF Pending
  <1>4. ASSUME NEW u \in Threads, pc[u] # "idle", call[u] \notin overlapped,
               Waiting(u), call[u].op \in Sync, flag'[call[u].on]
        PROVE  call[u] \in begun'
    <2>1. call[u].on \in Connectors /\ call[u] \in Pending(call[u].on)
      BY <1>4, ArePending DEF Sync
    <2>2. CASE call[u].on = l
      BY <1>1, <1>2, <1>4, <2>1, <2>2, TogetherOverlap
    <2>3. CASE call[u].on # l
      <3>1. flag[call[u].on]
        BY <1>1, <1>2, <1>4, <2>1, <2>3 DEF TypeOK
      <3> QED
        BY <1>1, <1>4, <3>1 DEF AloneInv
    <2> QED
      BY <2>2, <2>3
  <1> QED
    BY <1>1, <1>3, <1>4 DEF AloneInv, Waiting, AloneMeansAnswered

\* The answer goes to response_ of the connector, where no other call that
\* has not overlapped with it looks.
LEMMA HandleAlone ==
    ASSUME Parts, AloneInv, NEW l \in Loops, Handle(l) PROVE AloneInv'
  <1> USE DEF Parts
  <1> DEFINE c == serving[l]
  <1>1. /\ step[l] = "handle"
        /\ done' = IF Known(c) THEN done \cup {c} ELSE done
        /\ cell' = Stored(l, c)
        /\ serving' = IF l = "main" THEN [serving EXCEPT ![l] = None]
                      ELSE serving
        /\ UNCHANGED <<made, pc, call, asked, arrived, flag, begun, overlapped,
                       astray>>
    BY DEF Handle, sender, bus
  <1>2. c \in Call /\ (l = "main" <=> c.op = "search")
    BY <1>1, ServingFacts
  <1>3. \A k \in Loops : serving'[k] = serving[k] \/ serving'[k] = None
    BY <1>1 DEF TypeOK
  <1>4. \A k \in Connectors : Pending(k)' \subseteq Pending(k)
    BY <1>1, <1>3, PendingMoves
  <1>5. c.nth < made[c.by]
    BY <1>1 DEF OutInv, Out, Served
  <1>6. ASSUME NEW u \in Threads, pc[u] # "idle", call[u] \notin overlapped,
               call[u].op = "query", call[u] \in done'
        PROVE  cell'[call[u].on] = call[u]
    <2>1. call[u].on \in Connectors /\ call[u] \in Pending(call[u].on)
      BY <1>6, ArePending
    <2>2. CASE c.op # "query"
      <3>1. cell' = cell /\ call[u] # c
        BY <1>1, <1>6, <2>2 DEF Stored
      <3> QED
        BY <1>1, <1>6, <3>1 DEF AloneInv
    <2>3. CASE c.op = "query"
      <3>1. l \in Connectors /\ cell' = [cell EXCEPT ![l] = c] /\ c \in Pending(l)
        BY <1>1, <1>2, <2>3, ArePending DEF Stored, Loops
      <3>2. CASE call[u] = c
        <4>1. c.on = l
          BY <1>1, <1>2, <2>3, ServingFacts
        <4> QED
          BY <3>1, <3>2, <4>1 DEF TypeOK
      <3>3. CASE call[u] # c
        <4>1. call[u].on # l
          BY <1>6, <2>1, <3>1, <3>3, TogetherOverlap
        <4>2. cell'[call[u].on] = cell[call[u].on]
          BY <2>1, <3>1, <4>1 DEF TypeOK
        <4> QED
          BY <1>1, <1>6, <3>3, <4>2 DEF AloneInv
      <3> QED
        BY <3>2, <3>3
    <2> QED
      BY <2>2, <2>3
  <1>7. \A d \in done' : d.nth < made'[d.by]
    BY <1>1, <1>5 DEF AloneInv
  <1> QED
    BY <1>1, <1>4, <1>6, <1>7 DEF AloneInv, Waiting, AloneMeansAnswered

LEMMA SendNestedAlone ==
    ASSUME Parts, AloneInv, NEW l \in Loops, SendNested(l) PROVE AloneInv'
  <1> USE DEF Parts
  <1> DEFINE n == [by |-> l, nth |-> made[l], op |-> "put", on |-> l]
  <1>1. /\ step[l] = "nested" /\ made' = [made EXCEPT ![l] = @ + 1]
        /\ Make(l, n)
        /\ UNCHANGED <<asked, arrived, serving, done, cell, flag, astray, begun>>
    BY DEF SendNested, bus, wrapper
  <1>2. l \in Threads /\ n \in Call
    BY <1>1 DEF MainInv, Threads, Loops, Call, Ops, TypeOK
  <1>3. n.by = l /\ n.nth = made[l]
    OBVIOUS
  <1> HIDE DEF n
  <1> QED
    BY <1>1, <1>2, <1>3, MakeAlone

LEMMA WakeAlone ==
    ASSUME Parts, AloneInv, NEW l \in Loops, Wake(l) PROVE AloneInv'
  <1> USE DEF Parts
  <1>1. /\ serving' = [serving EXCEPT ![l] = None]
        /\ UNCHANGED <<overlapped, made, done, cell, flag, astray, begun,
                       call, asked, arrived>>
    BY DEF Wake, bus, wrapper, history
  <1>2. \A u \in Threads :
           pc'[u] = pc[u] \/ (pc[u] = "asleep" /\ pc'[u] = "woken")
    <2>1. CASE pc' = pc
      BY <2>1
    <2>2. CASE \E t \in Asleep(l) : Go(t, "woken")
      <3>1. PICK t \in Threads : pc[t] = "asleep" /\ Go(t, "woken")
        BY <2>2 DEF Asleep, At
      <3> QED
        BY <3>1 DEF Go, TypeOK
    <2> QED
      BY <2>1, <2>2 DEF Wake
  <1>3. \A k \in Loops : serving'[k] = serving[k] \/ serving'[k] = None
    BY <1>1 DEF TypeOK
  <1>4. \A k \in Connectors : Pending(k)' \subseteq Pending(k)
    BY <1>1, <1>3, PendingMoves
  <1> QED
    BY <1>1, <1>2, <1>4, KeepsAlone DEF Waiting

(* The bus, and the start of the connectors' threads.                      *)
LEMMA OtherAlone ==
    ASSUME Parts, AloneInv,
           \/ \E k \in Connectors : RunConnector(k)
           \/ \E c \in asked : Answer(c)
           \/ UNCHANGED vars
    PROVE  AloneInv'
  <1> USE DEF Parts
  <1>1. UNCHANGED <<overlapped, made, done, cell, flag, astray, begun, call,
                    serving>>
    BY DEF RunConnector, RunLoop, NotifyStart, Answer, vars, sender, wrapper,
       server, history
  <1>2. asked' \cup arrived' = asked \cup arrived
    BY DEF RunConnector, RunLoop, NotifyStart, Answer, vars, bus
  <1>3. \A k \in Connectors : Pending(k)' \subseteq Pending(k)
    BY <1>1, <1>2, PendingMoves
  <1>4. \A u \in Threads :
           pc'[u] = pc[u] \/ (pc[u] = "blocked" /\ pc'[u] = "enter")
    <2>1. CASE pc' = pc
      BY <2>1
    <2>2. ASSUME NEW k \in Connectors, \E t \in Blocked(k) : Go(t, "enter")
          PROVE  \A u \in Threads :
                   pc'[u] = pc[u] \/ (pc[u] = "blocked" /\ pc'[u] = "enter")
      <3>1. PICK t \in Threads : pc[t] = "blocked" /\ Go(t, "enter")
        BY <2>2 DEF Blocked, At
      <3> QED
        BY <3>1 DEF Go, TypeOK
    <2>3. pc' = pc \/ \E k \in Connectors : \E t \in Blocked(k) : Go(t, "enter")
      BY DEF RunConnector, RunLoop, NotifyStart, Answer, vars, sender
    <2> QED
      BY <2>1, <2>2, <2>3
  <1> QED
    BY <1>1, <1>3, <1>4, KeepsAlone DEF Waiting

LEMMA NextAloneAnswerInv == AloneAnswerInv /\ [Next]_vars => AloneAnswerInv'
  <1> SUFFICES ASSUME AloneAnswerInv, [Next]_vars PROVE AloneAnswerInv'
    OBVIOUS
  <1>1. Parts /\ AnswerInv /\ AloneInv
    BY DEF AloneAnswerInv, AnswerInv, Parts
  <1>2. AnswerInv'
    BY <1>1, NextAnswerInv
  <1>3. AloneInv'
    <2>1. ASSUME NEW l \in Loops, ServeAnswer(l) PROVE AloneInv'
      BY <1>1, <2>1, TakeAnswerAlone, CallbackAlone, HandleAlone,
         SendNestedAlone, WakeAlone DEF ServeAnswer
    <2> QED
      BY <1>1, <2>1, SenderAlone, OtherAlone DEF Next, Running
  <1> QED
    BY <1>2, <1>3 DEF AloneAnswerInv

\* A synchronous call that says it went well has had its own answer, although
\* one flag, one condition variable and one response_ serve all calls of a
\* connector - unless another call of the connector was pending meanwhile.
THEOREM AloneIsAnswered == Spec => []AloneMeansAnswered
  <1>1. Init => AloneAnswerInv
    <2> SUFFICES ASSUME Init PROVE AloneInv
      BY InitAnswerInv DEF AloneAnswerInv
    <2>1. \A k \in Connectors : Pending(k) = {}
      BY DEF Init, Pending
    <2> QED
      BY <2>1 DEF Init, AloneInv, AloneMeansAnswered
  <1>2. AloneAnswerInv => AloneMeansAnswered
    BY DEF AloneAnswerInv, AloneInv
  <1> QED
    BY <1>1, <1>2, NextAloneAnswerInv, PTL DEF Spec

=============================================================================
