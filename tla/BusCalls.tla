------------------------------ MODULE BusCalls ------------------------------
(***************************************************************************)
(* How calls to the database are sent and answered: LunaConnector with its *)
(* CallbackWrapper, DbConnector's sessions on top of it, and the calls of  *)
(* DbConnector that go past the connector over the service's own handle.   *)
(*                                                                         *)
(* Every asynchronous connector has a thread that handles the answers to   *)
(* its calls, and one CallbackWrapper for all of them; CallbackLock_ and   *)
(* syncCallbackLock_ are static, so shared by all connectors of a process. *)
(* The bus is external: it refuses a call, or it answers sooner, later or  *)
(* never, in any order.                                                    *)
(***************************************************************************)
EXTENDS Integers, Sequences, FiniteSets

CONSTANTS
    Connectors,   \* connectors of the process, named like their threads
    Senders,      \* the other threads; "main" is the service's main loop
    Nobody,       \* the owner of a free lock
    Worlds        \* what a behaviour may start from, see below

Loops == Connectors \cup {"main"}
Threads == Senders \cup Loops

(***************************************************************************)
(* What is asked for, and how:                                             *)
(*   "put"     mergePut, merge, put, batch, putKind: asynchronous          *)
(*   "find"    needUpdate's find and putPermissions: synchronous, the      *)
(*             answer goes to an object of the caller                      *)
(*   "inject"  DeviceDb's find: synchronous, and its handler sends a put   *)
(*   "query"   any call of the client library: synchronous, the answer     *)
(*             goes to response_ of the connector                          *)
(*   "search"  search and del, over the handle of the main loop, and all   *)
(*             calls of a connector without a thread (SettingsDb's)        *)
(***************************************************************************)
Ops == {"put", "find", "inject", "query", "search"}
Sync == {"find", "inject", "query"}

\* A world: what each thread sends, one call after the other; whether the
\* bus may refuse a call; whether the connectors' threads run already.
Job == [op : Ops, on : Connectors]
ASSUME WorldsAssumption ==
    Worlds \subseteq [jobs : [Threads -> Seq(Job)], refuse : BOOLEAN,
                      started : BOOLEAN]
ASSUME NamesAssumption ==
    /\ "main" \notin Connectors
    /\ Nobody \notin Threads

\* A call is known by its token: who sent it, and which of
\* the sender's calls it is.
Call == [by : Threads, nth : Nat, op : Ops, on : Connectors]
LoopOf(c) == IF c.op = "search" THEN "main" ELSE c.on
Static(c) == IF c.op \in Sync THEN "sync" ELSE "async"

VARIABLES
    world,
    todo,       \* calls that each thread has still to make
    made,       \* how many calls each thread has begun
    pc, call,   \* where each thread is in sendMessage, and with which call
    started,    \* isTaskStarted_
    loop,       \* the connectors' threads: "off", "on" or "run"
    owner,      \* of the mutex of each CallbackWrapper
    flag,       \* is_callbacked_
    static,     \* owners of syncCallbackLock_ and CallbackLock_
    cell,       \* response_ of a client's connector: the call it answers
    sessions,   \* calls that messageMap_ remembers
    asked,      \* calls the bus has to answer
    arrived,    \* calls whose answer waits for its loop
    serving,    \* the call each loop handles the answer of,
    step,       \* ... and how far it is
    begun, done,    \* history: calls whose handler has begun, has written
    missed,         \* history: answers that found no session
    overlapped,     \* history: calls made while another was unanswered
    astray          \* history: calls that returned true without the answer

sender == <<todo, made, pc, call>>
wrapper == <<owner, flag, cell>>
start == <<started, loop>>
bus == <<asked, arrived>>
server == <<serving, step>>
history == <<begun, done, missed, overlapped, astray>>
vars == <<world, sender, wrapper, start, static, sessions, bus, server,
          history>>

None == [by |-> Nobody]

Init ==
    /\ world \in Worlds
    /\ todo = world.jobs
    /\ made = [t \in Threads |-> 0]
    /\ pc = [t \in Threads |-> "idle"]
    /\ call = [t \in Threads |-> None]
    /\ started = world.started
    /\ loop = [k \in Connectors |-> IF world.started THEN "run" ELSE "off"]
    /\ owner = [k \in Connectors |-> Nobody]
    /\ flag = [k \in Connectors |-> FALSE]
    /\ static = [s \in {"sync", "async"} |-> Nobody]
    /\ cell = [k \in Connectors |-> None]
    /\ sessions = {} /\ asked = {} /\ arrived = {}
    /\ serving = [l \in Loops |-> None]
    /\ step = [l \in Loops |-> "idle"]
    /\ begun = {} /\ done = {} /\ missed = {}
    /\ overlapped = {} /\ astray = {}

----------------------------------------------------------------------------
(***************************************************************************)
(* sendMessage, step by step.                                              *)
(***************************************************************************)
At(t, where) == pc[t] = where
Go(t, where) == pc' = [pc EXCEPT ![t] = where]
Free(k) == owner[k] = Nobody

\* Calls of a connector that are under way or not answered yet.
Pending(k) ==
    {c \in asked \cup arrived \cup {serving[l] : l \in Loops}
           \cup {call[t] : t \in Threads} :
        c # None /\ c.op # "search" /\ c.on = k}

\* A thread begins its call c; what it finds under way overlaps.
Make(t, c) ==
    /\ call' = [call EXCEPT ![t] = c]
    /\ Go(t, IF c.op = "search" THEN "search"
             ELSE IF started THEN "enter" ELSE "peek")
    /\ overlapped' =
         IF c.op = "search" \/ Pending(c.on) = {} THEN overlapped
         ELSE overlapped \cup Pending(c.on) \cup {c}

Begin(t) ==
    /\ At(t, "idle") /\ todo[t] # <<>>
    /\ t \in Loops => step[t] = "idle"
    /\ todo' = [todo EXCEPT ![t] = Tail(@)]
    /\ made' = [made EXCEPT ![t] = @ + 1]
    /\ Make(t, [by |-> t, nth |-> made[t],
                op |-> Head(todo[t]).op, on |-> Head(todo[t]).on])
    /\ UNCHANGED <<world, wrapper, start, static, sessions, bus, server,
                   begun, done, missed, astray>>

\* Mistake: a call that failed is sent once more, with nothing left of it.
ReturnRetries(t, ok) ==
    /\ pc' = [pc EXCEPT ![t] = IF ok THEN "idle" ELSE "enter"]
    /\ call' = [call EXCEPT ![t] = None]
    /\ UNCHANGED astray

\* The client reads response_, which may be the answer to another call.
ReadsAnother(t) ==
    call[t].op = "query" /\ call[t] \in done /\ cell[call[t].on] # call[t]

\* The call is over, and says whether it went well.
Return(t, ok) ==
    /\ pc' = [pc EXCEPT ![t] = "idle"]
    /\ call' = [call EXCEPT ![t] = None]
    /\ astray' = IF /\ ok /\ call[t].op \in Sync
                    /\ call[t] \notin begun \/ ReadsAnother(t)
                 THEN astray \cup {call[t]} ELSE astray

\* As long as isTaskStarted_ is false, the sender waits for the connector's
\* thread: the flag is read, and only then the sender blocks.
Peek(t) ==
    /\ At(t, "peek") /\ Go(t, IF started THEN "enter" ELSE "block")
    /\ UNCHANGED <<world, todo, made, call, wrapper, start, static, sessions,
                   bus, server, history>>

Block(t) ==
    /\ At(t, "block") /\ Go(t, "blocked")
    /\ UNCHANGED <<world, todo, made, call, wrapper, start, static, sessions,
                   bus, server, history>>

\* Mistake: the flag of the call before is still up.
SetHandlerKeepsFlag(t) ==
    /\ At(t, "enter") /\ Free(call[t].on)
    /\ owner' = [owner EXCEPT ![call[t].on] = t]
    /\ Go(t, "static")
    /\ UNCHANGED <<world, todo, made, call, flag, cell, start, static,
                   sessions, bus, server, history>>

\* setHandler, under the wrapper's mutex: for all calls of the connector.
SetHandler(t) ==
    /\ At(t, "enter") /\ Free(call[t].on)
    /\ owner' = [owner EXCEPT ![call[t].on] = t]
    /\ flag' = [flag EXCEPT ![call[t].on] = FALSE]
    /\ Go(t, "static")
    /\ UNCHANGED <<world, todo, made, call, cell, start, static, sessions,
                   bus, server, history>>

\* Mistake: CallbackLock_ is taken after LSCallOneReply.
LockStaticLate(t) ==
    /\ At(t, "static")
    /\ Go(t, "call")
    /\ UNCHANGED <<world, todo, made, call, wrapper, start, static, sessions,
                   bus, server, history>>

LockStatic(t) ==
    /\ At(t, "static") /\ static[Static(call[t])] = Nobody
    /\ static' = [static EXCEPT ![Static(call[t])] = t]
    /\ Go(t, "call")
    /\ UNCHANGED <<world, todo, made, call, wrapper, start, sessions, bus,
                   server, history>>

Sent(t) ==
    /\ At(t, "call") /\ Go(t, "note")
    /\ asked' = asked \cup {call[t]}
    /\ UNCHANGED <<world, todo, made, call, wrapper, start, static, sessions,
                   arrived, server, history>>

Refused(t) ==
    /\ At(t, "call") /\ world.refuse
    /\ Return(t, FALSE)
    /\ static' = [static EXCEPT ![Static(call[t])] = Nobody]
    /\ owner' = [owner EXCEPT ![call[t].on] = Nobody]
    /\ UNCHANGED <<world, todo, made, flag, cell, start, sessions, bus, server,
                   begun, done, missed, overlapped>>

\* tokenCallback_, which the client does not register; an asynchronous call
\* is over with it.
RememberSession(t) ==
    /\ At(t, "note")
    /\ sessions' = IF call[t].op = "query" THEN sessions
                   ELSE sessions \cup {call[t]}
    /\ static' = [static EXCEPT ![Static(call[t])] = Nobody]
    /\ IF call[t].op \in Sync
       THEN Go(t, "check") /\ UNCHANGED <<call, owner, astray>>
       ELSE /\ Return(t, TRUE)
            /\ owner' = [owner EXCEPT ![call[t].on] = Nobody]
    /\ UNCHANGED <<world, todo, made, flag, cell, start, bus, server, begun,
                   done, missed, overlapped>>

\* wait(): whoever has set the flag, the call is taken for answered.
CheckFlag(t) ==
    /\ At(t, "check") /\ flag[call[t].on]
    /\ Return(t, TRUE)
    /\ owner' = [owner EXCEPT ![call[t].on] = Nobody]
    /\ UNCHANGED <<world, todo, made, flag, cell, start, static, sessions,
                   bus, server, begun, done, missed, overlapped>>

FallAsleep(t) ==
    /\ At(t, "check") /\ ~flag[call[t].on] /\ Go(t, "sleep")
    /\ UNCHANGED <<world, todo, made, call, wrapper, start, static, sessions,
                   bus, server, history>>

Sleep(t) ==
    /\ At(t, "sleep") /\ Go(t, "asleep")
    /\ owner' = [owner EXCEPT ![call[t].on] = Nobody]
    /\ UNCHANGED <<world, todo, made, call, flag, cell, start, static,
                   sessions, bus, server, history>>

WakeUp(t) ==
    /\ At(t, "woken") /\ Free(call[t].on) /\ Go(t, "check")
    /\ owner' = [owner EXCEPT ![call[t].on] = t]
    /\ UNCHANGED <<world, todo, made, call, flag, cell, start, static,
                   sessions, bus, server, history>>

\* Mistake: the caller waits for as long as it takes.
WaitsForEver(t) == FALSE /\ UNCHANGED vars

\* CONNECTOR_WAIT_TIMEOUT, whether the answer is late or the caller missed
\* it: the mutex is taken once more ...
TimeOut(t) ==
    /\ At(t, "asleep") /\ Go(t, "late")
    /\ UNCHANGED <<world, todo, made, call, wrapper, start, static, sessions,
                   bus, server, history>>

\* ... the flag is set, and tokenCancelCallback_ leaves the session alone.
GiveUp(t) ==
    /\ At(t, "late") /\ Free(call[t].on)
    /\ flag' = [flag EXCEPT ![call[t].on] = TRUE]
    /\ Return(t, FALSE)
    /\ UNCHANGED <<world, todo, made, owner, cell, start, static, sessions,
                   bus, server, begun, done, missed, overlapped>>

(***************************************************************************)
(* search and del: without connector and locks, the token after the call.  *)
(***************************************************************************)
Search(t) ==
    /\ At(t, "search") /\ Go(t, "token")
    /\ asked' = asked \cup {call[t]}
    /\ UNCHANGED <<world, todo, made, call, wrapper, start, static, sessions,
                   arrived, server, history>>

SearchRefused(t) ==
    /\ At(t, "search") /\ world.refuse
    /\ Return(t, FALSE)
    /\ UNCHANGED <<world, todo, made, wrapper, start, static, sessions, bus,
                   server, begun, done, missed, overlapped>>

RememberSearch(t) ==
    /\ At(t, "token")
    /\ sessions' = sessions \cup {call[t]}
    /\ Return(t, TRUE)
    /\ UNCHANGED <<world, todo, made, wrapper, start, static, bus, server,
                   begun, done, missed, overlapped>>

----------------------------------------------------------------------------
(***************************************************************************)
(* The connectors' threads: _syncCallback and _Callback; and the main loop *)
(* for search and del, which it handles between its own calls.             *)
(***************************************************************************)
\* run() sets the flag and notifies one sender, without the mutex.
RunLoop(k) ==
    /\ loop[k] = "off"
    /\ loop' = [loop EXCEPT ![k] = "on"]
    /\ started' = TRUE
    /\ UNCHANGED <<world, sender, wrapper, static, sessions, bus, server,
                   history>>

Blocked(k) == {t \in Threads : At(t, "blocked") /\ call[t].on = k}

NotifyStart(k) ==
    /\ loop[k] = "on"
    /\ loop' = [loop EXCEPT ![k] = "run"]
    /\ IF Blocked(k) = {} THEN UNCHANGED pc
       ELSE \E t \in Blocked(k) : Go(t, "enter")
    /\ UNCHANGED <<world, todo, made, call, wrapper, started, static,
                   sessions, bus, server, history>>

Answer(c) ==
    /\ c \in asked
    /\ asked' = asked \ {c} /\ arrived' = arrived \cup {c}
    /\ UNCHANGED <<world, sender, wrapper, start, static, sessions, server,
                   history>>

TakeAnswer(l) ==
    /\ step[l] = "idle" /\ At(l, "idle")
    /\ l \in Connectors => loop[l] = "run"
    /\ \E c \in arrived :
         /\ LoopOf(c) = l
         /\ arrived' = arrived \ {c}
         /\ serving' = [serving EXCEPT ![l] = c]
         /\ step' = [step EXCEPT ![l] = IF l = "main" THEN "handle"
                                        ELSE "callback"]
    /\ UNCHANGED <<world, sender, wrapper, start, static, sessions, asked,
                   history>>

\* The flag is set before the handler is called.
Callback(l) ==
    /\ step[l] = "callback" /\ static[Static(serving[l])] = Nobody
    /\ static' = [static EXCEPT ![Static(serving[l])] = l]
    /\ flag' = [flag EXCEPT ![l] = TRUE]
    /\ step' = [step EXCEPT ![l] = "handle"]
    /\ begun' = begun \cup {serving[l]}
    /\ UNCHANGED <<world, sender, owner, cell, start, sessions, bus, serving,
                   done, missed, overlapped, astray>>

\* sessionDataFromToken; the client's answers need no session.
Known(c) == c \in sessions \/ c.op = "query"

\* The client's handler: whichever answer comes last is in response_.
Stored(l, c) == IF c.op = "query" THEN [cell EXCEPT ![l] = c] ELSE cell

\* Mistake: the session is copied, and stays.
HandleKeeps(l) ==
    /\ step[l] = "handle"
    /\ missed' = IF Known(serving[l]) THEN missed
                 ELSE missed \cup {serving[l]}
    /\ step' = [step EXCEPT ![l] = IF l = "main" THEN "idle" ELSE "wake"]
    /\ serving' = IF l = "main" THEN [serving EXCEPT ![l] = None] ELSE serving
    /\ done' = done \cup {serving[l]}
    /\ UNCHANGED <<world, sender, wrapper, start, static, sessions, bus,
                   begun, overlapped, astray>>

\* handleLunaResponse: an answer without session is dropped.
Handle(l) ==
    /\ step[l] = "handle"
    /\ LET c == serving[l]
       IN  /\ sessions' = sessions \ {c}
           /\ done' = IF Known(c) THEN done \cup {c} ELSE done
           /\ missed' = IF Known(c) THEN missed ELSE missed \cup {c}
           /\ cell' = Stored(l, c)
           /\ step' = [step EXCEPT ![l] =
                         IF l = "main" THEN "idle"
                         ELSE IF c.op = "inject" /\ Known(c) THEN "nested"
                         ELSE "wake"]
           /\ serving' = IF l = "main" THEN [serving EXCEPT ![l] = None]
                         ELSE serving
    /\ UNCHANGED <<world, sender, owner, flag, start, static, bus, begun,
                   overlapped, astray>>

\* injectDevice tells DeviceDb, which sends a mergePut: a call like any other,
\* made by the connector's own thread, with the static lock held.
SendNested(l) ==
    /\ step[l] = "nested" /\ At(l, "idle")
    /\ step' = [step EXCEPT ![l] = "wake"]
    /\ made' = [made EXCEPT ![l] = @ + 1]
    /\ Make(l, [by |-> l, nth |-> made[l], op |-> "put", on |-> l])
    /\ UNCHANGED <<world, todo, wrapper, start, static, sessions, bus,
                   serving, begun, done, missed, astray>>

\* wakeUp() of a synchronous call: one of the callers that are asleep, if
\* there is one by now.
Asleep(l) == {t \in Threads : At(t, "asleep") /\ call[t].on = l}

Wake(l) ==
    /\ step[l] = "wake" /\ At(l, "idle")
    /\ IF serving[l].op \notin Sync \/ Asleep(l) = {} THEN UNCHANGED pc
       ELSE \E t \in Asleep(l) : Go(t, "woken")
    /\ static' = [static EXCEPT ![Static(serving[l])] = Nobody]
    /\ step' = [step EXCEPT ![l] = "idle"]
    /\ serving' = [serving EXCEPT ![l] = None]
    /\ UNCHANGED <<world, todo, made, call, wrapper, start, sessions, bus,
                   history>>

----------------------------------------------------------------------------
SendMessage(t) ==
    \/ Begin(t) \/ Peek(t) \/ Block(t) \/ SetHandler(t) \/ LockStatic(t)
    \/ Sent(t) \/ Refused(t) \/ RememberSession(t)
    \/ CheckFlag(t) \/ FallAsleep(t) \/ Sleep(t) \/ WakeUp(t)
    \/ TimeOut(t) \/ GiveUp(t)
    \/ Search(t) \/ SearchRefused(t) \/ RememberSearch(t)
ServeAnswer(l) ==
    TakeAnswer(l) \/ Callback(l) \/ Handle(l) \/ SendNested(l) \/ Wake(l)
RunConnector(k) == RunLoop(k) \/ NotifyStart(k)

Running ==
    \/ \E t \in Threads : SendMessage(t)
    \/ \E l \in Loops : ServeAnswer(l)
    \/ \E k \in Connectors : RunConnector(k)

Next == Running \/ \E c \in asked : Answer(c)

Spec == Init /\ [][Next]_vars

\* As long as some thread can run, one does; that an answer comes at all is
\* not assumed.
FairSpec == Spec /\ WF_vars(Running)

----------------------------------------------------------------------------
\* The variables keep to their types; at most one thread owns a lock by the
\* shape of owner and static, and a loop serves only answers of its own.
TypeOK ==
    /\ world \in Worlds
    /\ todo \in [Threads -> Seq(Job)] /\ made \in [Threads -> Nat]
    /\ pc \in [Threads -> {"idle", "peek", "block", "blocked", "enter",
                           "static", "call", "note", "check", "sleep",
                           "asleep", "woken", "late", "search", "token"}]
    /\ call \in [Threads -> Call \cup {None}]
    /\ started \in BOOLEAN
    /\ loop \in [Connectors -> {"off", "on", "run"}]
    /\ owner \in [Connectors -> Threads \cup {Nobody}]
    /\ flag \in [Connectors -> BOOLEAN]
    /\ static \in [{"sync", "async"} -> Threads \cup {Nobody}]
    /\ cell \in [Connectors -> Call \cup {None}]
    /\ sessions \subseteq Call /\ asked \subseteq Call /\ arrived \subseteq Call
    /\ serving \in [Loops -> Call \cup {None}]
    /\ step \in [Loops -> {"idle", "callback", "handle", "nested", "wake"}]
    /\ begun \cup done \cup missed \cup overlapped \cup astray \subseteq Call
    /\ \A l \in Loops : step[l] # "idle" =>
           serving[l] \in Call /\ LoopOf(serving[l]) = l
    /\ \A t \in Threads : pc[t] # "idle" => call[t] \in Call

\* An answer finds the session of its call, although the token is remembered
\* only after the call has been sent: the static locks keep the connector's
\* thread away until then.  Only a search or del from a thread other than the
\* main loop's - the cleanup task - has no such protection.
AnswersFindTheirCall ==
    \A c \in missed : c.op = "search" /\ c.by # "main"

\* A synchronous call that returns true while no other call of its connector
\* is under way or unanswered has its answer: the handler has been called,
\* and a client that finds it finished reads the answer to its own call.
AloneMeansAnswered == astray \subseteq overlapped

\* No thread is inside a call, and no answer waits or is handled.
Quiet ==
    /\ \A t \in Threads : pc[t] = "idle"
    /\ arrived = {} /\ \A l \in Loops : step[l] = "idle"

\* Once all is quiet, what messageMap_ remembers is what the bus has not
\* answered yet, calls that were given up included, and searches whose answer
\* was faster than the token.
SessionsAreUnanswered == Quiet => sessions \subseteq asked \cup missed

\* The handler of a synchronous call wants to send, and the next synchronous
\* caller has taken the wrapper's mutex and waits for the handler's lock.
Crossed(k) ==
    /\ step[k] = "wake" /\ At(k, "enter") /\ static["sync"] = k
    /\ \E t \in Threads : owner[k] = t /\ At(t, "static")
                          /\ call[t].op \in Sync

\* A sender that blocked after its connector's thread had notified it.
LostStart(t) == At(t, "blocked") /\ loop[call[t].on] = "run"

\* However flags are reset, wake-ups lost and answers late, calls return and
\* answers are handled, again and again: only a handler that sends and
\* crosses the next call, and a sender that missed the start, get stuck.
CallsReturn ==
    []<>(\/ \E k \in Connectors : Crossed(k)
         \/ \E t \in Threads : LostStart(t)
         \/ Quiet)

----------------------------------------------------------------------------
(* An inductive invariant for AnswersFindTheirCall, named part by part.    *)

\* The main loop sends nothing from a handler.
MainInv == step["main"] \in {"idle", "handle"}

\* A thread makes one call at a time, and is where calls of its kind are; a
\* connector's thread that handles an answer only sends the nested put.
StepInv ==
    /\ \A t \in Threads : pc[t] # "idle" =>
           /\ call[t].by = t /\ call[t].nth < made[t]
           /\ (pc[t] \in {"search", "token"} <=> call[t].op = "search")
    /\ \A l \in Loops : step[l] # "idle" /\ pc[l] # "idle" =>
           step[l] = "wake" /\ serving[l].op = "inject" /\ call[l].op = "put"
    /\ \A l \in Loops : step[l] = "nested" => serving[l].op = "inject"

\* The static locks are held while a call is sent and noted, and while an
\* answer is handled.
LockInv ==
    /\ \A t \in Threads :
           pc[t] \in {"call", "note"} => static[Static(call[t])] = t
    /\ \A l \in Connectors :
           step[l] \in {"handle", "nested", "wake"} =>
               static[Static(serving[l])] = l

\* A call is with the bus, with its loop or with its handler, once, and not
\* before it has been sent.
Served == {serving[l] : l \in {k \in Loops : step[k] # "idle"}}
Out == asked \cup arrived \cup Served
Unsent(t) == pc[t] \in {"peek", "block", "blocked", "enter", "static",
                        "call", "search"}
OutInv ==
    /\ asked \cap arrived = {} /\ (asked \cup arrived) \cap Served = {}
    /\ \A c \in Out : c.nth < made[c.by]
    /\ \A t \in Threads : Unsent(t) => call[t] \notin Out

\* A call whose answer has not been handled yet is remembered, or its sender
\* is about to.
Remembered(c) ==
    \/ c \in sessions
    \/ pc[c.by] \in {"note", "token"} /\ call[c.by] = c
Unhandled ==
    asked \cup arrived
    \cup {serving[l] : l \in {k \in Loops : step[k] \in {"callback", "handle"}}}
SessionInv ==
    \A c \in Unhandled :
        c.op # "query" /\ (c.op = "search" => c.by = "main") => Remembered(c)

AnswerInv ==
    /\ TypeOK /\ MainInv /\ StepInv /\ LockInv /\ OutInv /\ SessionInv
    /\ AnswersFindTheirCall

(* And what it takes for SessionsAreUnanswered besides.                    *)

\* A session is of a call that has been sent, and stays until its answer is
\* handled; a call that is not noted yet has none.
Noting(t) == pc[t] \in {"note", "token"}
NotedInv ==
    /\ \A c \in sessions : c \in Unhandled \cup missed /\ c.nth < made[c.by]
    /\ \A t \in Threads : Unsent(t) \/ Noting(t) => call[t] \notin sessions
    /\ \A t \in Threads : Noting(t) => call[t] \in Unhandled \cup missed

UnansweredInv == AnswerInv /\ NotedInv

(* And for AloneMeansAnswered.                                             *)

\* Calls of one connector that are pending together have overlapped.  A call
\* that has not, and whose flag is up, has its answer, and is what response_
\* holds once it is done: whoever else sets the one or the other is pending.
Waiting(t) == pc[t] \in {"static", "call", "note", "check", "sleep", "asleep",
                         "woken", "late"}
AloneInv ==
    /\ \A k \in Connectors : \A c, d \in Pending(k) : c # d => c \in overlapped
    /\ \A c \in done : c.nth < made[c.by]
    /\ \A t \in Threads : pc[t] # "idle" /\ call[t] \notin overlapped =>
         /\ Waiting(t) /\ call[t].op \in Sync /\ flag[call[t].on]
               => call[t] \in begun
         /\ call[t].op = "query" /\ call[t] \in done
               => cell[call[t].on] = call[t]
    /\ AloneMeansAnswered

AloneAnswerInv == AnswerInv /\ AloneInv
=============================================================================
