----------------------- MODULE ServiceRequestsProofs -----------------------
(***************************************************************************)
(* A message the service keeps is replied to once, by the result of its    *)
(* query: for any clients, requests, devices and items, any order of       *)
(* results, and whatever the scans and plugins do meanwhile.               *)
(***************************************************************************)
EXTENDS ServiceRequests, TLAPS

-----------------------------------------------------------------------------
(* Requests and their numbers.                                             *)

LEMMA IdsAre ==
    /\ \A i \in Ids : /\ i \in Clients \X Nat /\ i[1] \in Clients
                      /\ i[2] \in 1 .. Len(world.jobs[i[1]])
    /\ \A c \in Clients : \A k \in 1 .. Len(world.jobs[c]) : <<c, k>> \in Ids
    /\ None \notin Ids
  <1>1. ASSUME NEW i \in Ids
        PROVE  /\ i \in Clients \X Nat /\ i[1] \in Clients
               /\ i[2] \in 1 .. Len(world.jobs[i[1]])
    <2>1. PICK c \in Clients : i \in {c} \X (1 .. Len(world.jobs[c]))
      BY DEF Ids
    <2>2. i[1] = c /\ i[2] \in 1 .. Len(world.jobs[c]) /\ i = <<i[1], i[2]>>
      BY <2>1
    <2>3. i[2] \in Nat
      BY <2>2
    <2> QED
      BY <2>2, <2>3
  <1>2. ASSUME NEW c \in Clients, NEW k \in 1 .. Len(world.jobs[c])
        PROVE  <<c, k>> \in Ids
    <2>1. <<c, k>> \in {c} \X (1 .. Len(world.jobs[c]))
      OBVIOUS
    <2> QED
      BY <2>1 DEF Ids
  <1> QED
    BY <1>1, <1>2, NamesAssumption

LEMMA SameWorld ==
    ASSUME world' = world
    PROVE  Ids' = Ids /\ \A i : Asked(i)' = Asked(i)
  BY DEF Ids, Asked

\* The jobs and the rest of them are sequences of requests.
LEMMA JobsAre ==
    ASSUME ClientsInv, NEW c \in Clients
    PROVE  /\ world.jobs[c] \in Seq(Request) /\ Len(world.jobs[c]) \in Nat
           /\ todo[c] \in Seq(Request) /\ Len(todo[c]) \in Nat
           /\ Len(todo[c]) <= Len(world.jobs[c])
           /\ \A k \in 1 .. Len(world.jobs[c]) : world.jobs[c][k] \in Request
  <1>1. world.jobs \in [Clients -> Seq(Request)]
    BY WorldsAssumption DEF ClientsInv
  <1> QED
    BY <1>1 DEF ClientsInv

\* The next call of a client is the first one not sent.
LEMMA NextCallIs ==
    ASSUME ClientsInv, NEW c \in Clients, todo[c] # <<>>
    PROVE  /\ NextCall(c) \in Unsent /\ NextCall(c) \in Ids
           /\ Asked(NextCall(c)) = Head(todo[c])
  <1> DEFINE J == world.jobs[c]
             n == Len(J) - Len(todo[c]) + 1
  <1>1. /\ J \in Seq(Request) /\ Len(J) \in Nat /\ todo[c] \in Seq(Request)
        /\ Len(todo[c]) \in Nat /\ Len(todo[c]) <= Len(J)
    BY JobsAre
  <1>2. Len(todo[c]) >= 1 /\ Head(todo[c]) = todo[c][1]
    BY <1>1
  <1>3. n \in 1 .. Len(J) /\ n > Len(J) - Len(todo[c])
    <2>1. \A a, b \in Nat : 1 <= a /\ a <= b =>
              b - a + 1 \in 1 .. b /\ b - a + 1 > b - a
      OBVIOUS
    <2> QED
      BY <1>1, <1>2, <2>1
  <1>4. NextCall(c) = <<c, n>> /\ NextCall(c)[1] = c /\ NextCall(c)[2] = n
    BY DEF NextCall
  <1>5. NextCall(c) \in Ids
    BY <1>3, <1>4, IdsAre
  <1>6. NextCall(c) \in Unsent
    <2>1. NextCall(c)[2] > Len(world.jobs[NextCall(c)[1]])
                             - Len(todo[NextCall(c)[1]])
      BY <1>3, <1>4
    <2> QED
      BY <1>5, <2>1 DEF Unsent
  <1>7. todo[c][1] = J[n]
    BY <1>1, <1>2 DEF ClientsInv
  <1>8. Asked(NextCall(c)) = J[n]
    <2>1. Asked(NextCall(c)) = world.jobs[NextCall(c)[1]][NextCall(c)[2]]
      BY DEF Asked
    <2> QED
      BY <1>4, <2>1
  <1> QED
    BY <1>2, <1>5, <1>6, <1>7, <1>8

\* A client goes on to its next job.
LEMMA TakeJob ==
    ASSUME ClientsInv, NEW c \in Clients, todo[c] # <<>>, world' = world,
           todo' = [todo EXCEPT ![c] = Tail(@)]
    PROVE  /\ todo' \in [Clients -> Seq(Request)]
           /\ \A d \in Clients :
                /\ Len(todo'[d]) <= Len(world.jobs[d])
                /\ \A k \in 1 .. Len(todo'[d]) :
                     todo'[d][k]
                       = world.jobs[d][Len(world.jobs[d]) - Len(todo'[d]) + k]
           /\ Unsent' = Unsent \ {NextCall(c)}
  <1> DEFINE J == world.jobs[c]
             T == todo[c]
  <1>1. /\ J \in Seq(Request) /\ Len(J) \in Nat /\ T \in Seq(Request)
        /\ Len(T) \in Nat /\ Len(T) <= Len(J) /\ T # <<>>
    BY JobsAre
  <1>2. /\ Tail(T) \in Seq(Request) /\ Len(T) >= 1
        /\ Len(Tail(T)) = Len(T) - 1
        /\ \A k \in 1 .. Len(T) - 1 : Tail(T)[k] = T[k + 1]
    BY <1>1
  <1>3. /\ todo'[c] = Tail(T)
        /\ \A d \in Clients : d # c => todo'[d] = todo[d]
        /\ todo' \in [Clients -> Seq(Request)]
    BY <1>2 DEF ClientsInv
  <1>4. \A k \in 1 .. Len(Tail(T)) : Tail(T)[k] = J[Len(J) - Len(Tail(T)) + k]
    <2> SUFFICES ASSUME NEW k \in 1 .. Len(T) - 1
                 PROVE  T[k + 1] = J[Len(J) - Len(Tail(T)) + k]
      BY <1>2
    <2>1. k + 1 \in 1 .. Len(T)
      BY <1>1
    <2>2. T[k + 1] = J[Len(J) - Len(T) + (k + 1)]
      BY <2>1 DEF ClientsInv
    <2>3. Len(J) - Len(T) + (k + 1) = Len(J) - Len(Tail(T)) + k
      <3> HIDE DEF J, T
      <3> QED
        BY <1>1, <1>2
    <2> QED
      BY <2>2, <2>3
  <1>5. ASSUME NEW d \in Clients
        PROVE  /\ Len(todo'[d]) <= Len(world.jobs[d])
               /\ \A k \in 1 .. Len(todo'[d]) :
                    todo'[d][k]
                      = world.jobs[d][Len(world.jobs[d]) - Len(todo'[d]) + k]
    <2>1. CASE d = c
      BY <1>1, <1>2, <1>3, <1>4, <2>1
    <2>2. CASE d # c
      BY <1>3, <2>2 DEF ClientsInv
    <2> QED
      BY <2>1, <2>2
  <1>6. Unsent' = Unsent \ {NextCall(c)}
    <2>1. Ids' = Ids
      BY SameWorld
    <2>2. ASSUME NEW i \in Ids
          PROVE  i \in Unsent' <=> i \in Unsent /\ i # NextCall(c)
      <3>1. /\ i = <<i[1], i[2]>> /\ i[1] \in Clients /\ i[2] \in Nat
        BY IdsAre
      <3>2. CASE i[1] # c
        <4>1. todo'[i[1]] = todo[i[1]] /\ i # NextCall(c)
          BY <1>3, <3>1, <3>2 DEF NextCall
        <4> QED
          BY <2>1, <4>1 DEF Unsent
      <3>3. CASE i[1] = c
        <4>1. i \in Unsent <=> i[2] > Len(J) - Len(T)
          BY <3>3 DEF Unsent
        <4>2. i \in Unsent' <=> i[2] > Len(J) - (Len(T) - 1)
          BY <1>2, <1>3, <2>1, <3>3 DEF Unsent
        <4>3. i = NextCall(c) <=> i[2] = Len(J) - Len(T) + 1
          <5>1. /\ NextCall(c) = <<c, Len(J) - Len(T) + 1>>
                /\ NextCall(c)[2] = Len(J) - Len(T) + 1
            BY DEF NextCall
          <5> QED
            BY <3>1, <3>3, <5>1
        <4> HIDE DEF J, T
        <4> QED
          BY <1>1, <3>1, <4>1, <4>2, <4>3
      <3> QED
        BY <3>2, <3>3
    <2>3. Unsent \subseteq Ids /\ Unsent' \subseteq Ids
      BY <2>1 DEF Unsent
    <2> QED
      BY <2>2, <2>3
  <1> QED
    BY <1>3, <1>5, <1>6

-----------------------------------------------------------------------------
(* Replies.                                                                *)

\* Who may be told something without being told too much.
May(i) ==
    \/ /\ replies[i] = <<>>
       /\ Asked(i).payload = "lacking" => Asked(i).op = "permission"
    \/ /\ Asked(i).payload # "lacking"
       /\ Asked(i).op \notin {"list", "meta", "delete"} \/ Asked(i).sub

\* The third part of ReferencesAreReplies.
FewReplies ==
    \A i \in Ids :
       /\ Asked(i).op \in {"list", "meta", "delete"} /\ ~Asked(i).sub
          => Len(replies[i]) <= 1
       /\ Asked(i).payload = "lacking" /\ Asked(i).op # "permission"
          => replies[i] = <<>>

LEMMA TellFew ==
    ASSUME ClientsInv, FewReplies, world' = world, NEW ids, NEW r,
           Tell(ids, r), \A i \in ids \cap Ids : May(i)
    PROVE  /\ FewReplies'
           /\ replies' = [i \in Ids |-> replies'[i]]
           /\ \A i \in Ids : i \notin ids => replies'[i] = replies[i]
  <1>1. Ids' = Ids /\ \A i : Asked(i)' = Asked(i)
    BY SameWorld
  <1>2. /\ replies' = [i \in Ids |-> replies'[i]]
        /\ \A i \in Ids : replies'[i] = IF i \in ids THEN Append(replies[i], r)
                                        ELSE replies[i]
    BY DEF Tell
  <1>3. Len(Append(<<>>, r)) <= 1
    OBVIOUS
  <1>4. ASSUME NEW i \in Ids
        PROVE  /\ Asked(i).op \in {"list", "meta", "delete"} /\ ~Asked(i).sub
                  => Len(replies'[i]) <= 1
               /\ Asked(i).payload = "lacking" /\ Asked(i).op # "permission"
                  => replies'[i] = <<>>
    <2>1. CASE i \in ids
      BY <1>2, <1>3, <2>1 DEF May, FewReplies
    <2>2. CASE i \notin ids
      BY <1>2, <2>2 DEF FewReplies
    <2> QED
      BY <2>1, <2>2
  <1> QED
    BY <1>1, <1>2, <1>4 DEF FewReplies

\* A step that handles no request and no result.
LEMMA NothingHandled ==
    ASSUME ReferencesInv,
           UNCHANGED <<world, todo, asked, replies, subs, held, queries,
                       results, refused>>,
           req' = req \/ req' \notin Ids
    PROVE  ReferencesInv'
  <1>1. Ids' = Ids /\ \A i : Asked(i)' = Asked(i)
    BY SameWorld
  <1>2. Unsent' = Unsent /\ Untouched' = Untouched /\ Out' = Out
    BY <1>1 DEF Unsent, Untouched, Out
  <1>3. ClientsInv'
    BY <1>1, <1>2 DEF ReferencesInv, ClientsInv
  <1>4. RequestsInv'
    BY <1>1, <1>2 DEF ReferencesInv, RequestsInv, Untouched, Unsent, ClientsInv
  <1>5. QueriesInv'
    BY <1>2 DEF ReferencesInv, QueriesInv
  <1>6. ReferencesAreReplies'
    BY <1>1, <1>2 DEF ReferencesInv, ReferencesAreReplies
  <1> QED
    BY <1>3, <1>4, <1>5, <1>6 DEF ReferencesInv

\* A step that replies to the main loop's request, if there is one, and has
\* no other after it.
LEMMA ReplyToRequest ==
    ASSUME ReferencesInv, NEW r, Tell({req}, r), req' \in {req, None},
           UNCHANGED <<world, todo, asked, subs, held, queries, results,
                       refused>>
    PROVE  ReferencesInv'
  <1>1. Ids' = Ids /\ \A i : Asked(i)' = Asked(i)
    BY SameWorld
  <1>2. Unsent' = Unsent /\ Untouched' = Untouched /\ Out' = Out
    BY <1>1 DEF Unsent, Untouched, Out
  <1>3. FewReplies /\ ClientsInv /\ RequestsInv /\ None \notin Ids
    BY IdsAre DEF ReferencesInv, ReferencesAreReplies, FewReplies
  <1>4. req \in Ids => May(req)
    BY <1>3 DEF RequestsInv, May
  <1>5. /\ FewReplies' /\ replies' = [i \in Ids |-> replies'[i]]
        /\ \A i \in Ids : i # req => replies'[i] = replies[i]
    BY <1>3, <1>4, TellFew
  <1>6. Untouched \subseteq Ids /\ held \subseteq Ids
    BY <1>3 DEF ClientsInv, RequestsInv, Untouched, Unsent
  <1>7. \A i \in Untouched \cup held : i # req /\ replies'[i] = replies[i]
    BY <1>3, <1>5, <1>6 DEF RequestsInv
  <1>8. ClientsInv'
    BY <1>1, <1>2, <1>3, <1>5 DEF ClientsInv
  <1>9. RequestsInv'
    BY <1>1, <1>2, <1>3, <1>6, <1>7 DEF RequestsInv
  <1>10. QueriesInv'
    BY <1>2 DEF ReferencesInv, QueriesInv
  <1>11. ReferencesAreReplies'
    BY <1>1, <1>2, <1>5, <1>7 DEF ReferencesInv, ReferencesAreReplies, FewReplies
  <1> QED
    BY <1>8, <1>9, <1>10, <1>11 DEF ReferencesInv

-----------------------------------------------------------------------------
(* Requests.                                                               *)

Fields(q) ==
    [op |-> q.op, for |-> q.for, obj |-> q.obj, kind |-> q.kind,
     uri |-> q.uri, limit |-> q.limit, after |-> q.after]

\* Request i is taken, and the rest of the requests left.
Takes(i) == i \in asked /\ asked' = asked \ {i} /\ UNCHANGED <<world, todo>>

\* It is told something at once, or nothing yet; nobody else is.
Answers(i) == \E r : Tell({i}, r)
Tells(i) == \/ replies' = replies
            \/ May(i) /\ i \notin held' /\ Answers(i)

Subscribes(i) ==
    \/ subs' = subs
    \/ /\ subs' = subs \cup {i}
       /\ Asked(i).sub /\ Asked(i).payload = "ok"
       /\ Asked(i).op \in {"list", "delete", "devices"}

\* Its message is kept, or it becomes the request of the main loop.
Keeps(i) ==
    \/ held' = held /\ req' = req
    \/ /\ held' = held \cup {i} /\ req' = req /\ subs' = subs
       /\ Asked(i).payload = "ok"
       /\ Asked(i).op = "meta" \/ ~Asked(i).sub
    \/ /\ req' = i /\ held' = held
       /\ Asked(i).payload = "ok"
       /\ Asked(i).op \in {"permission", "devices", "scan"}

\* Its query is sent, or refused by the bus.
Queries(i) ==
    /\ results' = results /\ refused \subseteq refused'
    /\ \/ queries' = queries
       \/ \E q \in queries' : /\ queries' = queries \cup {q}
                              /\ q = Fields(q) /\ q.obj \in {None, i}
                              /\ q.op \notin {"clean", "remove"}
    /\ i \in held' => i \in refused' \/ \E q \in queries' : q.obj = i
    /\ \A q \in queries' : q.obj = i => i \in held'

Handles(i) ==
    Takes(i) /\ Tells(i) /\ Subscribes(i) /\ Keeps(i) /\ Queries(i)

\* Nothing refers to a request that was not handled yet.
LEMMA NotHandled ==
    ASSUME ReferencesInv, NEW i \in asked
    PROVE  /\ i \in Ids /\ i \in Untouched /\ i \notin Unsent
           /\ replies[i] = <<>> /\ i \notin held /\ i \notin subs /\ i # req
           /\ \A q \in Out : q.obj # i
  <1>1. /\ i \in Ids /\ i \in Untouched /\ i \notin Unsent /\ None \notin Ids
    BY IdsAre DEF ReferencesInv, ClientsInv, Untouched
  <1>2. replies[i] = <<>> /\ i \notin held /\ i \notin subs /\ i # req
    BY <1>1 DEF ReferencesInv, RequestsInv
  <1>3. \A q \in Out : q.obj # i
    BY <1>1, <1>2 DEF ReferencesInv, ReferencesAreReplies
  <1> QED
    BY <1>1, <1>2, <1>3

LEMMA HandlesKeeps ==
    ASSUME ReferencesInv, NEW i, Handles(i)
    PROVE  ReferencesInv'
  <1>0. /\ ClientsInv /\ RequestsInv /\ QueriesInv /\ ReferencesAreReplies
        /\ FewReplies /\ world' = world /\ todo' = todo
        /\ i \in asked /\ asked' = asked \ {i}
    BY DEF ReferencesInv, ReferencesAreReplies, FewReplies, Handles, Takes
  <1>1. Ids' = Ids /\ \A j : Asked(j)' = Asked(j)
    BY <1>0, SameWorld
  <1>2. Unsent' = Unsent
    BY <1>0, <1>1 DEF Unsent
  <1>3. Untouched \subseteq Ids /\ held \subseteq Ids /\ None \notin Ids
    BY <1>0, IdsAre DEF ClientsInv, RequestsInv, Untouched, Unsent
  <1>4. /\ i \in Ids /\ i \in Untouched /\ i \notin Unsent
        /\ replies[i] = <<>> /\ i \notin held /\ i \notin subs /\ i # req
        /\ \A q \in Out : q.obj # i
    BY <1>0, NotHandled
  <1>5. Untouched' = Untouched \ {i}
    BY <1>0, <1>2, <1>4 DEF Untouched
  <1>6. /\ FewReplies' /\ replies' = [j \in Ids |-> replies'[j]]
        /\ \A j \in Ids : j # i \/ i \in held' => replies'[j] = replies[j]
    <2>1. CASE replies' = replies
      BY <1>0, <1>1, <2>1 DEF FewReplies, ClientsInv
    <2>2. CASE May(i) /\ i \notin held' /\ Answers(i)
      <3>1. PICK r : Tell({i}, r)
        BY <2>2 DEF Answers
      <3> QED
        BY <1>0, <2>2, <3>1, TellFew
    <2> QED
      BY <2>1, <2>2 DEF Handles, Tells
  <1>7. /\ subs' \subseteq subs \cup {i} /\ held \subseteq held'
        /\ held' \subseteq held \cup {i} /\ req' \in {req, i}
        /\ i \in held' => subs' = subs /\ req' = req
        /\ refused \subseteq refused'
    BY <1>4 DEF Handles, Subscribes, Keeps, Queries
  <1>8. ClientsInv'
    BY <1>0, <1>1, <1>2, <1>6 DEF ClientsInv
  <1>9. RequestsInv'
    <2>1. ASSUME NEW j \in Untouched'
          PROVE  replies'[j] = <<>> /\ j \notin held' /\ j \notin subs' /\ j # req'
      <3>1. j \in Untouched /\ j # i
        BY <1>5, <2>1
      <3> QED
        BY <1>0, <1>3, <1>6, <1>7, <3>1 DEF RequestsInv
    <2>2. ASSUME NEW j \in subs'
          PROVE  /\ j \in Ids /\ Asked(j).sub /\ Asked(j).payload = "ok"
                 /\ Asked(j).op \in {"list", "delete", "devices"}
      BY <1>0, <1>4, <2>2 DEF RequestsInv, Handles, Subscribes
    <2>3. ASSUME NEW j \in held'
          PROVE  /\ j \in Ids /\ Asked(j).payload = "ok"
                 /\ Asked(j).op = "meta" \/ ~Asked(j).sub
      BY <1>0, <1>4, <2>3 DEF RequestsInv, Handles, Keeps
    <2>4. req' \in Ids => /\ Asked(req').payload = "ok"
                          /\ Asked(req').op \in {"permission", "devices", "scan"}
                          /\ req' \notin held'
      BY <1>0, <1>4 DEF RequestsInv, Handles, Keeps
    <2> QED
      BY <1>1, <2>1, <2>2, <2>3, <2>4 DEF RequestsInv
  <1>10. /\ QueriesInv' /\ Out \subseteq Out'
         /\ \A q \in Out' : q.obj \in held' \cup {None}
    <2>1. \A q \in Out : q.obj \in held' \cup {None}
      BY <1>0, <1>7 DEF ReferencesAreReplies
    <2>2. results' = results
      BY DEF Handles, Queries
    <2>3. CASE queries' = queries
      BY <1>0, <2>1, <2>2, <2>3 DEF QueriesInv, Out
    <2>4. CASE queries' # queries
      <3>1. PICK q \in queries' : /\ queries' = queries \cup {q}
                                  /\ q = Fields(q) /\ q.obj \in {None, i}
                                  /\ q.op \notin {"clean", "remove"}
        BY <2>4 DEF Handles, Queries
      <3>2. Out' = Out \cup {q}
        BY <2>2, <3>1 DEF Out
      <3>3. q.obj \in held' \cup {None}
        BY <3>1 DEF Handles, Queries
      <3>4. /\ \A p \in queries : p.obj # i
            /\ \A m \in results : m.q.obj # i
        BY <1>4 DEF Out
      <3>5. \A p \in Out' : p = Fields(p)
                            /\ (p.op \in {"clean", "remove"} => p.obj = None)
        BY <1>0, <3>1, <3>2 DEF QueriesInv, Fields
      <3>6. \A p, r \in queries' : p.obj = r.obj /\ r.obj # None => p = r
        BY <1>0, <3>1, <3>4 DEF QueriesInv
      <3>7. \A p \in queries', m \in results : p.obj = m.q.obj => p.obj = None
        BY <1>0, <3>1, <3>4 DEF QueriesInv
      <3>8. QueriesInv'
        BY <1>0, <2>2, <3>5, <3>6, <3>7 DEF QueriesInv, Fields
      <3> QED
        BY <2>1, <3>2, <3>3, <3>8
    <2> QED
      BY <2>3, <2>4
  <1>11. ReferencesAreReplies'
    <2>1. ASSUME NEW j \in held'
          PROVE  replies'[j] = <<>> /\ (j \in refused' \/ \E q \in Out' : q.obj = j)
      <3>1. CASE j = i
        BY <1>4, <1>6, <2>1, <3>1 DEF Handles, Queries, Out
      <3>2. CASE j # i
        <4>1. j \in held
          BY <1>7, <2>1, <3>2
        <4> QED
          BY <1>0, <1>3, <1>6, <1>7, <1>10, <3>2, <4>1 DEF ReferencesAreReplies
      <3> QED
        BY <3>1, <3>2
    <2> QED
      BY <1>1, <1>6, <1>10, <2>1 DEF ReferencesAreReplies, FewReplies
  <1> QED
    BY <1>8, <1>9, <1>10, <1>11 DEF ReferencesInv

\* A handler that asks the database nothing and keeps no message.
LEMMA AsksNothing ==
    ASSUME ReferencesInv, NEW i \in asked, held' = held, queries' = queries,
           results' = results, refused \subseteq refused'
    PROVE  Queries(i) /\ i \notin held'
  BY NotHandled DEF Queries, Out

\* A handler that sends a query, or tries to, and keeps the message if the
\* query names it.
LEMMA AsksOnce ==
    ASSUME ReferencesInv, NEW i \in asked, NEW q, NEW taken, results' = results,
           Ask(q, i, taken), q = Fields(q), q.op \notin {"clean", "remove"},
           \/ q.obj = None /\ held' = held
           \/ q.obj = i /\ held' = held \cup {i}
    PROVE  Queries(i)
  <1>1. i \notin held /\ i # None /\ \A p \in queries : p.obj # i
    BY NotHandled, IdsAre DEF Out
  <1>2. CASE taken
    <2>1. queries' = queries \cup {q} /\ refused' = refused
      BY <1>2 DEF Ask
    <2> QED
      BY <1>1, <2>1 DEF Queries
  <1>3. CASE ~taken
    <2>1. queries' = queries /\ refused' = refused \cup {i}
      BY <1>3 DEF Ask
    <2> QED
      BY <1>1, <2>1 DEF Queries
  <1> QED
    BY <1>2, <1>3

LEMMA AskForHandles ==
    ASSUME ReferencesInv, NEW i, NEW op \in {"list", "delete"}, NEW kind,
           AskFor(i, op, kind)
    PROVE  Handles(i)
  <1>1. /\ i \in asked /\ Takes(i) /\ results' = results /\ req' = req
        /\ Asked(i).op = op /\ Asked(i).payload = "ok"
    BY DEF AskFor, Serve, Fine, Takes, handler
  <1>2. i \notin held /\ replies[i] = <<>>
    BY <1>1, NotHandled
  <1>3. /\ Query(i) = Fields(Query(i)) /\ Query(i).op = op
        /\ Query(i).obj = IF Asked(i).sub THEN None ELSE i
    BY <1>1 DEF Query, Fields
  <1>4. PICK taken \in Taken : Ask(Query(i), i, taken)
    BY DEF AskFor
  <1>5. CASE Asked(i).sub
    <2>1. subs' = subs \cup {i} /\ held' = held /\ Answers(i)
      BY <1>5 DEF AskFor, Answers
    <2>2. Queries(i)
      BY <1>1, <1>3, <1>4, <1>5, <2>1, AsksOnce
    <2>3. Tells(i)
      BY <1>1, <1>2, <1>5, <2>1 DEF Tells, May
    <2>4. Subscribes(i) /\ Keeps(i)
      BY <1>1, <1>5, <2>1 DEF Subscribes, Keeps
    <2> QED
      BY <1>1, <2>2, <2>3, <2>4 DEF Handles
  <1>6. CASE ~Asked(i).sub
    <2>1. held' = held \cup {i} /\ subs' = subs /\ replies' = replies
      BY <1>6 DEF AskFor
    <2>2. Queries(i)
      BY <1>1, <1>3, <1>4, <1>6, <2>1, AsksOnce
    <2>3. Tells(i) /\ Subscribes(i) /\ Keeps(i)
      BY <1>1, <1>6, <2>1 DEF Tells, Subscribes, Keeps
    <2> QED
      BY <1>1, <2>2, <2>3 DEF Handles
  <1> QED
    BY <1>5, <1>6

LEMMA AskForMetaHandles ==
    ASSUME ReferencesInv, NEW i, NEW kind, AskForMeta(i, kind)
    PROVE  Handles(i)
  <1> DEFINE Q == [Query(i) EXCEPT !.obj = i]
  <1>1. /\ i \in asked /\ Takes(i) /\ results' = results /\ req' = req
        /\ subs' = subs /\ held' = held \cup {i} /\ replies' = replies
        /\ Asked(i).op = "meta" /\ Asked(i).payload = "ok"
    BY DEF AskForMeta, Serve, Fine, Takes, handler, told
  <1>2. Q = Fields(Q) /\ Q.op = "meta" /\ Q.obj = i
    BY <1>1 DEF Query, Fields
  <1>3. PICK taken \in Taken : Ask(Q, i, taken)
    BY DEF AskForMeta
  <1> HIDE DEF Q
  <1>4. Queries(i)
    BY <1>1, <1>2, <1>3, AsksOnce
  <1>5. Tells(i) /\ Subscribes(i) /\ Keeps(i)
    BY <1>1 DEF Tells, Subscribes, Keeps
  <1> QED
    BY <1>1, <1>4, <1>5 DEF Handles

\* Every handler of a request does no more than Handles says.
LEMMA RequestHandles ==
    ASSUME ReferencesInv, NEW i \in asked, HandleRequest(i)
    PROVE  Handles(i)
  <1> USE DEF told, service, handler, bus, history
  <1>0. replies[i] = <<>>
    BY NotHandled
  <1>1. CASE Reject(i)
    <2>1. /\ Takes(i) /\ subs' = subs /\ held' = held /\ req' = req
          /\ queries' = queries /\ results' = results /\ refused' = refused
      BY <1>1 DEF Reject, Serve, Takes
    <2>2. Queries(i) /\ i \notin held'
      BY <2>1, AsksNothing
    <2>3. replies' = replies \/ (May(i) /\ Answers(i))
      BY <1>0, <1>1 DEF Reject, May, Answers
    <2>4. Tells(i) /\ Subscribes(i) /\ Keeps(i)
      BY <2>1, <2>2, <2>3 DEF Tells, Subscribes, Keeps
    <2> QED
      BY <2>1, <2>2, <2>4 DEF Handles
  <1>2. CASE OnPluginListGet(i)
    <2>1. /\ Takes(i) /\ subs' = subs /\ held' = held /\ req' = req
          /\ queries' = queries /\ results' = results /\ refused' = refused
      BY <1>2 DEF OnPluginListGet, Serve, Takes
    <2>2. Queries(i) /\ i \notin held'
      BY <2>1, AsksNothing
    <2>3. May(i) /\ Answers(i)
      BY <1>0, <1>2 DEF OnPluginListGet, Fine, May, Answers
    <2>4. Tells(i) /\ Subscribes(i) /\ Keeps(i)
      BY <2>1, <2>2, <2>3 DEF Tells, Subscribes, Keeps
    <2> QED
      BY <2>1, <2>2, <2>4 DEF Handles
  <1>3. CASE \/ OnAudioListGet(i) \/ OnVideoListGet(i) \/ OnImageListGet(i)
             \/ OnRequestDelete(i)
    BY <1>3, AskForHandles
    DEF OnAudioListGet, OnVideoListGet, OnImageListGet, OnRequestDelete
  <1>4. CASE \/ OnAudioMetadataGet(i) \/ OnVideoMetadataGet(i)
             \/ OnImageMetadataGet(i)
    BY <1>4, AskForMetaHandles
    DEF OnAudioMetadataGet, OnVideoMetadataGet, OnImageMetadataGet
  <1>5. CASE OnMediaDbPermissionGet(i) \/ OnDeviceListGet(i)
             \/ OnRequestMediaScan(i)
    <2>1. /\ Takes(i) /\ held' = held /\ req' = i /\ replies' = replies
          /\ queries' = queries /\ results' = results
          /\ Asked(i).payload = "ok"
          /\ Asked(i).op \in {"permission", "devices", "scan"}
      BY <1>5 DEF OnMediaDbPermissionGet, OnDeviceListGet, OnRequestMediaScan,
                  Serve, Fine, Takes
    <2>2. refused \subseteq refused'
      BY <1>5 DEF OnMediaDbPermissionGet, OnDeviceListGet, OnRequestMediaScan,
                  GrantAccessAll
    <2>3. Subscribes(i)
      BY <1>5 DEF OnMediaDbPermissionGet, OnDeviceListGet, OnRequestMediaScan,
                  Serve, Fine, Subscribes
    <2>4. Queries(i)
      BY <2>1, <2>2, AsksNothing
    <2>5. Tells(i) /\ Keeps(i)
      BY <2>1 DEF Tells, Keeps
    <2> QED
      BY <2>1, <2>3, <2>4, <2>5 DEF Handles
  <1> QED
    BY <1>1, <1>2, <1>3, <1>4, <1>5 DEF HandleRequest

-----------------------------------------------------------------------------
(* The database and the results of queries.                                *)

\* An answer moves a query to the results.
LEMMA AnswerKeeps ==
    ASSUME ReferencesInv, NEW q \in queries, Answer(q)
    PROVE  ReferencesInv'
  <1>1. PICK m : m.q = q /\ results' = results \cup {m}
    <2>1. PICK ok, found, more :
             results' = results \cup
                 {[q |-> q, ok |-> ok, page |-> found, more |-> more]}
      BY DEF Answer
    <2> QED
      BY <2>1
  <1>2. /\ queries' = queries \ {q}
        /\ UNCHANGED <<world, todo, asked, replies, subs, held, req, refused>>
    BY DEF Answer, client, told, service, handler, history
  <1>3. Out' = Out
    BY <1>1, <1>2 DEF Out
  <1>4. Ids' = Ids /\ \A i : Asked(i)' = Asked(i)
    BY <1>2, SameWorld
  <1>5. Unsent' = Unsent /\ Untouched' = Untouched
    BY <1>2, <1>4 DEF Unsent, Untouched
  <1>6. ClientsInv'
    BY <1>2, <1>4, <1>5 DEF ReferencesInv, ClientsInv
  <1>7. RequestsInv'
    BY <1>2, <1>4, <1>5 DEF ReferencesInv, RequestsInv
  <1>8. QueriesInv'
    <2>1. \A p \in Out' : p = Fields(p)
                          /\ (p.op \in {"clean", "remove"} => p.obj = None)
      BY <1>3 DEF ReferencesInv, QueriesInv, Fields
    <2>2. \A p, r \in queries' : p.obj = r.obj /\ r.obj # None => p = r
      BY <1>2 DEF ReferencesInv, QueriesInv
    <2>3. \A n, k \in results' : n.q.obj = k.q.obj /\ k.q.obj # None => n = k
      BY <1>1 DEF ReferencesInv, QueriesInv
    <2>4. \A p \in queries', n \in results' : p.obj = n.q.obj => p.obj = None
      BY <1>1, <1>2 DEF ReferencesInv, QueriesInv
    <2> QED
      BY <2>1, <2>2, <2>3, <2>4 DEF QueriesInv, Fields
  <1>9. ReferencesAreReplies'
    BY <1>2, <1>3, <1>4 DEF ReferencesInv, ReferencesAreReplies
  <1> QED
    BY <1>6, <1>7, <1>8, <1>9 DEF ReferencesInv

\* More queries for no message.
Anonymous(Q) == \A q \in Q : q = Fields(q) /\ q.obj = None

LEMMA CleanKeeps ==
    ASSUME ReferencesInv, NEW Q, Anonymous(Q), queries' = queries \cup Q,
           UNCHANGED <<world, todo, asked, replies, subs, held, req, results,
                       refused>>
    PROVE  ReferencesInv'
  <1>1. Ids' = Ids /\ \A i : Asked(i)' = Asked(i)
    BY SameWorld
  <1>2. Unsent' = Unsent /\ Untouched' = Untouched
    BY <1>1 DEF Unsent, Untouched
  <1>3. Out' = Out \cup Q
    BY DEF Out
  <1>4. ClientsInv' /\ RequestsInv'
    BY <1>1, <1>2 DEF ReferencesInv, ClientsInv, RequestsInv
  <1>5. QueriesInv'
    <2>1. \A p \in Out' : p = Fields(p)
                          /\ (p.op \in {"clean", "remove"} => p.obj = None)
      BY <1>3 DEF ReferencesInv, QueriesInv, Fields, Anonymous
    <2> QED
      BY <2>1 DEF ReferencesInv, QueriesInv, Fields, Anonymous
  <1>6. ReferencesAreReplies'
    BY <1>1, <1>3 DEF ReferencesInv, ReferencesAreReplies, Anonymous
  <1> QED
    BY <1>4, <1>5, <1>6 DEF ReferencesInv

\* A result leaves; whoever is told of it is not kept any longer, and the
\* queries that follow from it are for no message.
LEMMA ResultKeeps ==
    ASSUME ReferencesInv, NEW m \in results, HandleResult(m)
    PROVE  ReferencesInv'
  <1>0. /\ ClientsInv /\ RequestsInv /\ QueriesInv /\ ReferencesAreReplies
        /\ FewReplies /\ None \notin Ids /\ m.q \in Out
    BY IdsAre DEF ReferencesInv, ReferencesAreReplies, FewReplies, Out
  <1>1. /\ UNCHANGED <<world, todo, asked, subs, req>>
        /\ results' = results \ {m}
    BY DEF HandleResult, client, handler
  <1>2. Ids' = Ids /\ \A i : Asked(i)' = Asked(i)
    BY <1>1, SameWorld
  <1>3. Unsent' = Unsent /\ Untouched' = Untouched /\ Untouched \subseteq Ids
        /\ held \subseteq Ids
    BY <1>0, <1>1, <1>2 DEF Unsent, Untouched, ClientsInv, RequestsInv
  <1>4. refused \subseteq refused'
    BY DEF HandleResult, HandleList, HandleMetaData, HandleDelete, HandleClean,
           HandleRemove, Ask
  <1>5. PICK Q : Anonymous(Q) /\ queries' = queries \cup Q
    <2>1. m.q = Fields(m.q) /\ (m.q.op \in {"clean", "remove"} => m.q.obj = None)
      BY <1>0 DEF QueriesInv, Fields
    <2>2. CASE HandleList(m)
      <3>1. CASE queries' = queries
        <4>1. queries' = queries \cup {}
          BY <3>1
        <4> QED
          BY <4>1 DEF Anonymous
      <3>2. CASE queries' # queries
        <4> DEFINE q == [m.q EXCEPT !.after = LastPosition(m)]
        <4>1. m.q.obj = None /\ queries' = queries \cup {q}
          BY <2>2, <3>2 DEF HandleList, Ask
        <4>2. q = Fields(q) /\ q.obj = None
          BY <2>1, <4>1 DEF Fields
        <4> HIDE DEF q
        <4> QED
          BY <4>1, <4>2 DEF Anonymous
      <3> QED
        BY <3>1, <3>2
    <2>3. CASE HandleMetaData(m) \/ HandleDelete(m) \/ HandleRemove(m)
      <3>1. queries' = queries \cup {}
        BY <2>3 DEF HandleMetaData, HandleDelete, HandleRemove
      <3> QED
        BY <3>1 DEF Anonymous
    <2>4. CASE HandleClean(m)
      <3> DEFINE q(r) == [m.q EXCEPT !.op = "remove", !.uri = {r}]
      <3>1. PICK R : queries' = queries \cup {q(r) : r \in R}
        BY <2>4 DEF HandleClean
      <3>2. ASSUME NEW r PROVE q(r) = Fields(q(r)) /\ q(r).obj = None
        <4>1. m.q.obj = None
          BY <2>1, <2>4 DEF HandleClean
        <4>2. q(r) = [op |-> "remove", for |-> m.q.for, obj |-> m.q.obj,
                      kind |-> m.q.kind, uri |-> {r}, limit |-> m.q.limit,
                      after |-> m.q.after]
          <5> DEFINE p == [op |-> "remove", for |-> m.q.for, obj |-> m.q.obj,
                           kind |-> m.q.kind, uri |-> m.q.uri,
                           limit |-> m.q.limit, after |-> m.q.after]
          <5>1. [m.q EXCEPT !.op = "remove"] = p
            BY <2>1 DEF Fields
          <5>2. q(r) = [[m.q EXCEPT !.op = "remove"] EXCEPT !.uri = {r}]
            OBVIOUS
          <5>3. q(r) = [p EXCEPT !.uri = {r}]
            BY <5>1, <5>2, Zenon
          <5> QED
            BY <5>3
        <4> HIDE DEF q
        <4> QED
          BY <4>1, <4>2 DEF Fields
      <3> HIDE DEF q
      <3> QED
        BY <3>1, <3>2 DEF Anonymous
    <2> QED
      BY <2>2, <2>3, <2>4 DEF HandleResult
  <1>6. /\ held' = held \ {m.q.obj}
        /\ \/ replies' = replies /\ m.q.obj = None
           \/ \E r : Tell(IF m.q.obj = None THEN SubscribersOf(m.q)
                          ELSE {m.q.obj}, r)
    <2>1. CASE HandleList(m) \/ HandleMetaData(m) \/ HandleDelete(m)
      BY <2>1 DEF HandleList, HandleMetaData, HandleDelete, Notify
    <2>2. CASE HandleClean(m) \/ HandleRemove(m)
      <3>1. m.q.obj = None
        BY <1>0, <2>2 DEF HandleClean, HandleRemove, QueriesInv
      <3>2. replies' = replies /\ held' = held /\ None \notin held
        BY <1>0, <1>3, <2>2 DEF HandleClean, HandleRemove
      <3> QED
        BY <3>1, <3>2
    <2> QED
      BY <2>1, <2>2 DEF HandleResult
  <1>7. /\ FewReplies' /\ replies' = [i \in Ids |-> replies'[i]]
        /\ \A i \in held' \cup Untouched : replies'[i] = replies[i]
    <2>1. CASE replies' = replies
      BY <1>0, <1>2, <2>1 DEF FewReplies, ClientsInv
    <2>2. CASE m.q.obj = None /\ \E r : Tell(SubscribersOf(m.q), r)
      <3>1. SubscribersOf(m.q) \subseteq subs
        BY DEF SubscribersOf
      <3>2. \A i \in subs : /\ May(i) /\ i \notin Untouched
                            /\ i \notin held
        BY <1>0 DEF RequestsInv, May
      <3>3. PICK r : Tell(SubscribersOf(m.q), r)
        BY <2>2
      <3> QED
        BY <1>0, <1>1, <1>3, <1>6, <3>1, <3>2, <3>3, TellFew
    <2>3. CASE m.q.obj # None /\ \E r : Tell({m.q.obj}, r)
      <3>1. m.q.obj \in held
        BY <1>0, <2>3 DEF ReferencesAreReplies
      <3>2. May(m.q.obj) /\ m.q.obj \notin Untouched /\ m.q.obj \notin held'
        BY <1>0, <1>6, <3>1 DEF ReferencesAreReplies, RequestsInv, May
      <3>3. PICK r : Tell({m.q.obj}, r)
        BY <2>3
      <3> QED
        BY <1>0, <1>1, <1>3, <1>6, <3>2, <3>3, TellFew
    <2> QED
      BY <1>6, <2>1, <2>2, <2>3
  <1>8. ClientsInv'
    BY <1>0, <1>1, <1>2, <1>3, <1>7 DEF ClientsInv
  <1>9. RequestsInv'
    BY <1>0, <1>1, <1>2, <1>3, <1>6, <1>7 DEF RequestsInv
  <1>10. Out' \subseteq Out \cup Q
    BY <1>1, <1>5 DEF Out
  <1>11. QueriesInv'
    <2>1. \A p \in Out' : p = Fields(p)
                          /\ (p.op \in {"clean", "remove"} => p.obj = None)
      BY <1>0, <1>5, <1>10 DEF QueriesInv, Fields, Anonymous
    <2> QED
      BY <1>0, <1>1, <1>5, <2>1 DEF QueriesInv, Fields, Anonymous
  <1>12. ReferencesAreReplies'
    <2>1. ASSUME NEW i \in held'
          PROVE  replies'[i] = <<>> /\ (i \in refused' \/ \E q \in Out' : q.obj = i)
      <3>1. i \in held /\ i # m.q.obj
        BY <1>6, <2>1
      <3>2. i \in refused \/ \E q \in Out : q.obj = i
        BY <1>0, <3>1 DEF ReferencesAreReplies
      <3>3. \A q \in Out : q.obj = i => q \in Out'
        BY <1>1, <1>5, <3>1 DEF Out
      <3> QED
        BY <1>0, <1>4, <1>7, <2>1, <3>1, <3>2, <3>3 DEF ReferencesAreReplies
    <2>2. ASSUME NEW q \in Out', q.obj # None PROVE q.obj \in held'
      <3>1. q \in Out /\ q.obj \in held
        BY <1>0, <1>5, <1>10, <2>2 DEF ReferencesAreReplies, Anonymous
      <3>2. q \in queries \/ \E n \in results \ {m} : n.q = q
        BY <1>1, <1>5, <2>2 DEF Out, Anonymous
      <3>3. q.obj # m.q.obj
        BY <1>0, <2>2, <3>2 DEF QueriesInv
      <3> QED
        BY <1>6, <3>1, <3>3
    <2> QED
      BY <1>2, <1>7, <2>1, <2>2 DEF ReferencesAreReplies, FewReplies
  <1> QED
    BY <1>8, <1>9, <1>11, <1>12 DEF ReferencesInv

-----------------------------------------------------------------------------
(* The clients.                                                            *)

\* A request is sent: it is still one that nobody has handled.
LEMMA SendKeeps ==
    ASSUME ReferencesInv, NEW c \in Clients, Send(c)
    PROVE  ReferencesInv'
  <1> DEFINE i == NextCall(c)
  <1>0. /\ todo[c] # <<>> /\ todo' = [todo EXCEPT ![c] = Tail(@)]
        /\ asked' = asked \cup {i} /\ world' = world
        /\ UNCHANGED <<replies, subs, held, req, queries, results, refused>>
    BY DEF Send, told, service, handler, bus, history
  <1>1. Ids' = Ids /\ \A j : Asked(j)' = Asked(j)
    BY <1>0, SameWorld
  <1>2. i \in Unsent /\ i \in Ids
    BY <1>0, NextCallIs DEF ReferencesInv
  <1>3. /\ todo' \in [Clients -> Seq(Request)] /\ Unsent' = Unsent \ {i}
        /\ \A d \in Clients :
             /\ Len(todo'[d]) <= Len(world.jobs[d])
             /\ \A k \in 1 .. Len(todo'[d]) :
                  todo'[d][k]
                    = world.jobs[d][Len(world.jobs[d]) - Len(todo'[d]) + k]
    BY <1>0, TakeJob DEF ReferencesInv
  <1> HIDE DEF i
  <1>4. Untouched' = Untouched
    BY <1>0, <1>2, <1>3 DEF Untouched
  <1>5. ClientsInv'
    BY <1>0, <1>1, <1>2, <1>3 DEF ReferencesInv, ClientsInv
  <1>6. RequestsInv'
    BY <1>0, <1>1, <1>4 DEF ReferencesInv, RequestsInv
  <1>7. Out' = Out
    BY <1>0 DEF Out
  <1>8. QueriesInv'
    BY <1>0, <1>7 DEF ReferencesInv, QueriesInv
  <1>9. ReferencesAreReplies'
    BY <1>0, <1>1, <1>7 DEF ReferencesInv, ReferencesAreReplies
  <1> QED
    BY <1>5, <1>6, <1>8, <1>9 DEF ReferencesInv

\* A call of the library is answered without the service.
LEMMA CallDirectlyKeeps ==
    ASSUME ReferencesInv, NEW c \in Clients, CallDirectly(c)
    PROVE  ReferencesInv'
  <1> DEFINE i == NextCall(c)
  <1>0. /\ todo[c] # <<>> /\ todo' = [todo EXCEPT ![c] = Tail(@)]
        /\ Head(todo[c]).lib /\ world' = world
        /\ UNCHANGED <<asked, subs, held, req, queries, results, refused>>
    BY DEF CallDirectly, service, handler, bus, history
  <1>00. PICK r : Tell({i}, r)
    BY DEF CallDirectly
  <1>1. Ids' = Ids /\ \A j : Asked(j)' = Asked(j)
    BY <1>0, SameWorld
  <1>2. i \in Unsent /\ i \in Ids /\ Asked(i) = Head(todo[c])
    BY <1>0, NextCallIs DEF ReferencesInv
  <1>3. /\ todo' \in [Clients -> Seq(Request)] /\ Unsent' = Unsent \ {i}
        /\ \A d \in Clients :
             /\ Len(todo'[d]) <= Len(world.jobs[d])
             /\ \A k \in 1 .. Len(todo'[d]) :
                  todo'[d][k]
                    = world.jobs[d][Len(world.jobs[d]) - Len(todo'[d]) + k]
    BY <1>0, TakeJob DEF ReferencesInv
  <1>4. Asked(i).payload = "ok"
    <2>1. /\ i[1] \in Clients /\ i[2] \in 1 .. Len(world.jobs[i[1]])
          /\ world.jobs[i[1]] \in Seq(Request)
      BY <1>2, IdsAre, JobsAre DEF ReferencesInv
    <2>2. i[2] \in DOMAIN world.jobs[i[1]]
      BY <2>1
    <2>3. world \in Worlds
      BY DEF ReferencesInv, ClientsInv
    <2>4. Asked(i) = world.jobs[i[1]][i[2]]
      BY DEF Asked
    <2>5. world.jobs[i[1]][i[2]].lib
      BY <1>0, <1>2, <2>4
    <2> QED
      BY <2>1, <2>2, <2>3, <2>4, <2>5, LibraryAssumption
  <1> HIDE DEF i
  <1>5. /\ replies[i] = <<>> /\ i \notin held /\ i \notin subs /\ i # req
        /\ i \notin asked /\ Untouched \subseteq Ids /\ held \subseteq Ids
    BY <1>2 DEF ReferencesInv, RequestsInv, ClientsInv, Untouched, Unsent
  <1>6. Untouched' = Untouched \ {i}
    BY <1>0, <1>3, <1>5 DEF Untouched
  <1>7. /\ FewReplies' /\ replies' = [j \in Ids |-> replies'[j]]
        /\ \A j \in Ids : j # i => replies'[j] = replies[j]
    <2>1. ClientsInv /\ FewReplies /\ May(i)
      BY <1>4, <1>5 DEF ReferencesInv, ReferencesAreReplies, FewReplies, May
    <2> QED
      BY <1>0, <1>00, <2>1, TellFew
  <1>8. ClientsInv'
    BY <1>0, <1>1, <1>3, <1>5, <1>7 DEF ReferencesInv, ClientsInv
  <1>9. RequestsInv'
    BY <1>0, <1>1, <1>5, <1>6, <1>7 DEF ReferencesInv, RequestsInv
  <1>10. Out' = Out
    BY <1>0 DEF Out
  <1>11. QueriesInv'
    BY <1>0, <1>10 DEF ReferencesInv, QueriesInv
  <1>12. ReferencesAreReplies'
    BY <1>0, <1>1, <1>5, <1>7, <1>10
    DEF ReferencesInv, ReferencesAreReplies, FewReplies
  <1> QED
    BY <1>8, <1>9, <1>11, <1>12 DEF ReferencesInv

LEMMA CancelKeeps ==
    ASSUME ReferencesInv, NEW i, Cancel(i)
    PROVE  ReferencesInv'
  <1>0. /\ subs' = subs \ {i}
        /\ UNCHANGED <<world, todo, asked, replies, held, req, queries, results,
                       refused>>
    BY DEF Cancel, client, told, handler, bus, history
  <1>1. Ids' = Ids /\ \A j : Asked(j)' = Asked(j)
    BY <1>0, SameWorld
  <1>2. Unsent' = Unsent /\ Untouched' = Untouched /\ Out' = Out
    BY <1>0, <1>1 DEF Unsent, Untouched, Out
  <1>3. ClientsInv' /\ RequestsInv'
    BY <1>0, <1>1, <1>2 DEF ReferencesInv, ClientsInv, RequestsInv
  <1>4. QueriesInv' /\ ReferencesAreReplies'
    BY <1>0, <1>1, <1>2 DEF ReferencesInv, QueriesInv, ReferencesAreReplies
  <1> QED
    BY <1>3, <1>4 DEF ReferencesInv

-----------------------------------------------------------------------------
(* The theorem.                                                            *)

LEMMA InitReferences == Init => ReferencesInv
  <1> SUFFICES ASSUME Init PROVE ReferencesInv
    OBVIOUS
  <1>1. ClientsInv
    <2>1. world \in Worlds /\ todo = world.jobs /\ asked = {}
      BY DEF Init
    <2>2. world.jobs \in [Clients -> Seq(Request)]
      BY <2>1, WorldsAssumption
    <2>3. replies = [i \in Ids |-> replies[i]]
      BY DEF Init
    <2>4. ASSUME NEW c \in Clients
          PROVE  /\ Len(todo[c]) <= Len(world.jobs[c])
                 /\ \A k \in 1 .. Len(todo[c]) :
                      todo[c][k] = world.jobs[c]
                                     [Len(world.jobs[c]) - Len(todo[c]) + k]
      <3>1. todo[c] = world.jobs[c] /\ Len(todo[c]) \in Nat
        BY <2>1, <2>2
      <3> QED
        BY <3>1
    <2> QED
      BY <2>1, <2>2, <2>3, <2>4 DEF ClientsInv
  <1>2. None \notin Ids /\ Untouched \subseteq Ids
    BY IdsAre DEF Untouched, Unsent, Init
  <1>3. \A i \in Ids : replies[i] = <<>>
    BY DEF Init
  <1>4. RequestsInv
    BY <1>2, <1>3 DEF Init, RequestsInv
  <1>5. Out = {}
    BY DEF Init, Out
  <1>6. QueriesInv
    BY <1>5 DEF Init, QueriesInv
  <1>7. ReferencesAreReplies
    BY <1>3, <1>5 DEF Init, ReferencesAreReplies
  <1> QED
    BY <1>1, <1>4, <1>6, <1>7 DEF ReferencesInv

\* Steps of the threads that concern the devices and their lists only.
LEMMA ThreadStep ==
    ASSUME NEW t, NEW d,
           \/ GoOn(d) \/ ScanLoop(d) \/ WriteRow(d) \/ TakePut(d) \/ Attach(d)
           \/ CountPut \/ Unmark \/ Rescan \/ LockDevice \/ PushScan
           \/ WaitForScan \/ BuildList(t) \/ ProcessingDone(t)
           \/ NotifyScanDone(t)
    PROVE  UNCHANGED <<world, todo, asked, replies, subs, held, queries,
                       results, refused, req>>
  <1> USE DEF client, told, service, handler, bus, history
  <1>1. CASE \/ GoOn(d) \/ WriteRow(d) \/ TakePut(d) \/ Attach(d)
             \/ CountPut \/ Unmark \/ Rescan
    BY <1>1 DEF GoOn, WriteRow, TakePut, Attach, CountPut, Unmark, Rescan
  <1>2. CASE ScanLoop(d)
    BY <1>2 DEF ScanLoop, BeginScan, SetScanning, WalkFile, SetParsing, PopScan
  <1>3. CASE LockDevice \/ PushScan \/ WaitForScan
    BY <1>3 DEF LockDevice, PushScan, WaitForScan
  <1>4. CASE BuildList(t) \/ ProcessingDone(t) \/ NotifyScanDone(t)
    BY <1>4 DEF BuildList, ProcessingDone, NotifyScanDone
  <1> QED
    BY <1>1, <1>2, <1>3, <1>4

\* Steps that may reply to the main loop's request.
LEMMA EndsRequest ==
    ASSUME ReferencesInv, NEW t, NEW g,
           \/ Denied \/ NothingToScan \/ TimeOut \/ Woken \/ WakeUp
           \/ SendList(t) \/ AnswerGrant(g)
    PROVE  ReferencesInv'
  <1> USE DEF client, told, service, handler, bus, history
  <1>1. UNCHANGED <<world, todo, asked, subs, held, queries, results, refused>>
    <2>1. CASE Denied \/ NothingToScan \/ TimeOut \/ Woken \/ WakeUp
      BY <2>1 DEF Denied, NothingToScan, TimeOut, Woken, WakeUp, EndScan
    <2>2. CASE SendList(t) \/ AnswerGrant(g)
      BY <2>2 DEF SendList, AnswerGrant
    <2> QED
      BY <2>1, <2>2
  <1>2. \/ replies' = replies /\ req' = req
        \/ Answers(req) /\ req' \in {req, None}
    <2>1. CASE Denied
      BY <2>1 DEF Denied, EndGrant, Answers
    <2>2. CASE NothingToScan \/ TimeOut \/ Woken \/ WakeUp
      BY <2>2 DEF NothingToScan, TimeOut, Woken, WakeUp, EndScan, Answers
    <2>3. CASE SendList(t)
      BY <2>3 DEF SendList, Answers
    <2>4. CASE AnswerGrant(g)
      BY <2>4 DEF AnswerGrant, EndGrant, Answers
    <2> QED
      BY <2>1, <2>2, <2>3, <2>4
  <1>3. CASE replies' = replies /\ req' = req
    BY <1>1, <1>3, NothingHandled
  <1>4. CASE Answers(req) /\ req' \in {req, None}
    <2>1. PICK r : Tell({req}, r)
      BY <1>4 DEF Answers
    <2> QED
      BY <1>1, <1>4, <2>1, ReplyToRequest
  <1> QED
    BY <1>2, <1>3, <1>4

LEMMA StepReferences ==
    ASSUME ReferencesInv, [Next]_vars
    PROVE  ReferencesInv'
  <1>1. CASE Running
    <2>1. ASSUME NEW i \in asked, HandleRequest(i) PROVE ReferencesInv'
      BY <2>1, RequestHandles, HandlesKeeps
    <2>2. ASSUME NEW m \in results, HandleResult(m) PROVE ReferencesInv'
      BY <2>2, ResultKeeps
    <2>3. CASE RunHandler
      <3>1. CASE LockDevice \/ PushScan \/ WaitForScan
        BY <3>1, ThreadStep, NothingHandled
      <3>2. CASE Denied \/ NothingToScan \/ TimeOut \/ Woken
        BY <3>2, EndsRequest
      <3> QED
        BY <2>3, <3>1, <3>2 DEF RunHandler
    <2>4. ASSUME NEW d \in Devices, ScanLoop(d) PROVE ReferencesInv'
      BY <2>4, ThreadStep, NothingHandled
    <2>5. ASSUME NEW d \in Devices, Clean(d) PROVE ReferencesInv'
      <3> DEFINE q(k) == [op |-> "clean", for |-> None, obj |-> None, kind |-> k,
                          uri |-> {r \in Items : Home[r] = d}, limit |-> 0,
                          after |-> 0]
      <3>1. PICK K : queries' = queries \cup {q(k) : k \in K}
        BY <2>5 DEF Clean
      <3>2. Anonymous({q(k) : k \in K})
        BY DEF Anonymous, Fields
      <3>3. UNCHANGED <<world, todo, asked, replies, subs, held, req, results,
                        refused>>
        BY <2>5 DEF Clean, client, told, service, handler, history
      <3> HIDE DEF q
      <3> QED
        BY <3>1, <3>2, <3>3, CleanKeeps
    <2>6. ASSUME NEW t \in Threads,
                 BuildList(t) \/ ProcessingDone(t) \/ NotifyScanDone(t)
          PROVE  ReferencesInv'
      BY <2>6, ThreadStep, NothingHandled
    <2>7. ASSUME NEW t \in Threads, SendList(t) PROVE ReferencesInv'
      BY <2>7, EndsRequest
    <2>8. ASSUME NEW c \in Clients, GoOn(c) PROVE ReferencesInv'
      BY <2>8, ThreadStep, NothingHandled
    <2>9. CASE CountPut \/ Unmark \/ Rescan
      BY <2>9, ThreadStep, NothingHandled
    <2> QED
      BY <1>1, <2>1, <2>2, <2>3, <2>4, <2>5, <2>6, <2>7, <2>8, <2>9 DEF Running
  <1>2. CASE Environment
    <2>1. ASSUME NEW c \in Clients, Send(c) \/ CallDirectly(c)
          PROVE  ReferencesInv'
      BY <2>1, SendKeeps, CallDirectlyKeeps
    <2>2. ASSUME NEW i \in subs, Cancel(i) PROVE ReferencesInv'
      BY <2>2, CancelKeeps
    <2>3. ASSUME NEW q \in queries, Answer(q) PROVE ReferencesInv'
      BY <2>3, AnswerKeeps
    <2>4. ASSUME NEW g \in grants, AnswerGrant(g) PROVE ReferencesInv'
      BY <2>4, EndsRequest
    <2>5. ASSUME NEW d \in Devices, TakePut(d) \/ Attach(d) PROVE ReferencesInv'
      BY <2>5, ThreadStep, NothingHandled
    <2>6. ASSUME NEW r \in Items, WriteRow(r) PROVE ReferencesInv'
      BY <2>6, ThreadStep, NothingHandled
    <2>7. CASE WakeUp
      BY <2>7, EndsRequest
    <2> QED
      BY <1>2, <2>1, <2>2, <2>3, <2>4, <2>5, <2>6, <2>7 DEF Environment
  <1>3. CASE UNCHANGED vars
    <2>1. UNCHANGED <<world, todo, asked, replies, subs, held, queries, results,
                      refused, req>>
      BY <1>3 DEF vars, client, told, service, handler, bus, history
    <2> QED
      BY <2>1, NothingHandled
  <1> QED
    BY <1>1, <1>2, <1>3 DEF Next

(* Every message the service holds a reference to has a query out whose    *)
(* result will be its only reply, and every query out is for a held        *)
(* message or for subscribers; only a query that the bus refused leaves    *)
(* its message without.  So a reply is never sent to a message that was    *)
(* let go, and a message is let go once.                                   *)
THEOREM HeldMessagesAreRepliedOnce == Spec => []ReferencesAreReplies
  <1>1. ReferencesInv /\ [Next]_vars => ReferencesInv'
    BY StepReferences
  <1>2. ReferencesInv => ReferencesAreReplies
    BY DEF ReferencesInv
  <1> QED
    BY <1>1, <1>2, InitReferences, PTL DEF Spec
=============================================================================
