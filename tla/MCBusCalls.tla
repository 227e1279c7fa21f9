----------------------------- MODULE MCBusCalls -----------------------------
(* Small worlds of BusCalls: who sends what.                               *)
EXTENDS BusCalls, TLC

None0 == [t \in Threads |-> <<>>]
Do(op, k) == [op |-> op, on |-> k]
World(jobs) == [jobs |-> jobs @@ None0, refuse |-> FALSE, started |-> TRUE]

\* The walk of one device asks, a parser and the walk of another send.
Walks == World(
    ("walk" :> <<Do("find", "MediaDb"), Do("find", "MediaDb")>>)
    @@ ("other" :> <<Do("find", "MediaDb"), Do("put", "MediaDb")>>))
\* Detection is switched on for two plugins in a row.
Detection == World(
    ("main" :> <<Do("inject", "DeviceDb"), Do("inject", "DeviceDb")>>)
    @@ ("walk" :> <<Do("find", "MediaDb")>>))
\* The cleanup task and clients search.
Searches == World(
    ("main" :> <<Do("search", "MediaDb"), Do("put", "MediaDb")>>)
    @@ ("other" :> <<Do("search", "MediaDb"), Do("search", "MediaDb")>>))
\* Two threads of a client, and one alone, again and again.
Clients == World(
    ("walk" :> <<Do("query", "MediaDb"), Do("query", "MediaDb")>>)
    @@ ("other" :> <<Do("query", "MediaDb")>>))
Client == World("walk" :> <<Do("query", "MediaDb"), Do("query", "MediaDb"),
                            Do("query", "MediaDb")>>)
\* The first calls, made while the connectors' threads are started.
Starting == World(
    ("main" :> <<Do("put", "DeviceDb"), Do("put", "MediaDb")>>)
    @@ ("walk" :> <<Do("find", "MediaDb")>>))
\* A bus that refuses calls.
Refusing == World(
    ("main" :> <<Do("inject", "DeviceDb"), Do("put", "DeviceDb")>>)
    @@ ("walk" :> <<Do("find", "DeviceDb"), Do("search", "DeviceDb")>>))

MCWorlds == {Walks, Detection, Searches, Clients, Client,
             [Starting EXCEPT !.started = FALSE],
             [Refusing EXCEPT !.refuse = TRUE]}
=============================================================================
