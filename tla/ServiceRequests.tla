-------------------------- MODULE ServiceRequests --------------------------
(***************************************************************************)
(* How IndexerService serves requests: list, meta data and delete requests *)
(* that become queries of the database and are answered page by page,      *)
(* subscriptions, permissions, the device list, and scans on request; with *)
(* the client library, which sends some of these and asks the database for *)
(* the rest itself.                                                        *)
(*                                                                         *)
(* Requests and the results of queries are handled by the main loop, one   *)
(* at a time; it blocks while it waits for a permission or for a scan.     *)
(* The scan threads of the devices, the database connector's thread, which *)
(* handles the answers to what the scans write, and a plugin's discovery   *)
(* thread run beside it.  The database and the bus are external.           *)
(***************************************************************************)
EXTENDS Integers, Sequences, FiniteSets, Functions, SequencesExt, FiniteSetsExt

CONSTANTS
    Clients,      \* who sends requests, over the bus or with the library
    Devices,
    Plugins,      \* the devices of each plugin, in the order of the maps
    Rows,         \* media items of the database, in the order of its index
    Kind, Home,   \* ... the kind of each, and its device
    PageSize,     \* results the database gives at once
    None, Main, Db, Upnp,
    Worlds        \* what a behaviour may start from, see below

Items == Range(Rows)
Kinds == {"audio", "video", "image"}
Threads == Devices \cup {Main, Db, Upnp}

(***************************************************************************)
(* A request: "uri" stands for the items whose uri begins with it, and     *)
(* "path" for the devices whose mount point does.  Its payload is "ok", or *)
(* does not parse, or lacks what is mandatory, or has a count out of range.*)
(* A request with "lib" is a call of the client library.                   *)
(***************************************************************************)
Ops == {"list", "meta", "delete", "permission", "devices", "scan", "plugins"}
Request == [op : Ops, kind : Kinds \cup {None}, uri : SUBSET Items,
            count : 0 .. PageSize, sub : BOOLEAN, path : SUBSET Devices,
            payload : {"ok", "broken", "lacking", "range"}, lib : BOOLEAN]

ASSUME WorldsAssumption ==
    Worlds \subseteq
      [jobs : [Clients -> Seq(Request)],   \* what each client asks for
       files : SUBSET Items,               \* items whose files are there
       late : SUBSET Devices,              \* devices that are discovered late
       dirty : SUBSET Items,
       refuse : BOOLEAN,                   \* whether the bus may refuse a call
       cleans : BOOLEAN]                   \* whether clean-up tasks get to run
ASSUME NamesAssumption ==
    /\ Main \notin Devices /\ Db \notin Devices /\ Upnp \notin Devices
    /\ Cardinality({Main, Db, Upnp, None}) = 4 /\ None \notin Items \cup Devices
    /\ None \notin Clients \X Nat
\* The library makes the payloads of its calls itself.
ASSUME LibraryAssumption ==
    \A w \in Worlds : \A c \in Clients : \A k \in DOMAIN w.jobs[c] :
        w.jobs[c][k].lib => w.jobs[c][k].payload = "ok"
ASSUME PluginsAssumption == Plugins \in Seq(Seq(Devices))
ASSUME RowsAssumption ==
    /\ Rows \in Seq(Items) /\ IsInjective(Rows)
    /\ Kind \in [Items -> Kinds] /\ Home \in [Items -> Devices]
ASSUME PageSizeAssumption == PageSize \in Nat \ {0}

VARIABLES
    world,
    todo, waits,   \* clients: what they have still to ask; their library calls
    asked,         \* requests on their way to the service
    replies,       \* what each request has been told
    subs, held,    \* subscriptions, and messages referenced by the service
    clients,       \* clients_ of the client manager
    dbClients,     \* services that dbClients_ of MediaDb names
    req, plugins, scanned,     \* the main loop's request; of a scan: plugins
                               \* left, devices that were told to scan
    queries, results, grants,  \* calls at the database; results for the loop
    rows, dirty, granted,      \* the database
    state, available, queue,   \* the devices: ... requests for a scan,
    left, items, processed, puts, acks,    \* ... files, counts; writes to the
    cleanups,                              \* rows, and answers, on their way
    at, dev, back,  \* the threads: step, its device, the step after "send",
    list,           \* and the device list that has been built
    shown,          \* the device list each subscriber has been sent last
    refused, stale, calm, finished, untrue, written    \* history

client == <<todo, waits, asked>>
service == <<subs, held, clients, dbClients>>
handler == <<req, plugins, scanned>>
bus == <<queries, results, grants>>
database == <<rows, dirty, granted>>
count == <<left, items, processed, puts, acks>>
device == <<state, available, queue, count, cleanups>>
thread == <<at, dev, back, list>>
told == <<replies, shown>>
history == <<refused, stale, calm, finished, untrue, written>>
vars == <<world, client, told, service, handler, bus, database, device,
          thread, history>>

\* A request is known by its sender and its number.
Ids == UNION {{c} \X (1 .. Len(world.jobs[c])) : c \in Clients}
Asked(i) == world.jobs[i[1]][i[2]]
Sender(i) == i[1]

\* The states a device list may show: Parsing is shown as Scanning.
Shown == [d \in Devices |-> IF state[d] = "Parsing" THEN "Scanning"
                            ELSE state[d]]

Init ==
    /\ world \in Worlds
    /\ todo = world.jobs /\ waits = [c \in Clients |-> FALSE] /\ asked = {}
    /\ replies = [i \in Ids |-> <<>>]
    /\ subs = {} /\ held = {} /\ clients = {} /\ dbClients = <<>>
    /\ req = None /\ plugins = <<>> /\ scanned = {}
    /\ queries = {} /\ results = {} /\ grants = {}
    /\ rows = Items /\ dirty = world.dirty /\ granted = {}
    /\ state = [d \in Devices |-> IF d \in world.late THEN "Inactive"
                                  ELSE "Idle"]
    /\ available = Devices \ world.late
    /\ queue = [d \in Devices |-> 0] /\ left = [d \in Devices |-> {}]
    /\ items = [d \in Devices |-> 0] /\ processed = [d \in Devices |-> 0]
    /\ puts = [r \in Items |-> 0] /\ acks = [d \in Devices |-> 0]
    /\ cleanups = {}
    /\ at = [t \in Threads |-> "idle"]
    /\ dev = [t \in Threads |-> IF t \in Devices THEN t ELSE None]
    /\ back = [t \in Threads |-> "idle"]
    /\ list = [t \in Threads |-> None]
    /\ shown = [i \in Ids |-> None]
    /\ refused = {} /\ stale = {} /\ calm = FALSE /\ finished = {}
    /\ untrue = {} /\ written = {}

----------------------------------------------------------------------------
(***************************************************************************)
(* Helpers.                                                                *)
(***************************************************************************)
At(t, step) == at[t] = step
Go(t, step) == at' = [at EXCEPT ![t] = step]

Reply(what, ok, found) == [what |-> what, ok |-> ok, rows |-> found]
Tell(ids, reply) ==
    replies' = [i \in Ids |-> IF i \in ids THEN Append(replies[i], reply)
                              ELSE replies[i]]

\* Whether the bus takes a call or a reply.
Taken == IF world.refuse THEN BOOLEAN ELSE {TRUE}

\* search and del of MediaDb, on behalf of a request; a query that the bus
\* refuses is only logged.
Ask(q, for, taken) ==
    /\ queries' = IF taken THEN queries \cup {q} ELSE queries
    /\ refused' = IF taken THEN refused ELSE refused \cup {for}

\* The query of a request; without an object for subscriptions.
Query(i) ==
    [op |-> Asked(i).op, for |-> i, obj |-> IF Asked(i).sub THEN None ELSE i,
     kind |-> Asked(i).kind, uri |-> Asked(i).uri, limit |-> Asked(i).count,
     after |-> 0]

\* Who subscribed to the method of a query.
SubscribersOf(q) ==
    {i \in subs : /\ Asked(i).op = q.op
                  /\ q.op = "delete" \/ Asked(i).kind = q.kind}

----------------------------------------------------------------------------
(***************************************************************************)
(* The clients.                                                            *)
(***************************************************************************)
\* What the client library refuses itself: an empty uri or path.
Empty(r) == \/ r.op \in {"meta", "delete"} /\ r.uri = {}
            \/ r.op = "scan" /\ r.path = {}

\* Calls of the library that go to the database, past the service.
Direct(r) == r.lib /\ r.op \in {"list", "meta", "delete"}

NextCall(c) == <<c, Len(world.jobs[c]) - Len(todo[c]) + 1>>

\* A client sends its next request.  The library waits for the reply.
Send(c) ==
    /\ todo[c] # <<>> /\ ~waits[c] /\ ~Direct(Head(todo[c]))
    /\ ~(Head(todo[c]).lib /\ Empty(Head(todo[c])))
    /\ asked' = asked \cup {NextCall(c)}
    /\ todo' = [todo EXCEPT ![c] = Tail(@)]
    /\ waits' = [waits EXCEPT ![c] = Head(todo[c]).lib]
    /\ UNCHANGED <<world, told, service, handler, bus, database, device,
                   thread, history>>

\* The reply has come, or CONNECTOR_WAIT_TIMEOUT is over.
GoOn(c) ==
    /\ waits[c]
    /\ waits' = [waits EXCEPT ![c] = FALSE]
    /\ UNCHANGED <<world, todo, asked, told, service, handler, bus, database,
                   device, thread, history>>

\* Where the database finds items for a query, beginning after its page; and
\* how many of them it gives at once, the first ones.
Found(q) ==
    {p \in q.after + 1 .. Len(Rows) :
        /\ Rows[p] \in rows /\ Rows[p] \in q.uri /\ Kind[Rows[p]] = q.kind
        /\ (Rows[p] \in dirty) = (q.op = "clean")}
Most(limit) == IF limit \in 1 .. PageSize THEN limit ELSE PageSize
FirstOf(found, limit) ==
    {p \in found : Cardinality(found \cap 1 .. p) <= Most(limit)}
ItemsAt(found) == {Rows[p] : p \in found}

\* getKindID, for a delete, gives the type, which is no kind of the database.
KindKnown(r) == r.op # "delete"

\* A call of the library that needs no service: an empty argument is refused,
\* and a list or meta data are read from the database if it allows.
CallDirectly(c) ==
    /\ todo[c] # <<>> /\ ~waits[c]
    /\ LET r == Head(todo[c])
           i == NextCall(c)
       IN  /\ r.lib /\ (Direct(r) \/ Empty(r))
           /\ Tell({i}, IF Empty(r) \/ ~KindKnown(r) \/ c \notin granted
                        THEN Reply("refused", FALSE, {})
                        ELSE Reply("found", TRUE,
                                   ItemsAt(FirstOf(Found(Query(i)), 0))))
    /\ todo' = [todo EXCEPT ![c] = Tail(@)]
    /\ UNCHANGED <<world, waits, asked, shown, service, handler, bus,
                   database, device, thread, history>>

\* removeClient finds nothing: addClient only adds what is there already.
AddClient(i) == IF i \in clients THEN clients \cup {i} ELSE clients
RemoveClient(i) == clients \ {i}

Cancel(i) ==
    /\ i \in subs /\ subs' = subs \ {i}
    /\ clients' = RemoveClient(i)
    /\ UNCHANGED <<world, client, told, held, dbClients, handler, bus,
                   database, device, thread, history>>

----------------------------------------------------------------------------
(***************************************************************************)
(* Requests, as the main loop handles them.                                *)
(***************************************************************************)
Serve(i) == At(Main, "idle") /\ i \in asked /\ asked' = asked \ {i}
Fine(i, op) == Asked(i).op = op /\ Asked(i).payload = "ok"

\* A payload that does not parse gets no reply, nor does one without the uri
\* or path that is needed.
Reject(i) ==
    /\ Serve(i) /\ Asked(i).payload # "ok"
    /\ IF \/ Asked(i).op = "permission" /\ Asked(i).payload = "lacking"
          \/ Asked(i).op = "list" /\ Asked(i).payload = "range"
       THEN Tell({i}, Reply("error", FALSE, {})) ELSE UNCHANGED replies
    /\ UNCHANGED <<world, todo, waits, shown, service, handler, bus, database,
                   device, thread, history>>

\* A list or a delete: a subscription is told so at once, any other message
\* is kept for the result.
AskFor(i, op, kind) ==
    /\ Serve(i) /\ Fine(i, op) /\ Asked(i).kind = kind
    /\ IF Asked(i).sub
       THEN /\ subs' = subs \cup {i} /\ clients' = AddClient(i)
            /\ Tell({i}, Reply("subscribed", TRUE, {}))
            /\ UNCHANGED held
       ELSE held' = held \cup {i} /\ UNCHANGED <<subs, clients, replies>>
    /\ \E taken \in Taken : Ask(Query(i), i, taken)
    /\ written' = IF op = "list" THEN written \ ({i} \X Items) ELSE written
    /\ UNCHANGED <<world, todo, waits, shown, dbClients, handler, results,
                   grants, database, device, thread, stale, calm, finished,
                   untrue>>

OnAudioListGet(i) == AskFor(i, "list", "audio")
OnVideoListGet(i) == AskFor(i, "list", "video")
OnImageListGet(i) == AskFor(i, "list", "image")

\* The kind is guessed from the uri; an unknown one is asked for all the same.
OnRequestDelete(i) == \E kind \in Kinds \cup {None} : AskFor(i, "delete", kind)

\* Meta data: with "expand" and without a limit, and not for subscriptions.
AskForMeta(i, kind) ==
    /\ Serve(i) /\ Fine(i, "meta") /\ Asked(i).kind = kind
    /\ held' = held \cup {i}
    /\ \E taken \in Taken : Ask([Query(i) EXCEPT !.obj = i], i, taken)
    /\ UNCHANGED <<world, todo, waits, told, subs, clients, dbClients, handler,
                   results, grants, database, device, thread, stale, calm,
                   finished, untrue, written>>

OnAudioMetadataGet(i) == AskForMeta(i, "audio")
OnVideoMetadataGet(i) == AskForMeta(i, "video")
OnImageMetadataGet(i) == AskForMeta(i, "image")

OnPluginListGet(i) ==
    /\ Serve(i) /\ Fine(i, "plugins")
    /\ Tell({i}, Reply("plugins", TRUE, {}))
    /\ UNCHANGED <<world, todo, waits, shown, service, handler, bus, database,
                   device, thread, history>>

\* grantAccessAll: the service is added to dbClients_, and the database is
\* asked, synchronously, to allow everything to all of dbClients_.
GrantAccessAll(i) ==
    /\ dbClients' = Append(dbClients, Sender(i))
    /\ \E taken \in Taken :
         /\ grants' = IF taken
                      THEN grants \cup {[for |-> i, names |-> Range(dbClients')]}
                      ELSE grants
         /\ refused' = IF taken THEN refused ELSE refused \cup {i}
         /\ Go(Main, IF taken THEN "grant" ELSE "denied")

OnMediaDbPermissionGet(i) ==
    /\ Serve(i) /\ Fine(i, "permission")
    /\ GrantAccessAll(i) /\ req' = i
    /\ UNCHANGED <<world, todo, waits, told, subs, held, clients, plugins,
                   scanned, queries, results, database, device, dev, back,
                   list, stale, calm, finished, untrue, written>>

\* pushDeviceList for a message; a subscriber gets permissions first.
OnDeviceListGet(i) ==
    /\ Serve(i) /\ Fine(i, "devices") /\ req' = i
    /\ IF Asked(i).sub
       THEN subs' = subs \cup {i} /\ GrantAccessAll(i)
       ELSE Go(Main, "list") /\ UNCHANGED <<subs, dbClients, grants, refused>>
    /\ UNCHANGED <<world, todo, waits, told, held, clients, plugins, scanned,
                   queries, results, database, device, dev, back, list, stale,
                   calm, finished, untrue, written>>

\* The permission has been answered, refused, or is given up: a request for
\* it is replied to with whatever there is, a device list is built.
EndGrant(ok) ==
    IF Asked(req).op = "permission"
    THEN Tell({req}, Reply("permission", ok, {})) /\ Go(Main, "idle")
         /\ req' = None
    ELSE Go(Main, "list") /\ UNCHANGED <<replies, req>>

Denied ==
    /\ At(Main, "denied") \/ At(Main, "grant")
    /\ EndGrant(FALSE)
    /\ UNCHANGED <<world, client, shown, service, plugins, scanned, bus,
                   database, device, dev, back, list, history>>

----------------------------------------------------------------------------
(***************************************************************************)
(* requestMediaScan.                                                       *)
(***************************************************************************)
\* Nothing is scanned, counted or discovered.
Calm == /\ \A t \in Threads \ {Main} : At(t, "idle")
        /\ \A d \in Devices : queue[d] = 0 /\ acks[d] = 0
        /\ \A r \in Items : puts[r] = 0

OnRequestMediaScan(i) ==
    /\ Serve(i) /\ Fine(i, "scan")
    /\ req' = i /\ plugins' = Plugins /\ scanned' = {} /\ Go(Main, "lock")
    /\ calm' = Calm
    /\ UNCHANGED <<world, todo, waits, told, service, bus, database, device,
                   dev, back, list, refused, stale, finished, untrue,
                   written>>

\* Of each plugin the first available device below the path, which stays
\* locked, shared, until it has queued the scan: its counts are reset first.
ToScan == {k \in DOMAIN Head(plugins) :
              Head(plugins)[k] \in available \cap Asked(req).path}
FirstToScan == Head(plugins)[Min(ToScan)]

LockDevice ==
    /\ At(Main, "lock") /\ plugins # <<>>
    /\ plugins' = Tail(plugins)
    /\ IF ToScan = {}
       THEN UNCHANGED <<at, dev, items, processed>>
       ELSE /\ Go(Main, "push") /\ dev' = [dev EXCEPT ![Main] = FirstToScan]
            /\ items' = [items EXCEPT ![FirstToScan] = 0]
            /\ processed' = [processed EXCEPT ![FirstToScan] = 0]
    /\ UNCHANGED <<world, client, told, service, req, scanned, bus, database,
                   state, available, queue, left, puts, acks, cleanups, back,
                   list, history>>

\* mutex_ of the device is its scan thread's for as long as it scans.
Scan(t) ==
    /\ At(dev[t], "idle")
    /\ queue' = [queue EXCEPT ![dev[t]] = @ + 1]

PushScan ==
    /\ At(Main, "push") /\ Scan(Main) /\ Go(Main, "lock")
    /\ scanned' = scanned \cup {dev[Main]}
    /\ UNCHANGED <<world, client, told, service, req, plugins, bus, database,
                   state, available, count, cleanups, dev, back, list, history>>

EndScan(ok) ==
    /\ Tell({req}, Reply("scan", ok, {}))
    /\ req' = None /\ Go(Main, "idle")
    /\ untrue' = IF At(Main, "woken") /\ calm /\ scanned \cap finished = {}
                 THEN untrue \cup {req} ELSE untrue
    /\ scanned' = {} /\ finished' = {} /\ calm' = FALSE
    /\ dev' = [dev EXCEPT ![Main] = None]
    /\ UNCHANGED <<world, client, shown, service, plugins, bus, database,
                   device, back, list, refused, stale, written>>

NothingToScan ==
    At(Main, "lock") /\ plugins = <<>> /\ scanned = {} /\ EndScan(FALSE)

WaitForScan ==
    /\ At(Main, "lock") /\ plugins = <<>> /\ scanned # {}
    /\ Go(Main, "wait")
    /\ UNCHANGED <<world, client, told, service, handler, bus, database,
                   device, dev, back, list, history>>

\* Mistake: the wait has no end but the notification.
NeverTimesOut == FALSE /\ EndScan(FALSE)

\* SCAN_TIMEOUT; a scan that was done before the wait ends so, too.
TimeOut == At(Main, "wait") /\ EndScan(FALSE)
Woken == At(Main, "woken") /\ EndScan(TRUE)

\* wait_for has no predicate: it may return without a notification, as the
\* environment pleases.
WakeUp == At(Main, "wait") /\ EndScan(TRUE)

----------------------------------------------------------------------------
(***************************************************************************)
(* The database, and handleLunaResponseMetaData for what it answers.       *)
(***************************************************************************)
\* A search is answered with a page; a delete removes what its uri names.
Answer(q) ==
    /\ queries' = queries \ {q}
    /\ LET delete == q.op \in {"delete", "remove"}
           gone == {r \in q.uri : Kind[r] = q.kind}
           page == FirstOf(Found(q), q.limit)
       IN  /\ rows' = IF delete THEN rows \ gone ELSE rows
           /\ results' = results \cup
                {[q |-> q, ok |-> ~delete \/ q.kind # None,
                  page |-> IF delete THEN {} ELSE page,
                  more |-> ~delete /\ Found(q) # page]}
           /\ written' = IF q.op = "delete" THEN written \ ({q.for} \X Items)
                         ELSE written
    /\ UNCHANGED <<world, client, told, service, handler, grants, dirty,
                   granted, device, thread, refused, stale, calm, finished,
                   untrue>>

\* What a scan has found is written: a new item is put, an item known already
\* is updated, which finds nothing if its row has been deleted meanwhile.
WriteRow(r) ==
    /\ puts[r] > 0 /\ puts' = [puts EXCEPT ![r] = @ - 1]
    /\ acks' = [acks EXCEPT ![Home[r]] = @ + 1]
    /\ \E new \in SUBSET ({r} \ rows) :
         /\ rows' = rows \cup new
         /\ written' = written \cup (Ids \X new)
    /\ dirty' = dirty \ {r}
    /\ UNCHANGED <<world, client, told, service, handler, bus, granted, state,
                   available, queue, left, items, processed, cleanups, thread,
                   refused, stale, calm, finished, untrue>>

\* putPermissions, answered on the connector's thread: the reply object is
\* the handler's, if it still waits.
AnswerGrant(g) ==
    /\ At(Db, "idle")
    /\ grants' = grants \ {g} /\ granted' = granted \cup g.names
    /\ IF At(Main, "grant") /\ req = g.for THEN EndGrant(TRUE)
       ELSE UNCHANGED <<at, replies, req>>
    /\ UNCHANGED <<world, client, shown, service, plugins, scanned, queries,
                   results, rows, dirty, device, dev, back, list, history>>

\* Mistake: the message is still referenced after the response.
NotifyKeeps(q, reply) ==
    /\ Tell(IF q.obj = None THEN SubscribersOf(q) ELSE {q.obj}, reply)
    /\ UNCHANGED held

\* Mistake: all subscribers are told, whatever their method.
NotifyAll(q, reply) ==
    /\ Tell(IF q.obj = None THEN subs ELSE {q.obj}, reply)
    /\ held' = held \ {q.obj}

\* notifyMediaMetaData: the message of the query is responded to and let go,
\* or all subscribers of the method are told.
Notify(q, reply) ==
    /\ Tell(IF q.obj = None THEN SubscribersOf(q) ELSE {q.obj}, reply)
    /\ held' = held \ {q.obj}

\* A list: if there is more, subscriptions ask for the next page.
LastPosition(m) == Max(m.page)

\* Mistake: the next page is asked for messages instead of subscriptions.
HandleListInverted(m) ==
    /\ m.q.op = "list" /\ Notify(m.q, Reply("page", TRUE, ItemsAt(m.page)))
    /\ IF m.more /\ m.q.obj # None
       THEN \E taken \in Taken :
              Ask([m.q EXCEPT !.after = LastPosition(m)], m.q.for, taken)
       ELSE UNCHANGED <<queries, refused>>

HandleList(m) ==
    /\ m.q.op = "list" /\ Notify(m.q, Reply("page", TRUE, ItemsAt(m.page)))
    /\ IF m.more /\ m.q.obj = None
       THEN \E taken \in Taken :
              Ask([m.q EXCEPT !.after = LastPosition(m)], m.q.for, taken)
       ELSE UNCHANGED <<queries, refused>>

\* Meta data: of the first item found, whose file is read for more of it.
HandleMetaData(m) ==
    /\ m.q.op = "meta"
    /\ IF m.page = {} THEN Notify(m.q, Reply("error", FALSE, {}))
       ELSE \E ok \in BOOLEAN :
              Notify(m.q, Reply("meta", ok, {Rows[Min(m.page)]}))
    /\ UNCHANGED <<queries, refused>>

HandleDelete(m) ==
    /\ m.q.op = "delete" /\ Notify(m.q, Reply("deleted", m.ok, {}))
    /\ UNCHANGED <<queries, refused>>

\* removeDirty: each item found is deleted, from this page only.
HandleClean(m) ==
    /\ m.q.op = "clean"
    /\ \E R \in IF world.refuse THEN SUBSET ItemsAt(m.page)
                ELSE {ItemsAt(m.page)} :
         queries' = queries \cup
             {[m.q EXCEPT !.op = "remove", !.uri = {r}] : r \in R}
    /\ UNCHANGED <<replies, held, refused>>

HandleRemove(m) ==
    m.q.op = "remove" /\ UNCHANGED <<replies, held, queries, refused>>

HandleResult(m) ==
    /\ At(Main, "idle") /\ results' = results \ {m}
    /\ \/ HandleList(m) \/ HandleMetaData(m) \/ HandleDelete(m)
       \/ HandleClean(m) \/ HandleRemove(m)
    /\ UNCHANGED <<world, client, shown, subs, clients, dbClients, handler,
                   grants, database, device, thread, stale, calm, finished,
                   untrue, written>>

\* The clean-up task of a device: removeDirty searches each kind.
Clean(d) ==
    /\ world.cleans /\ d \in cleanups /\ cleanups' = cleanups \ {d}
    /\ \E K \in IF world.refuse THEN SUBSET Kinds ELSE {Kinds} :
         queries' = queries \cup
             {[op |-> "clean", for |-> None, obj |-> None, kind |-> k,
               uri |-> {r \in Items : Home[r] = d}, limit |-> 0,
               after |-> 0] : k \in K}
    /\ UNCHANGED <<world, client, told, service, handler, results, grants,
                   database, state, available, queue, count, thread, history>>

----------------------------------------------------------------------------
(***************************************************************************)
(* The device list, sent by any thread.                                    *)
(***************************************************************************)
\* It is built device by device, each locked, before mutex_ is taken.
BuildList(t) ==
    /\ At(t, "list") /\ Go(t, "send")
    /\ list' = [list EXCEPT ![t] = Shown]
    /\ UNCHANGED <<world, client, told, service, handler, bus, database,
                   device, dev, back, history>>

\* mutex_ of the service, held while a permission is waited for.
Locked == \/ At(Main, "denied") /\ Asked(req).op = "permission"
          \/ At(Main, "grant") /\ Asked(req).op = "permission"

Listeners == {i \in subs : Asked(i).op = "devices"}

\* Whether a thread sends because it has found a scan done; it activates
\* the clean-up task then.
Done(t) == (t \in Devices /\ back[t] = "pop") \/ t = Db

SendList(t) ==
    /\ At(t, "send") /\ ~Locked
    /\ LET ids == IF t = Main THEN {req} ELSE Listeners
       IN  /\ shown' = [i \in Ids |-> IF i \in ids THEN list[t] ELSE shown[i]]
           /\ stale' = IF list[t] = Shown THEN stale \ ids ELSE stale \cup ids
    /\ IF t = Main THEN Tell({req}, Reply("devices", TRUE, {})) /\ req' = None
       ELSE UNCHANGED <<replies, req>>
    /\ Go(t, back[t]) /\ list' = [list EXCEPT ![t] = None]
    /\ cleanups' = IF Done(t) THEN cleanups \cup {dev[t]} ELSE cleanups
    /\ UNCHANGED <<world, client, service, plugins, scanned, bus, database,
                   state, available, queue, count, dev, back, refused, calm,
                   finished, untrue, written>>

----------------------------------------------------------------------------
(***************************************************************************)
(* The scan threads of the devices.                                        *)
(***************************************************************************)
\* Nobody holds the device's lock_ shared for longer than a step but the
\* handler of a scan request, while it waits for mutex_.
Writable(d) == ~(At(Main, "push") /\ dev[Main] = d)

\* Mistake: the request is taken out of the queue here, too.
BeginScanPops(d) ==
    /\ At(d, "idle") /\ queue[d] > 0 /\ Go(d, "begin")
    /\ queue' = [queue EXCEPT ![d] = @ - 1]
    /\ UNCHANGED <<world, client, told, service, handler, bus, database, state,
                   available, count, cleanups, dev, back, list, history>>

BeginScan(d) ==
    /\ At(d, "idle") /\ queue[d] > 0 /\ Go(d, "begin")
    /\ UNCHANGED <<world, client, told, service, handler, bus, database,
                   device, dev, back, list, history>>

SetScanning(d) ==
    /\ At(d, "begin") /\ Writable(d) /\ Go(d, "walk")
    /\ state' = [state EXCEPT ![d] = "Scanning"]
    /\ left' = [left EXCEPT ![d] = {r \in world.files : Home[r] = d}]
    /\ UNCHANGED <<world, client, told, service, handler, bus, database,
                   available, queue, items, processed, puts, acks, cleanups,
                   dev, back, list, history>>

\* One file is counted, parsed and put to the database.
WalkFile(d) ==
    /\ At(d, "walk") /\ Writable(d)
    /\ \E r \in left[d] :
         /\ left' = [left EXCEPT ![d] = @ \ {r}]
         /\ puts' = [puts EXCEPT ![r] = @ + 1]
    /\ items' = [items EXCEPT ![d] = @ + 1]
    /\ UNCHANGED <<world, client, told, service, handler, bus, database, state,
                   available, queue, processed, acks, cleanups, thread, history>>

\* Mistake: notifyDeviceScanned is called here.
SetParsingNotifies(d) ==
    /\ At(d, "walk") /\ left[d] = {} /\ Writable(d)
    /\ state' = [state EXCEPT ![d] = "Parsing"]
    /\ at' = [at EXCEPT ![d] = "list",
                        ![Main] = IF @ = "wait" THEN "woken" ELSE @]
    /\ back' = [back EXCEPT ![d] = "check"]
    /\ UNCHANGED <<world, client, told, service, handler, bus, database,
                   available, queue, count, cleanups, dev, list, history>>

SetParsing(d) ==
    /\ At(d, "walk") /\ left[d] = {} /\ Writable(d)
    /\ state' = [state EXCEPT ![d] = "Parsing"]
    /\ Go(d, "list") /\ back' = [back EXCEPT ![d] = "check"]
    /\ UNCHANGED <<world, client, told, service, handler, bus, database,
                   available, queue, count, cleanups, dev, list, history>>

PopScan(d) ==
    /\ At(d, "pop") /\ Go(d, "idle")
    /\ queue' = [queue EXCEPT ![d] = @ - 1]
    /\ UNCHANGED <<world, client, told, service, handler, bus, database, state,
                   available, count, cleanups, dev, back, list, history>>

(***************************************************************************)
(* The connector's thread counts what the database has answered.           *)
(***************************************************************************)
TakePut(d) ==
    /\ At(Db, "idle") /\ acks[d] > 0 /\ Go(Db, "count")
    /\ acks' = [acks EXCEPT ![d] = @ - 1]
    /\ dev' = [dev EXCEPT ![Db] = d]
    /\ UNCHANGED <<world, client, told, service, handler, bus, database, state,
                   available, queue, left, items, processed, puts, cleanups,
                   back, list, history>>

CountPut ==
    /\ At(Db, "count") /\ Writable(dev[Db]) /\ Go(Db, "check")
    /\ processed' = [processed EXCEPT ![dev[Db]] = @ + 1]
    /\ UNCHANGED <<world, client, told, service, handler, bus, database, state,
                   available, queue, left, items, puts, acks, cleanups, dev,
                   back, list, history>>

(***************************************************************************)
(* processingDone, by either; pmtx_ is held until the list has been sent.  *)
(***************************************************************************)
Deciding(t, d) ==
    /\ dev[t] = d
    /\ \/ At(t, "notify")
       \/ Done(t) /\ (At(t, "list") \/ At(t, "send"))

ProcessingDone(t) ==
    /\ t \in Devices \cup {Db} /\ At(t, "check")
    /\ LET d == dev[t]
           rest == IF t = Db THEN "idle" ELSE "pop"
           all == state[d] = "Parsing" /\ items[d] = processed[d]
       IN  /\ \A u \in Devices \cup {Db} : ~Deciding(u, d)
           /\ all => Writable(d)
           /\ state' = IF all THEN [state EXCEPT ![d] = "Idle"] ELSE state
           /\ finished' = IF all /\ calm THEN finished \cup {d} ELSE finished
           /\ Go(t, IF all THEN "notify" ELSE rest)
           /\ back' = [back EXCEPT ![t] = rest]
    /\ UNCHANGED <<world, client, told, service, handler, bus, database,
                   available, queue, count, cleanups, dev, list, refused,
                   stale, calm, untrue, written>>

\* Mistake: the device list is not pushed.
NotifyScanDoneOnly(t) ==
    /\ At(t, "notify")
    /\ at' = [at EXCEPT ![t] = back[t],
                        ![Main] = IF @ = "wait" THEN "woken" ELSE @]
    /\ UNCHANGED <<world, client, told, service, handler, bus, database,
                   device, dev, back, list, history>>

\* notifyDeviceScanned: whoever waits for a scan is woken, of any device.
NotifyScanDone(t) ==
    /\ At(t, "notify")
    /\ at' = [at EXCEPT ![t] = "list",
                        ![Main] = IF @ = "wait" THEN "woken" ELSE @]
    /\ UNCHANGED <<world, client, told, service, handler, bus, database,
                   device, dev, back, list, history>>

(***************************************************************************)
(* A plugin discovers a device, on its own thread: deviceStateChanged.     *)
(***************************************************************************)
Attach(d) ==
    /\ At(Upnp, "idle") /\ d \notin available /\ Writable(d)
    /\ available' = available \cup {d}
    /\ state' = [state EXCEPT ![d] = "Idle"]
    /\ Go(Upnp, "list") /\ back' = [back EXCEPT ![Upnp] = "unmark"]
    /\ dev' = [dev EXCEPT ![Upnp] = d]
    /\ calm' = FALSE /\ finished' = {}
    /\ UNCHANGED <<world, client, told, service, handler, bus, database, queue,
                   count, cleanups, list, refused, stale, untrue, written>>

\* unmarkAllDirty, and the device's counts are reset.
Unmark ==
    /\ At(Upnp, "unmark") /\ Go(Upnp, "rescan")
    /\ dirty' = {r \in dirty : Home[r] # dev[Upnp]}
    /\ items' = [items EXCEPT ![dev[Upnp]] = 0]
    /\ processed' = [processed EXCEPT ![dev[Upnp]] = 0]
    /\ UNCHANGED <<world, client, told, service, handler, bus, rows, granted,
                   state, available, queue, left, puts, acks, cleanups, dev,
                   back, list, history>>

Rescan ==
    /\ At(Upnp, "rescan") /\ Scan(Upnp) /\ Go(Upnp, "idle")
    /\ UNCHANGED <<world, client, told, service, handler, bus, database, state,
                   available, count, cleanups, dev, back, list, history>>

----------------------------------------------------------------------------
HandleRequest(i) ==
    \/ Reject(i) \/ OnPluginListGet(i)
    \/ OnAudioListGet(i) \/ OnVideoListGet(i) \/ OnImageListGet(i)
    \/ OnAudioMetadataGet(i) \/ OnVideoMetadataGet(i)
    \/ OnImageMetadataGet(i) \/ OnRequestDelete(i)
    \/ OnMediaDbPermissionGet(i) \/ OnDeviceListGet(i)
    \/ OnRequestMediaScan(i)
RunHandler ==
    \/ Denied \/ LockDevice \/ PushScan \/ NothingToScan \/ WaitForScan
    \/ TimeOut \/ Woken
ScanLoop(d) ==
    \/ BeginScan(d) \/ SetScanning(d) \/ WalkFile(d) \/ SetParsing(d)
    \/ PopScan(d)

Running ==
    \/ \E c \in Clients : GoOn(c)
    \/ \E i \in asked : HandleRequest(i)
    \/ \E m \in results : HandleResult(m)
    \/ RunHandler
    \/ \E d \in Devices : ScanLoop(d) \/ Clean(d)
    \/ CountPut \/ Unmark \/ Rescan
    \/ \E t \in Threads : BuildList(t) \/ SendList(t) \/ ProcessingDone(t)
                          \/ NotifyScanDone(t)

Environment ==
    \/ \E c \in Clients : Send(c) \/ CallDirectly(c)
    \/ \E i \in subs : Cancel(i)
    \/ \E q \in queries : Answer(q)
    \/ \E g \in grants : AnswerGrant(g)
    \/ WakeUp
    \/ \E r \in Items : WriteRow(r)
    \/ \E d \in Devices : TakePut(d) \/ Attach(d)

Next == Running \/ Environment

Spec == Init /\ [][Next]_vars

\* The process keeps running; that the database answers, or clients send,
\* is not assumed.
FairSpec == Spec /\ WF_vars(Running)

----------------------------------------------------------------------------
\* The variables keep to their types.
TypeOK ==
    /\ asked \cup subs \cup held \cup clients \cup refused \cup stale \subseteq Ids
    /\ \A i \in Ids : \A k \in DOMAIN replies[i] :
           replies[i][k].ok \in BOOLEAN /\ replies[i][k].rows \subseteq Items
    /\ dbClients \in Seq(Clients) /\ granted \subseteq Clients
    /\ req \in Ids \cup {None} /\ scanned \subseteq Devices
    /\ \A q \in queries \cup {m.q : m \in results} :
           q.after \in 0 .. Len(Rows) /\ q.for \in Ids \cup {None}
    /\ state \in [Devices -> {"Inactive", "Idle", "Scanning", "Parsing"}]
    /\ left \in [Devices -> SUBSET Items] /\ items \in [Devices -> Nat]
    /\ processed \in [Devices -> Nat] /\ puts \in [Items -> Nat]
    /\ acks \in [Devices -> Nat] /\ written \subseteq Ids \X Items
    /\ queue \in [Devices -> Nat] /\ available \subseteq Devices
    /\ at \in [Threads -> {"idle", "list", "send", "check", "notify", "pop",
                           "begin", "walk", "count", "unmark", "rescan",
                           "grant", "denied", "lock", "push", "wait", "woken"}]
    /\ Main \in Threads => (At(Main, "idle") <=> req = None)

\* Nothing is left to do for the process; the database may owe answers.
Quiet ==
    /\ \A t \in Threads : At(t, "idle")
    /\ asked = {} /\ results = {} /\ (world.cleans => cleanups = {})
    /\ \A d \in Devices : queue[d] = 0

Out == queries \cup {m.q : m \in results}

\* A message that the service holds a reference to has a query out whose
\* result will be its only reply, and the reverse; only a query the bus has
\* refused leaves its message without.
ReferencesAreReplies ==
    /\ \A i \in held : /\ replies[i] = <<>>
                       /\ i \in refused \/ \E q \in Out : q.obj = i
    /\ \A q \in Out : q.obj \in held \cup {None}
    /\ \A i \in Ids :
         /\ Asked(i).op \in {"list", "meta", "delete"} /\ ~Asked(i).sub
            => Len(replies[i]) <= 1
         /\ Asked(i).payload = "lacking" /\ Asked(i).op # "permission"
            => replies[i] = <<>>

\* What a subscriber has been told so far.
Told(i) == UNION {replies[i][k].rows : k \in DOMAIN replies[i]}

\* What has been there ever since a list was asked for, or a delete was done.
Kept(i) == {r \in rows : <<i, r>> \notin written}
Removed(i) == \A r \in Kept(i) : ~(r \in Asked(i).uri /\ Kind[r] = Asked(i).kind)

Wanted(i) == {r \in Kept(i) \ world.dirty : r \in Asked(i).uri
                                            /\ Kind[r] = Asked(i).kind}

\* Once the database has answered everything, a subscriber to a list has
\* been told of all items that it asked for and that have been there since,
\* page after page, whoever else subscribed, unsubscribed, deleted or scanned
\* meanwhile.
SubscribersLearnAll ==
    \A i \in subs \ refused :
        Asked(i).op = "list" /\ (\A q \in Out : q.for # i)
            => Wanted(i) \subseteq Told(i)

\* What was not asked for comes from a subscription to the same method.
StrangersShareTheMethod ==
    \A i \in Ids : \A r \in Told(i) \ Asked(i).uri :
        \E j \in Ids : /\ Asked(j).op = Asked(i).op /\ Asked(j).sub
                       /\ Asked(j).kind = Asked(i).kind /\ r \in Asked(j).uri

\* No reply claims what is not so: a scan that was requested while nothing
\* was going on, and is reported done because of a notification, with nothing
\* discovered meanwhile, has been done for a device it was requested for; who
\* is told that permission is given has it; and of what was deleted on request
\* there is only what a scan has written since it was deleted.
RepliesAreTrue ==
    /\ untrue = {}
    /\ \A i \in Ids : \A k \in DOMAIN replies[i] :
         replies[i][k].ok =>
           /\ replies[i][k].what = "permission" => Sender(i) \in granted
           /\ replies[i][k].what = "deleted" /\ ~Asked(i).sub => Removed(i)

\* When all is quiet, subscribers to the device list have been sent the
\* states as they are - but for lists that were out of date when they were
\* sent, because they are built before mutex_ is taken.
SubscribersSeeStates ==
    Quiet => \A i \in Listeners : shown[i] = Shown \/ i \in stale

\* The handler of a scan request holds lock_ of the device, shared, and waits
\* for mutex_; the scan thread has mutex_ and waits for lock_.
Crossed == At(Main, "push") /\ ~At(dev[Main], "idle")

\* Whatever the database answers, and however late, requests are served and
\* threads return, again and again - but for a scan request that crosses the
\* scan of the same device.
RequestsReturn == []<>(Quiet \/ Crossed)

----------------------------------------------------------------------------
(***************************************************************************)
(* Inductive invariants, named part by part.                               *)
(***************************************************************************)
\* Requests that are not sent yet, and those that nobody has looked at.
Unsent == {i \in Ids : i[2] > Len(world.jobs[i[1]]) - Len(todo[i[1]])}
Untouched == Unsent \cup asked

\* What a client has still to ask is the rest of its jobs.
ClientsInv ==
    /\ world \in Worlds
    /\ todo \in [Clients -> Seq(Request)]
    /\ \A c \in Clients :
         /\ Len(todo[c]) <= Len(world.jobs[c])
         /\ \A k \in 1 .. Len(todo[c]) :
              todo[c][k] = world.jobs[c][Len(world.jobs[c]) - Len(todo[c]) + k]
    /\ asked \subseteq Ids \ Unsent
    /\ replies = [i \in Ids |-> replies[i]]

\* A request is told nothing, kept nowhere and asked for by no query before it
\* is handled; after that it is replied to as often as its kind allows.
RequestsInv ==
    /\ \A i \in Untouched :
         replies[i] = <<>> /\ i \notin held /\ i \notin subs /\ i # req
    /\ \A i \in subs :
         /\ i \in Ids /\ Asked(i).sub /\ Asked(i).payload = "ok"
         /\ Asked(i).op \in {"list", "delete", "devices"}
    /\ \A i \in held :
         /\ i \in Ids /\ Asked(i).payload = "ok"
         /\ Asked(i).op = "meta" \/ ~Asked(i).sub
    /\ req \in Ids =>
         /\ Asked(req).payload = "ok"
         /\ Asked(req).op \in {"permission", "devices", "scan"}
         /\ req \notin held

\* A query is a record of its fields; no two are for one message, and those of
\* the clean-up are for none.
QueriesInv ==
    /\ \A q \in Out :
         /\ q = [op |-> q.op, for |-> q.for, obj |-> q.obj, kind |-> q.kind,
                 uri |-> q.uri, limit |-> q.limit, after |-> q.after]
         /\ q.op \in {"clean", "remove"} => q.obj = None
    /\ \A p, q \in queries : p.obj = q.obj /\ q.obj # None => p = q
    /\ \A m, n \in results : m.q.obj = n.q.obj /\ n.q.obj # None => m = n
    /\ \A q \in queries, m \in results : q.obj = m.q.obj => q.obj = None

ReferencesInv == /\ ClientsInv /\ RequestsInv /\ QueriesInv
                 /\ ReferencesAreReplies

\* Each thread has its own steps, and knows the device it works for; a scan is
\* requested for as long as the thread of the device is not idle, and the main
\* loop has a request for as long as it is not.
StepsOf(t) ==
    IF t = Main THEN {"idle", "grant", "denied", "list", "send", "lock",
                      "push", "wait", "woken"}
    ELSE IF t = Db THEN {"idle", "count", "check", "notify", "list", "send"}
    ELSE IF t = Upnp THEN {"idle", "list", "send", "unmark", "rescan"}
    ELSE {"idle", "begin", "walk", "list", "send", "check", "notify", "pop"}
BackOf(t) == IF t \in {Main, Db} THEN {"idle"}
             ELSE IF t = Upnp THEN {"idle", "unmark"}
             ELSE {"idle", "check", "pop"}
StepsInv ==
    /\ at = [t \in Threads |-> at[t]] /\ back = [t \in Threads |-> back[t]]
    /\ \A t \in Threads : at[t] \in StepsOf(t) /\ back[t] \in BackOf(t)
    /\ dev \in [Threads -> Devices \cup {None}]
    /\ \A d \in Devices : dev[d] = d /\ (at[d] # "idle" => queue[d] > 0)
    /\ At(Main, "push") => dev[Main] \in Devices
    /\ \A t \in {Db, Upnp} : at[t] # "idle" => dev[t] \in Devices
    /\ req \in Ids \cup {None} /\ (At(Main, "idle") <=> req = None)
    /\ plugins \in Seq(Seq(Devices)) /\ scanned \subseteq Devices
    /\ available \subseteq Devices
    /\ state \in [Devices -> {"Inactive", "Idle", "Scanning", "Parsing"}]
    /\ queue \in [Devices -> Nat] /\ left \in [Devices -> SUBSET Items]
    /\ \A d \in Devices : \A r \in left[d] : Home[r] = d
    /\ items \in [Devices -> Nat] /\ processed \in [Devices -> Nat]
    /\ puts \in [Items -> Nat] /\ acks \in [Devices -> Nat]
    /\ stale \subseteq Ids

\* A query asks for what its request asked for, and a result holds some of it;
\* what a delete was to remove is gone, or has been written since.  A permission
\* is asked for its sender.
DatabaseInv ==
    /\ rows \subseteq Items /\ dirty \subseteq world.dirty
    /\ granted \subseteq Clients /\ dbClients \in Seq(Clients)
    /\ refused \subseteq Ids /\ written \subseteq Ids \X Items /\ clients = {}
    /\ \A g \in grants : g.names \subseteq Clients /\ Sender(g.for) \in g.names
    /\ \A q \in Out :
         /\ q.after \in 0 .. Len(Rows) /\ q.for \in Ids \cup {None}
         /\ q.op \in {"list", "meta", "delete"} =>
              /\ q.for \in Ids
              /\ q.op = Asked(q.for).op /\ q.uri = Asked(q.for).uri
              /\ q.kind = Asked(q.for).kind
              /\ q.obj = q.for \/ (q.obj = None /\ Asked(q.for).sub)
    /\ \A m \in results :
         /\ m.ok \in BOOLEAN /\ m.page \in SUBSET (1 .. Len(Rows))
         /\ m.more => m.page # {}
         /\ ItemsAt(m.page) \subseteq m.q.uri
         /\ m.q.op = "delete" => Removed(m.q.for)

Replies == [what : {"error", "refused", "subscribed", "found", "page", "meta",
                    "deleted", "permission", "devices", "plugins", "scan"},
            ok : BOOLEAN, rows : SUBSET Items]
RepliesInv ==
    /\ replies \in [Ids -> Seq(Replies)] /\ StrangersShareTheMethod
    /\ \A i \in Ids : \A k \in DOMAIN replies[i] :
         replies[i][k].ok =>
           /\ replies[i][k].what = "permission" => Sender(i) \in granted
           /\ replies[i][k].what = "deleted" /\ ~Asked(i).sub => Removed(i)

\* What a subscriber to a list has not been told is in a result, or behind the
\* page that a query or a result asks for next.
WantedTo(i, n) == Wanted(i) \cap ItemsAt(1 .. n)
Asks(q, i) == q.for = i /\ q.op = "list" /\ q.obj = None
LearningInv ==
    \A i \in subs \ refused : Asked(i).op = "list" =>
        \/ Wanted(i) \subseteq Told(i)
        \/ \E q \in queries :
             Asks(q, i) /\ WantedTo(i, q.after) \subseteq Told(i)
        \/ \E m \in results :
             /\ Asks(m.q, i)
             /\ (IF m.more THEN WantedTo(i, LastPosition(m)) ELSE Wanted(i))
                  \subseteq Told(i) \cup ItemsAt(m.page)

\* While the main loop has a scan request that began in a calm, all that the
\* other threads do is for devices that it told to scan.
CalmInv ==
    /\ untrue = {}
    /\ calm =>
         /\ At(Upnp, "idle")
         /\ \A d \in Devices : queue[d] > 0 \/ acks[d] > 0 => d \in scanned
         /\ \A r \in Items : puts[r] > 0 => Home[r] \in scanned
         /\ ~At(Db, "idle") => dev[Db] \in scanned
         /\ \A t \in Devices \cup {Db} :
              At(t, "notify") => dev[t] \in finished \cap scanned
         /\ At(Main, "woken") => scanned \cap finished # {}

\* A subscriber that has not been sent the states as they are will be: by a
\* thread that has changed them, or as the request of the main loop.
WillSend(t) == \/ At(t, "walk") \/ At(t, "notify")
               \/ At(t, "list") \/ At(t, "send")
SeenInv ==
    \A i \in Listeners :
        \/ shown[i] = Shown \/ i \in stale
        \/ \E t \in Threads \ {Main} : WillSend(t)
        \/ req = i /\ (WillSend(Main) \/ At(Main, "grant") \/ At(Main, "denied"))
=============================================================================
