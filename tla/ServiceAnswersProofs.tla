------------------------ MODULE ServiceAnswersProofs ------------------------
(***************************************************************************)
(* What the service answers is true and complete: the steps of its threads *)
(* and the types of its variables, what queries and their results hold,    *)
(* what replies say, what subscribers are told, for any requests, items,   *)
(* devices and plugins.                                                    *)
(***************************************************************************)
EXTENDS ServiceRequestsProofs, FiniteSetTheorems

-----------------------------------------------------------------------------
(* Names.                                                                  *)

LEMMA NamesDiffer ==
    /\ Main \notin Devices /\ Db \notin Devices /\ Upnp \notin Devices
    /\ Main # Db /\ Main # Upnp /\ Db # Upnp /\ None \notin Devices
    /\ None # Main
    /\ Main \in Threads /\ Db \in Threads /\ Upnp \in Threads
    /\ Devices \subseteq Threads
  <1>1. ASSUME NEW a, NEW b, NEW c
        PROVE  Cardinality({a, b, c}) \in Nat /\ Cardinality({a, b, c}) <= 3
    <2>1. /\ IsFiniteSet({}) /\ Cardinality({}) = 0
      BY FS_EmptySet
    <2>2. /\ IsFiniteSet({} \cup {a}) /\ Cardinality({} \cup {a}) = 1
      BY <2>1, FS_AddElement
    <2>3. /\ IsFiniteSet({a} \cup {b})
          /\ Cardinality({a} \cup {b}) \in {1, 2}
      BY <2>2, FS_AddElement
    <2>4. /\ IsFiniteSet({a, b} \cup {c})
          /\ Cardinality({a, b} \cup {c}) \in {1, 2, 3}
      BY <2>3, FS_AddElement
    <2>5. {a, b} \cup {c} = {a, b, c}
      OBVIOUS
    <2> QED
      BY <2>4, <2>5
  <1>2. Cardinality({Main, Db, Upnp, None}) = 4
    BY NamesAssumption
  <1>3. \A S : Cardinality(S) = 4 => ~(Cardinality(S) <= 3)
    OBVIOUS
  <1>4. Main # Db
    <2>1. Main = Db => {Main, Db, Upnp, None} = {Main, Upnp, None}
      OBVIOUS
    <2> QED
      BY <1>1, <1>2, <1>3, <2>1
  <1>5. Main # Upnp
    <2>1. Main = Upnp => {Main, Db, Upnp, None} = {Main, Db, None}
      OBVIOUS
    <2> QED
      BY <1>1, <1>2, <1>3, <2>1
  <1>6. Db # Upnp
    <2>1. Db = Upnp => {Main, Db, Upnp, None} = {Main, Db, None}
      OBVIOUS
    <2> QED
      BY <1>1, <1>2, <1>3, <2>1
  <1>7. None # Main
    <2>1. None = Main => {Main, Db, Upnp, None} = {Main, Db, Upnp}
      OBVIOUS
    <2> QED
      BY <1>1, <1>2, <1>3, <2>1
  <1> QED
    BY <1>4, <1>5, <1>6, <1>7, NamesAssumption DEF Threads

-----------------------------------------------------------------------------
(* The threads and the devices.                                            *)

Typed == /\ plugins \in Seq(Seq(Devices)) /\ scanned \subseteq Devices
         /\ available \subseteq Devices
         /\ state \in [Devices -> {"Inactive", "Idle", "Scanning", "Parsing"}]
         /\ queue \in [Devices -> Nat] /\ left \in [Devices -> SUBSET Items]
         /\ (\A d \in Devices : \A r \in left[d] : Home[r] = d)
         /\ items \in [Devices -> Nat] /\ processed \in [Devices -> Nat]
         /\ puts \in [Items -> Nat] /\ acks \in [Devices -> Nat]
         /\ stale \subseteq Ids

LEMMA StepsAre ==
    ASSUME StepsInv
    PROVE  /\ at[Main] \in {"idle", "grant", "denied", "list", "send", "lock",
                            "push", "wait", "woken"}
           /\ at[Db] \in {"idle", "count", "check", "notify", "list", "send"}
           /\ at[Upnp] \in {"idle", "list", "send", "unmark", "rescan"}
           /\ \A d \in Devices :
                at[d] \in {"idle", "begin", "walk", "list", "send", "check",
                           "notify", "pop"}
           /\ back[Main] = "idle" /\ back[Db] = "idle"
           /\ back[Upnp] \in {"idle", "unmark"}
           /\ \A d \in Devices : back[d] \in {"idle", "check", "pop"}
  BY NamesDiffer DEF StepsInv, StepsOf, BackOf

\* A thread goes to a step of its own, and the main loop gets or ends its
\* request with it.
LEMMA Moves ==
    ASSUME StepsInv, NEW t \in Threads, NEW s \in StepsOf(t), world' = world,
           at' = [at EXCEPT ![t] = s],
           back' = back \/ \E b \in BackOf(t) : back' = [back EXCEPT ![t] = b],
           dev' = dev \/ (/\ t \notin Devices
                          /\ \E d \in Devices \cup {None} :
                               dev' = [dev EXCEPT ![t] = d]),
           \A d \in Devices : d # t /\ at[d] # "idle" => queue'[d] > 0,
           t \in Devices /\ s # "idle" => queue'[t] > 0,
           t = Main /\ s = "push" => dev'[Main] \in Devices,
           t \in {Db, Upnp} /\ s # "idle" => dev'[t] \in Devices,
           IF t = Main THEN s = "idle" <=> req' = None ELSE req' = req,
           req' \in Ids \cup {None}, Typed'
    PROVE  StepsInv'
  <1>1. Ids' = Ids
    BY SameWorld
  <1>2. /\ at' = [u \in Threads |-> at'[u]]
        /\ back' = [u \in Threads |-> back'[u]]
        /\ dev' \in [Threads -> Devices \cup {None}]
    <2>1. at' = [u \in Threads |-> at'[u]]
      BY DEF StepsInv
    <2>2. back' = [u \in Threads |-> back'[u]]
      <3>1. CASE back' = back
        BY <3>1 DEF StepsInv
      <3>2. ASSUME NEW b, back' = [back EXCEPT ![t] = b]
            PROVE  back' = [u \in Threads |-> back'[u]]
        BY <3>2 DEF StepsInv
      <3> QED
        BY <3>1, <3>2
    <2>3. dev' \in [Threads -> Devices \cup {None}]
      BY DEF StepsInv
    <2> QED
      BY <2>1, <2>2, <2>3
  <1>3. /\ \A u \in Threads : at'[u] = IF u = t THEN s ELSE at[u]
        /\ \A u \in Threads : u # t => dev'[u] = dev[u] /\ back'[u] = back[u]
        /\ t \in Devices => dev' = dev
        /\ back'[t] \in BackOf(t)
    <2>1. \A u \in Threads : at'[u] = IF u = t THEN s ELSE at[u]
      BY DEF StepsInv
    <2>2. /\ \A u \in Threads : u # t => dev'[u] = dev[u]
          /\ t \in Devices => dev' = dev
      BY DEF StepsInv
    <2>3. \A u \in Threads : (u # t => back'[u] = back[u])
                             /\ back'[t] \in BackOf(t)
      <3>1. CASE back' = back
        BY <3>1 DEF StepsInv
      <3>2. ASSUME NEW b \in BackOf(t), back' = [back EXCEPT ![t] = b]
            PROVE  \A u \in Threads : (u # t => back'[u] = back[u])
                                      /\ back'[t] \in BackOf(t)
        BY <3>2 DEF StepsInv
      <3> QED
        BY <3>1, <3>2
    <2> QED
      BY <2>1, <2>2, <2>3
  <1>4. \A u \in Threads : at'[u] \in StepsOf(u) /\ back'[u] \in BackOf(u)
    BY <1>3 DEF StepsInv
  <1>5. \A d \in Devices : dev'[d] = d /\ (at'[d] # "idle" => queue'[d] > 0)
    BY <1>3, NamesDiffer DEF StepsInv
  <1>6. at'[Main] = "push" => dev'[Main] \in Devices
    BY <1>3, NamesDiffer DEF StepsInv, At
  <1>7. \A u \in {Db, Upnp} : at'[u] # "idle" => dev'[u] \in Devices
    BY <1>3, NamesDiffer DEF StepsInv
  <1>8. req' \in Ids' \cup {None} /\ (at'[Main] = "idle" <=> req' = None)
    BY <1>1, <1>3, NamesDiffer DEF StepsInv, At
  <1> QED
    BY <1>2, <1>4, <1>5, <1>6, <1>7, <1>8 DEF StepsInv, Typed, At

LEMMA StepsStay ==
    ASSUME StepsInv,
           UNCHANGED <<world, req, plugins, scanned, available, state, queue,
                       count, at, dev, back, stale>>
    PROVE  StepsInv'
  <1>1. Ids' = Ids
    BY SameWorld
  <1> QED
    BY <1>1 DEF StepsInv, At, count

LEMMA IsTyped ==
    ASSUME StepsInv
    PROVE  Typed
  BY DEF StepsInv, Typed

\* The main loop takes a request that blocks it.
LEMMA RequestSteps ==
    ASSUME ReferencesInv, StepsInv, NEW i \in asked, HandleRequest(i)
    PROVE  StepsInv'
  <1> USE DEF client, told, service, handler, bus, database, device, thread,
              count, history
  <1>1. i \in Ids /\ None \notin Ids
    BY NotHandled, IdsAre
  <1>2. CASE OnMediaDbPermissionGet(i) \/ OnDeviceListGet(i)
    <2>1. PICK s \in {"grant", "denied", "list"} : at' = [at EXCEPT ![Main] = s]
      <3>1. CASE OnMediaDbPermissionGet(i)
        BY <3>1 DEF OnMediaDbPermissionGet, GrantAccessAll, Go, Taken
      <3>2. CASE OnDeviceListGet(i)
        BY <3>2 DEF OnDeviceListGet, GrantAccessAll, Go, Taken
      <3> QED
        BY <1>2, <3>1, <3>2
    <2>2. /\ req' = i
          /\ UNCHANGED <<world, plugins, scanned, available, state, queue,
                         count, dev, back, stale>>
      BY <1>2 DEF OnMediaDbPermissionGet, OnDeviceListGet
    <2>3. Typed'
      BY <2>2, IsTyped, SameWorld DEF Typed
    <2>4. s \in StepsOf(Main) /\ s # "idle" /\ s # "push"
      BY DEF StepsOf
    <2>5. \A d \in Devices : at[d] # "idle" => queue'[d] > 0
      BY <2>2 DEF StepsInv
    <2> QED
      BY <1>1, <2>1, <2>2, <2>3, <2>4, <2>5, NamesDiffer, Moves
  <1>3. CASE OnRequestMediaScan(i)
    <2>1. /\ at' = [at EXCEPT ![Main] = "lock"]
          /\ req' = i /\ plugins' = Plugins /\ scanned' = {}
          /\ UNCHANGED <<world, available, state, queue, count, dev, back, stale>>
      BY <1>3 DEF OnRequestMediaScan, Go
    <2>2. Typed'
      BY <2>1, IsTyped, SameWorld, PluginsAssumption DEF Typed
    <2>3. "lock" \in StepsOf(Main)
      BY DEF StepsOf
    <2>4. \A d \in Devices : at[d] # "idle" => queue'[d] > 0
      BY <2>1 DEF StepsInv
    <2> QED
      BY <1>1, <2>1, <2>2, <2>3, <2>4, NamesDiffer, Moves
  <1>4. CASE ~(OnMediaDbPermissionGet(i) \/ OnDeviceListGet(i)
               \/ OnRequestMediaScan(i))
    <2>1. UNCHANGED <<world, req, plugins, scanned, available, state, queue,
                      count, at, dev, back, stale>>
      <3>1. CASE Reject(i) \/ OnPluginListGet(i)
        BY <3>1 DEF Reject, OnPluginListGet
      <3>2. CASE \E op, kind : AskFor(i, op, kind)
        BY <3>2 DEF AskFor
      <3>3. CASE \E kind : AskForMeta(i, kind)
        BY <3>3 DEF AskForMeta
      <3> QED
        BY <1>4, <3>1, <3>2, <3>3 DEF HandleRequest, OnAudioListGet,
           OnVideoListGet, OnImageListGet, OnAudioMetadataGet,
           OnVideoMetadataGet, OnImageMetadataGet, OnRequestDelete
    <2> QED
      BY <2>1, StepsStay
  <1> QED
    BY <1>2, <1>3, <1>4

-----------------------------------------------------------------------------
(* The least and the greatest of some numbers.                             *)

LEMMA LeastIs ==
    ASSUME NEW S \in SUBSET Nat, S # {}
    PROVE  Min(S) \in S /\ \A n \in S : Min(S) <= n
  <1>1. PICK x \in S : \A y \in S : <<y, x>> \notin OpToRel(<, Nat)
    BY NatLessThanWellFounded, WFMin
  <1>2. \A y \in S : x <= y
    <2>1. OpToRel(<, Nat) = {ss \in Nat \X Nat : ss[1] < ss[2]}
      BY Zenon DEF OpToRel
    <2>2. ASSUME NEW y \in S, y < x PROVE <<y, x>> \in OpToRel(<, Nat)
      <3>1. <<y, x>> \in Nat \X Nat /\ <<y, x>>[1] < <<y, x>>[2]
        BY <2>2
      <3> QED
        BY <2>1, <3>1
    <2>3. \A y \in S : y \in Nat /\ ~(y < x)
      BY <1>1, <2>2
    <2>4. x \in Nat
      OBVIOUS
    <2> QED
      BY <2>3, <2>4
  <1> QED
    BY <1>2 DEF Min

LEMMA GreatestIs ==
    ASSUME NEW n \in Nat, NEW S \in SUBSET (0 .. n), S # {}
    PROVE  Max(S) \in S /\ \A k \in S : k <= Max(S)
  <1> DEFINE T == {k \in 0 .. n : n - k \in S}
  <1>1. T \in SUBSET Nat /\ T # {}
    <2>1. PICK k \in S : TRUE
      OBVIOUS
    <2>2. n - k \in 0 .. n /\ n - (n - k) = k
      BY <2>1
    <2>3. n - k \in T
      BY <2>2
    <2>4. T \subseteq Nat
      OBVIOUS
    <2> QED
      BY <2>3, <2>4
  <1>2. Min(T) \in T /\ \A k \in T : Min(T) <= k
    BY <1>1, LeastIs
  <1>3. PICK x : x = n - Min(T) /\ x \in S
    BY <1>2
  <1>4. \A k \in S : k <= x
    <2>1. ASSUME NEW k \in S PROVE Min(T) <= n - k
      <3>1. n - k \in 0 .. n /\ n - (n - k) = k
        OBVIOUS
      <3> QED
        BY <1>2, <3>1
    <2> HIDE DEF T
    <2>2. Min(T) \in Nat
      BY <1>1, <1>2
    <2> QED
      BY <1>3, <2>1, <2>2
  <1> QED
    BY <1>3, <1>4 DEF Max

-----------------------------------------------------------------------------
(* The steps of the main loop's handlers.                                  *)

LEMMA FirstToScanIs ==
    ASSUME StepsInv, plugins # <<>>, ToScan # {}
    PROVE  /\ FirstToScan \in Devices \cap available
           /\ FirstToScan \in Asked(req).path
  <1>1. Head(plugins) \in Seq(Devices)
    BY DEF StepsInv
  <1>2. ToScan \subseteq DOMAIN Head(plugins)
    BY DEF ToScan
  <1>3. ToScan \in SUBSET Nat
    BY <1>1, <1>2
  <1>4. Min(ToScan) \in ToScan
    BY <1>3, LeastIs
  <1>5. FirstToScan \in Devices
    BY <1>1, <1>2, <1>4 DEF FirstToScan
  <1>6. FirstToScan \in available \cap Asked(req).path
    BY <1>4 DEF FirstToScan, ToScan
  <1> QED
    BY <1>5, <1>6

LEMMA HandlerSteps ==
    ASSUME StepsInv,
           \/ Denied \/ LockDevice \/ PushScan \/ NothingToScan \/ WaitForScan
           \/ TimeOut \/ Woken \/ WakeUp
    PROVE  StepsInv'
  <1> USE DEF client, told, service, handler, bus, database, device, thread,
              count, history, At, Go
  <1>1. \A d \in Devices : at[d] # "idle" => queue[d] > 0
    BY DEF StepsInv
  <1>2. Typed /\ req \in Ids \cup {None} /\ None \notin Ids
    BY IsTyped, IdsAre DEF StepsInv
  <1>3. CASE Denied
    <2>1. PICK s \in {"idle", "list"} :
             /\ at' = [at EXCEPT ![Main] = s]
             /\ IF s = "idle" THEN req' = None ELSE req' = req
      BY <1>3 DEF Denied, EndGrant
    <2>2. /\ UNCHANGED <<world, plugins, scanned, available, state, queue,
                         count, dev, back, stale>>
          /\ at[Main] # "idle"
      BY <1>3 DEF Denied
    <2>3. Typed'
      BY <1>2, <2>2, SameWorld DEF Typed
    <2>4. s \in StepsOf(Main) /\ s # "push"
      BY DEF StepsOf
    <2>5. s = "idle" <=> req' = None
      BY <2>1, <2>2 DEF StepsInv
    <2>6. req' \in Ids \cup {None}
      BY <1>2, <2>1
    <2> QED
      BY <1>1, <2>1, <2>2, <2>3, <2>4, <2>5, <2>6, NamesDiffer, Moves
  <1>4. CASE LockDevice
    <2>1. at[Main] # "idle" /\ req # None
      BY <1>4 DEF LockDevice, StepsInv
    <2>2. UNCHANGED <<world, req, scanned, available, state, queue, left, puts,
                      acks, back, stale>>
      BY <1>4 DEF LockDevice
    <2>3. plugins' \in Seq(Seq(Devices))
      BY <1>2, <1>4 DEF LockDevice, Typed
    <2>4. CASE ToScan = {}
      <3>1. UNCHANGED <<at, dev, items, processed>>
        BY <1>4, <2>4 DEF LockDevice
      <3>2. Ids' = Ids
        BY <2>2, SameWorld
      <3> QED
        BY <2>2, <2>3, <3>1, <3>2 DEF StepsInv
    <2>5. CASE ToScan # {}
      <3>1. FirstToScan \in Devices
        BY <1>4, <2>5, FirstToScanIs DEF LockDevice
      <3>2. /\ at' = [at EXCEPT ![Main] = "push"]
            /\ dev' = [dev EXCEPT ![Main] = FirstToScan]
            /\ items' = [items EXCEPT ![FirstToScan] = 0]
            /\ processed' = [processed EXCEPT ![FirstToScan] = 0]
        BY <1>4, <2>5 DEF LockDevice
      <3>3. Typed'
        BY <1>2, <2>2, <2>3, <3>2, SameWorld DEF Typed
      <3>4. "push" \in StepsOf(Main)
        BY DEF StepsOf
      <3>5. dev'[Main] = FirstToScan
        BY <3>2, NamesDiffer DEF StepsInv
      <3> QED
        BY <1>1, <1>2, <2>1, <2>2, <3>1, <3>2, <3>3, <3>4, <3>5, NamesDiffer,
           Moves
    <2> QED
      BY <2>4, <2>5
  <1>5. CASE PushScan
    <2>1. /\ at' = [at EXCEPT ![Main] = "lock"] /\ at[Main] = "push"
          /\ scanned' = scanned \cup {dev[Main]}
          /\ queue' = [queue EXCEPT ![dev[Main]] = @ + 1]
          /\ UNCHANGED <<world, req, plugins, available, state, count, dev,
                         back, stale>>
      BY <1>5 DEF PushScan, Scan
    <2>2. dev[Main] \in Devices /\ req # None
      BY <2>1 DEF StepsInv
    <2>3. Typed'
      BY <1>2, <2>1, <2>2, SameWorld DEF Typed
    <2>4. "lock" \in StepsOf(Main)
      BY DEF StepsOf
    <2>5. \A d \in Devices : at[d] # "idle" => queue'[d] > 0
      BY <1>1, <1>2, <2>1, <2>2 DEF Typed
    <2> QED
      BY <1>2, <2>1, <2>2, <2>3, <2>4, <2>5, NamesDiffer, Moves
  <1>6. CASE WaitForScan
    <2>1. /\ at' = [at EXCEPT ![Main] = "wait"] /\ at[Main] = "lock"
          /\ UNCHANGED <<world, req, plugins, scanned, available, state, queue,
                         count, dev, back, stale>>
      BY <1>6 DEF WaitForScan
    <2>2. req # None
      BY <2>1 DEF StepsInv
    <2>3. Typed'
      BY <1>2, <2>1, SameWorld DEF Typed
    <2>4. "wait" \in StepsOf(Main)
      BY DEF StepsOf
    <2> QED
      BY <1>1, <1>2, <2>1, <2>2, <2>3, <2>4, NamesDiffer, Moves
  <1>7. CASE NothingToScan \/ TimeOut \/ Woken \/ WakeUp
    <2>1. /\ at' = [at EXCEPT ![Main] = "idle"] /\ req' = None
          /\ scanned' = {} /\ dev' = [dev EXCEPT ![Main] = None]
          /\ UNCHANGED <<world, plugins, available, state, queue, count, back,
                         stale>>
      BY <1>7 DEF NothingToScan, TimeOut, Woken, WakeUp, EndScan
    <2>2. Typed'
      BY <1>2, <2>1, SameWorld DEF Typed
    <2>3. "idle" \in StepsOf(Main)
      BY DEF StepsOf
    <2> QED
      BY <1>1, <1>2, <2>1, <2>2, <2>3, NamesDiffer, Moves
  <1> QED
    BY <1>3, <1>4, <1>5, <1>6, <1>7

LEMMA GrantSteps ==
    ASSUME StepsInv, NEW g, AnswerGrant(g)
    PROVE  StepsInv'
  <1> USE DEF client, told, service, handler, bus, database, device, thread,
              count, history, At, Go
  <1>1. UNCHANGED <<world, plugins, scanned, available, state, queue, count, dev,
                    back, stale>>
    BY DEF AnswerGrant
  <1>2. CASE UNCHANGED <<at, req>>
    BY <1>1, <1>2, StepsStay
  <1>3. CASE ~UNCHANGED <<at, req>>
    <2>1. PICK s \in {"idle", "list"} :
             /\ at' = [at EXCEPT ![Main] = s] /\ at[Main] = "grant"
             /\ IF s = "idle" THEN req' = None ELSE req' = req
      BY <1>3 DEF AnswerGrant, EndGrant
    <2>2. Typed'
      BY <1>1, IsTyped, SameWorld DEF Typed
    <2>3. s \in StepsOf(Main) /\ s # "push"
      BY DEF StepsOf
    <2>4. (s = "idle" <=> req' = None) /\ req' \in Ids \cup {None}
      BY <2>1 DEF StepsInv
    <2>5. \A d \in Devices : at[d] # "idle" => queue'[d] > 0
      BY <1>1 DEF StepsInv
    <2> QED
      BY <1>1, <2>1, <2>2, <2>3, <2>4, <2>5, NamesDiffer, Moves
  <1> QED
    BY <1>2, <1>3

-----------------------------------------------------------------------------
(* The steps of the scan threads, the connector's thread and a plugin's.   *)

LEMMA WorldIs ==
    ASSUME ReferencesInv
    PROVE  /\ world.files \in SUBSET Items /\ world.dirty \in SUBSET Items
           /\ world.jobs \in [Clients -> Seq(Request)]
  BY WorldsAssumption DEF ReferencesInv, ClientsInv

LEMMA ScanSteps ==
    ASSUME ReferencesInv, StepsInv, NEW d \in Devices, ScanLoop(d)
    PROVE  StepsInv'
  <1> USE DEF client, told, service, handler, bus, database, device, thread,
              count, history, At, Go
  <1>1. /\ \A e \in Devices : at[e] # "idle" => queue[e] > 0
        /\ Typed /\ req \in Ids \cup {None}
    BY IsTyped DEF StepsInv
  <1>3. PICK s \in {"begin", "walk", "list", "idle"} :
           /\ at' = [at EXCEPT ![d] = s]
           /\ s # "idle" => queue' = queue /\ queue[d] > 0
           /\ s = "idle" => at[d] = "pop" /\ queue' = [queue EXCEPT ![d] = @ - 1]
    <2>1. CASE BeginScan(d)
      BY <2>1 DEF BeginScan
    <2>2. CASE SetScanning(d)
      BY <1>1, <2>2 DEF SetScanning
    <2>3. CASE WalkFile(d)
      <3>1. at' = at /\ at[d] = "walk" /\ queue' = queue
        BY <2>3 DEF WalkFile
      <3>2. at' = [at EXCEPT ![d] = "walk"]
        BY <3>1 DEF StepsInv
      <3> QED
        BY <1>1, <3>1, <3>2
    <2>4. CASE SetParsing(d)
      BY <1>1, <2>4 DEF SetParsing
    <2>5. CASE PopScan(d)
      BY <2>5 DEF PopScan
    <2> QED
      BY <2>1, <2>2, <2>3, <2>4, <2>5 DEF ScanLoop
  <1>4. /\ UNCHANGED <<world, req, plugins, scanned, available, dev, stale>>
        /\ back' = back \/ back' = [back EXCEPT ![d] = "check"]
    BY DEF ScanLoop, BeginScan, SetScanning, WalkFile, SetParsing, PopScan
  <1>5. queue' \in [Devices -> Nat] /\ s \in StepsOf(d) /\ "check" \in BackOf(d)
        /\ \A e \in Devices : e # d => queue'[e] = queue[e]
    <2>1. s \in StepsOf(d) /\ "check" \in BackOf(d)
      BY NamesDiffer DEF StepsOf, BackOf
    <2>2. CASE s # "idle"
      BY <1>1, <1>3, <2>1, <2>2 DEF Typed
    <2>3. CASE s = "idle"
      <3>1. queue[d] \in Nat /\ queue[d] > 0 /\ queue[d] - 1 \in Nat
        BY <1>1, <1>3, <2>3 DEF Typed
      <3> QED
        BY <1>1, <1>3, <2>1, <2>3, <3>1 DEF Typed
    <2> QED
      BY <2>2, <2>3
  <1>6. /\ state' \in [Devices -> {"Inactive", "Idle", "Scanning", "Parsing"}]
        /\ left' \in [Devices -> SUBSET Items]
        /\ (\A e \in Devices : \A r \in left'[e] : Home[r] = e) /\ items' \in [Devices -> Nat]
        /\ processed' \in [Devices -> Nat] /\ puts' \in [Items -> Nat]
        /\ acks' \in [Devices -> Nat]
    <2>1. CASE BeginScan(d)
      BY <1>1, <2>1 DEF BeginScan, Typed
    <2>2. CASE SetScanning(d)
      <3>1. {r \in world.files : Home[r] = d} \in SUBSET Items
        BY WorldIs
      <3> QED
        BY <1>1, <2>2, <3>1 DEF SetScanning, Typed
    <2>3. CASE WalkFile(d)
      BY <1>1, <2>3 DEF WalkFile, Typed
    <2>4. CASE SetParsing(d)
      BY <1>1, <2>4 DEF SetParsing, Typed
    <2>5. CASE PopScan(d)
      BY <1>1, <2>5 DEF PopScan, Typed
    <2> QED
      BY <2>1, <2>2, <2>3, <2>4, <2>5 DEF ScanLoop
  <1>7. Typed'
    BY <1>1, <1>4, <1>5, <1>6, SameWorld DEF Typed
  <1> QED
    BY <1>1, <1>3, <1>4, <1>5, <1>7, NamesDiffer, Moves

\* A step of any thread but the main loop, that changes no request for a scan
\* but by adding one.
LEMMA ThreadMoves ==
    ASSUME StepsInv, NEW t \in Threads \ {Main}, NEW s \in StepsOf(t),
           UNCHANGED <<world, req>>, at' = [at EXCEPT ![t] = s],
           back' = back \/ \E b \in BackOf(t) : back' = [back EXCEPT ![t] = b],
           dev' = dev \/ (/\ t \notin Devices
                          /\ \E d \in Devices : dev' = [dev EXCEPT ![t] = d]),
           queue' = queue \/ \E d \in Devices :
                               queue' = [queue EXCEPT ![d] = @ + 1],
           s # "idle" => \/ at[t] # "idle"
                         \/ dev'[t] \in Devices /\ t \notin Devices,
           Typed'
    PROVE  StepsInv'
  <1>1. /\ \A e \in Devices : at[e] # "idle" => queue[e] > 0
        /\ Typed /\ req \in Ids \cup {None}
    BY IsTyped DEF StepsInv
  <1>2. \A e \in Devices : at[e] # "idle" => queue'[e] > 0
    <2>1. CASE queue' = queue
      BY <1>1, <2>1
    <2>2. ASSUME NEW d \in Devices, queue' = [queue EXCEPT ![d] = @ + 1]
          PROVE  \A e \in Devices : at[e] # "idle" => queue'[e] > 0
      <3>1. \A e \in Devices : queue[e] \in Nat
                               /\ queue'[e] = IF e = d THEN queue[e] + 1 ELSE queue[e]
        BY <1>1, <2>2 DEF Typed
      <3> QED
        BY <1>1, <3>1
    <2> QED
      BY <2>1, <2>2
  <1>3. t \in {Db, Upnp} /\ s # "idle" => dev'[t] \in Devices
    <2>1. CASE dev' = dev
      BY <2>1 DEF StepsInv
    <2>2. CASE dev' # dev
      BY <2>2 DEF StepsInv
    <2> QED
      BY <2>1, <2>2
  <1> QED
    BY <1>1, <1>2, <1>3, Moves

LEMMA CountSteps ==
    ASSUME StepsInv, NEW d \in Devices,
           TakePut(d) \/ CountPut \/ Attach(d) \/ Unmark \/ Rescan
    PROVE  StepsInv'
  <1> USE DEF client, told, service, handler, bus, database, device, thread,
              count, history, At, Go
  <1>1. Typed
    BY IsTyped
  <1>2. /\ Db \in Threads \ {Main} /\ Upnp \in Threads \ {Main}
        /\ Db \notin Devices /\ Upnp \notin Devices
    BY NamesDiffer
  <1>3. /\ {"count", "check"} \subseteq StepsOf(Db)
        /\ {"list", "rescan", "idle"} \subseteq StepsOf(Upnp)
        /\ "unmark" \in BackOf(Upnp)
    BY NamesDiffer DEF StepsOf, BackOf
  <1>4. CASE TakePut(d)
    <2>1. /\ at' = [at EXCEPT ![Db] = "count"] /\ acks[d] > 0
          /\ acks' = [acks EXCEPT ![d] = @ - 1] /\ dev' = [dev EXCEPT ![Db] = d]
          /\ UNCHANGED <<world, req, plugins, scanned, available, state, queue,
                         left, items, processed, puts, back, stale>>
      BY <1>4 DEF TakePut
    <2>2. acks[d] \in Nat /\ acks[d] - 1 \in Nat
      BY <1>1, <2>1 DEF Typed
    <2>3. Typed'
      BY <1>1, <2>1, <2>2, SameWorld DEF Typed
    <2>4. dev'[Db] = d
      BY <1>2, <2>1 DEF StepsInv
    <2> QED
      BY <1>2, <1>3, <2>1, <2>3, <2>4, ThreadMoves
  <1>5. CASE CountPut
    <2>1. /\ at' = [at EXCEPT ![Db] = "check"] /\ at[Db] = "count"
          /\ processed' = [processed EXCEPT ![dev[Db]] = @ + 1]
          /\ UNCHANGED <<world, req, plugins, scanned, available, state, queue,
                         left, items, puts, acks, back, dev, stale>>
      BY <1>5 DEF CountPut
    <2>2. dev[Db] \in Devices
      BY <2>1 DEF StepsInv
    <2>3. Typed'
      <3>1. processed' \in [Devices -> Nat]
        BY <1>1, <2>1, <2>2 DEF Typed
      <3> QED
        BY <1>1, <2>1, <3>1, SameWorld DEF Typed
    <2> QED
      BY <1>2, <1>3, <2>1, <2>3, ThreadMoves
  <1>6. CASE Attach(d)
    <2>1. /\ at' = [at EXCEPT ![Upnp] = "list"]
          /\ available' = available \cup {d}
          /\ state' = [state EXCEPT ![d] = "Idle"]
          /\ back' = [back EXCEPT ![Upnp] = "unmark"]
          /\ dev' = [dev EXCEPT ![Upnp] = d]
          /\ UNCHANGED <<world, req, plugins, scanned, queue, count, stale>>
      BY <1>6 DEF Attach
    <2>2. Typed'
      BY <1>1, <2>1, SameWorld DEF Typed
    <2>3. dev'[Upnp] = d
      BY <1>2, <2>1 DEF StepsInv
    <2> QED
      BY <1>2, <1>3, <2>1, <2>2, <2>3, ThreadMoves
  <1>7. CASE Unmark
    <2>1. /\ at' = [at EXCEPT ![Upnp] = "rescan"] /\ at[Upnp] = "unmark"
          /\ items' = [items EXCEPT ![dev[Upnp]] = 0]
          /\ processed' = [processed EXCEPT ![dev[Upnp]] = 0]
          /\ UNCHANGED <<world, req, plugins, scanned, available, state, queue,
                         left, puts, acks, back, dev, stale>>
      BY <1>7 DEF Unmark
    <2>2. Typed'
      BY <1>1, <2>1, SameWorld DEF Typed
    <2> QED
      BY <1>2, <1>3, <2>1, <2>2, ThreadMoves
  <1>8. CASE Rescan
    <2>1. /\ at' = [at EXCEPT ![Upnp] = "idle"] /\ at[Upnp] = "rescan"
          /\ queue' = [queue EXCEPT ![dev[Upnp]] = @ + 1]
          /\ UNCHANGED <<world, req, plugins, scanned, available, state, count,
                         back, dev, stale>>
      BY <1>8 DEF Rescan, Scan
    <2>2. dev[Upnp] \in Devices
      BY <2>1 DEF StepsInv
    <2>3. Typed'
      <3>1. queue' \in [Devices -> Nat]
        BY <1>1, <2>1, <2>2 DEF Typed
      <3> QED
        BY <1>1, <2>1, <3>1, SameWorld DEF Typed
    <2> QED
      BY <1>2, <1>3, <2>1, <2>2, <2>3, ThreadMoves
  <1> QED
    BY <1>4, <1>5, <1>6, <1>7, <1>8

LEMMA WriteSteps ==
    ASSUME StepsInv, NEW r \in Items, WriteRow(r)
    PROVE  StepsInv'
  <1> USE DEF client, told, service, handler, bus, thread
  <1>1. /\ puts' = [puts EXCEPT ![r] = @ - 1] /\ puts[r] > 0
        /\ acks' = [acks EXCEPT ![Home[r]] = @ + 1]
        /\ UNCHANGED <<world, req, plugins, scanned, available, state, queue,
                       left, items, processed, at, dev, back, stale>>
    BY DEF WriteRow
  <1>2. puts \in [Items -> Nat] /\ acks \in [Devices -> Nat]
    BY DEF StepsInv
  <1>3. Home[r] \in Devices /\ puts[r] - 1 \in Nat
    BY <1>1, <1>2, RowsAssumption
  <1>4. puts' \in [Items -> Nat] /\ acks' \in [Devices -> Nat]
    BY <1>1, <1>2, <1>3
  <1>5. Ids' = Ids
    BY <1>1, SameWorld
  <1> QED
    BY <1>1, <1>4, <1>5 DEF StepsInv, At

LEMMA DoneSteps ==
    ASSUME StepsInv, NEW t \in Threads, ProcessingDone(t) \/ NotifyScanDone(t)
    PROVE  StepsInv'
  <1> USE DEF client, told, service, handler, bus, database, device, thread,
              count, history, At, Go
  <1>1. Typed
    BY IsTyped
  <1>2. t \in Devices \cup {Db} /\ t # Main /\ t # Upnp
    BY StepsAre, NamesDiffer DEF ProcessingDone, NotifyScanDone, Threads
  <1>3. /\ {"notify", "list"} \subseteq StepsOf(t)
        /\ IF t = Db THEN "idle" \in StepsOf(t) /\ "idle" \in BackOf(t)
           ELSE "pop" \in StepsOf(t) /\ "pop" \in BackOf(t)
    BY <1>2, NamesDiffer DEF StepsOf, BackOf
  <1>4. CASE ProcessingDone(t)
    <2>1. PICK s \in StepsOf(t), b \in BackOf(t) :
             at' = [at EXCEPT ![t] = s] /\ back' = [back EXCEPT ![t] = b]
      <3> DEFINE rest == IF t = Db THEN "idle" ELSE "pop"
                 all == state[dev[t]] = "Parsing"
                        /\ items[dev[t]] = processed[dev[t]]
      <3>1. /\ at' = [at EXCEPT ![t] = IF all THEN "notify" ELSE rest]
            /\ back' = [back EXCEPT ![t] = rest]
        BY <1>4 DEF ProcessingDone
      <3>2. (IF all THEN "notify" ELSE rest) \in StepsOf(t) /\ rest \in BackOf(t)
        BY <1>3
      <3> QED
        BY <3>1, <3>2
    <2>2. /\ at[t] = "check"
          /\ state' = state \/ state' = [state EXCEPT ![dev[t]] = "Idle"]
          /\ UNCHANGED <<world, req, plugins, scanned, available, queue, count,
                         dev, stale>>
      BY <1>4 DEF ProcessingDone
    <2>3. Typed'
      BY <1>1, <2>2, SameWorld DEF Typed
    <2> QED
      BY <1>2, <2>1, <2>2, <2>3, ThreadMoves
  <1>5. CASE NotifyScanDone(t)
    <2>1. /\ at[t] = "notify"
          /\ at' = [at EXCEPT ![t] = "list",
                              ![Main] = IF @ = "wait" THEN "woken" ELSE @]
          /\ UNCHANGED <<world, req, plugins, scanned, available, state, queue,
                         count, dev, back, stale>>
      BY <1>5 DEF NotifyScanDone
    <2>2. /\ at' = [u \in Threads |-> at'[u]]
          /\ \A u \in Threads :
               at'[u] = IF u = t THEN "list"
                        ELSE IF u = Main /\ at[u] = "wait" THEN "woken"
                        ELSE at[u]
      BY <1>2, <2>1, NamesDiffer DEF StepsInv
    <2>3. Ids' = Ids
      BY <2>1, SameWorld
    <2>4. "woken" \in StepsOf(Main)
      BY DEF StepsOf
    <2>5. \A u \in Threads : at'[u] \in StepsOf(u) /\ back'[u] \in BackOf(u)
      BY <1>3, <2>1, <2>2, <2>4 DEF StepsInv
    <2>6. \A d \in Devices : dev'[d] = d /\ (at'[d] # "idle" => queue'[d] > 0)
      BY <1>2, <2>1, <2>2, NamesDiffer DEF StepsInv
    <2>7. at'[Main] = "push" => dev'[Main] \in Devices
      BY <1>2, <2>1, <2>2, NamesDiffer DEF StepsInv
    <2>8. \A u \in {Db, Upnp} : at'[u] # "idle" => dev'[u] \in Devices
      BY <1>2, <2>1, <2>2, NamesDiffer DEF StepsInv
    <2>9. at'[Main] = "idle" <=> req' = None
      BY <1>2, <2>1, <2>2, NamesDiffer DEF StepsInv
    <2> QED
      BY <2>1, <2>2, <2>3, <2>5, <2>6, <2>7, <2>8, <2>9 DEF StepsInv
  <1> QED
    BY <1>4, <1>5

LEMMA ListSteps ==
    ASSUME ReferencesInv, StepsInv, NEW t \in Threads, BuildList(t) \/ SendList(t)
    PROVE  StepsInv'
  <1> USE DEF client, told, service, handler, bus, database, device, thread,
              count, history, At, Go
  <1>1. /\ Typed /\ \A d \in Devices : at[d] # "idle" => queue[d] > 0
        /\ req \in Ids \cup {None}
    BY IsTyped DEF StepsInv
  <1>2. t = Main => req \in Ids
    BY <1>1 DEF StepsInv, BuildList, SendList
  <1>3. CASE BuildList(t)
    <2>1. /\ at' = [at EXCEPT ![t] = "send"] /\ at[t] = "list"
          /\ UNCHANGED <<world, req, plugins, scanned, available, state, queue,
                         count, dev, back, stale>>
      BY <1>3 DEF BuildList
    <2>2. "send" \in StepsOf(t)
      BY <2>1, NamesDiffer DEF StepsOf, StepsInv
    <2>3. Typed'
      BY <1>1, <2>1, SameWorld DEF Typed
    <2>4. t = Main => req # None
      BY <2>1 DEF StepsInv
    <2>5. t \in {Db, Upnp} => dev[t] \in Devices
      BY <2>1 DEF StepsInv
    <2> QED
      BY <1>1, <2>1, <2>2, <2>3, <2>4, <2>5, NamesDiffer, Moves
  <1>4. CASE SendList(t)
    <2>1. /\ at' = [at EXCEPT ![t] = back[t]] /\ at[t] = "send"
          /\ IF t = Main THEN req' = None ELSE req' = req
          /\ UNCHANGED <<world, plugins, scanned, available, state, queue,
                         count, dev, back>>
      BY <1>4 DEF SendList
    <2>2. Listeners \subseteq Ids
      BY DEF Listeners, ReferencesInv, RequestsInv
    <2>3. stale' \subseteq Ids
      BY <1>1, <1>2, <1>4, <2>2 DEF SendList, Typed
    <2>4. back[t] \in StepsOf(t) /\ back[t] # "push" /\ (t = Main => back[t] = "idle")
      BY StepsAre, NamesDiffer DEF StepsOf, Threads
    <2>5. Typed'
      BY <1>1, <2>1, <2>3, SameWorld DEF Typed
    <2>6. /\ t \in {Db, Upnp} => dev[t] \in Devices
          /\ req' \in Ids \cup {None}
      BY <1>1, <2>1 DEF StepsInv
    <2> QED
      BY <1>1, <2>1, <2>4, <2>5, <2>6, NamesDiffer, Moves
  <1> QED
    BY <1>3, <1>4

LEMMA InitSteps == Init => StepsInv
  <1> SUFFICES ASSUME Init PROVE StepsInv
    OBVIOUS
  <1>1. /\ at = [t \in Threads |-> "idle"] /\ back = [t \in Threads |-> "idle"]
        /\ dev = [t \in Threads |-> IF t \in Devices THEN t ELSE None]
        /\ req = None /\ plugins = <<>> /\ scanned = {} /\ stale = {}
        /\ available = Devices \ world.late
        /\ state = [d \in Devices |-> IF d \in world.late THEN "Inactive"
                                      ELSE "Idle"]
        /\ queue = [d \in Devices |-> 0] /\ left = [d \in Devices |-> {}]
        /\ items = [d \in Devices |-> 0] /\ processed = [d \in Devices |-> 0]
        /\ puts = [r \in Items |-> 0] /\ acks = [d \in Devices |-> 0]
    BY DEF Init
  <1>2. \A t \in Threads : "idle" \in StepsOf(t) /\ "idle" \in BackOf(t)
    BY DEF StepsOf, BackOf
  <1>3. \A t \in Threads : at[t] = "idle" /\ back[t] = "idle"
    BY <1>1
  <1>4. <<>> \in Seq(Seq(Devices))
    OBVIOUS
  <1>5. \A d \in Devices : dev[d] = d
    BY <1>1, NamesDiffer
  <1> QED
    BY <1>1, <1>2, <1>3, <1>4, <1>5, NamesDiffer DEF StepsInv, At

\* Steps that leave the threads and the devices alone.
LEMMA OtherSteps ==
    ASSUME StepsInv, NEW x,
           \/ HandleResult(x) \/ GoOn(x) \/ Clean(x) \/ Send(x)
           \/ CallDirectly(x) \/ Cancel(x) \/ Answer(x) \/ UNCHANGED vars
    PROVE  StepsInv'
  <1> USE DEF client, told, service, handler, bus, database, device, thread,
              count, history, vars
  <1>1. UNCHANGED <<world, req, plugins, scanned, available, state, queue,
                    count, at, dev, back, stale>>
    <2>1. CASE HandleResult(x) \/ GoOn(x) \/ Clean(x) \/ Send(x)
      BY <2>1 DEF HandleResult, GoOn, Clean, Send
    <2>2. CASE CallDirectly(x) \/ Cancel(x) \/ Answer(x) \/ UNCHANGED vars
      BY <2>2 DEF CallDirectly, Cancel, Answer
    <2> QED
      BY <2>1, <2>2
  <1> QED
    BY <1>1, StepsStay

LEMMA StepSteps ==
    ASSUME ReferencesInv, StepsInv, [Next]_vars
    PROVE  StepsInv'
  <1>1. CASE Running
    <2>1. ASSUME NEW x, HandleResult(x) \/ GoOn(x) \/ Clean(x) PROVE StepsInv'
      BY <2>1, OtherSteps
    <2>2. CASE CountPut \/ Unmark \/ Rescan
      <3>1. \E d : d \in Devices
        BY <2>2 DEF StepsInv, CountPut, Unmark, Rescan, At
      <3> QED
        BY <2>2, <3>1, CountSteps
    <2>3. CASE RunHandler
      BY <2>3, HandlerSteps DEF RunHandler
    <2>4. ASSUME NEW t \in Threads,
                 BuildList(t) \/ SendList(t) \/ ProcessingDone(t)
                 \/ NotifyScanDone(t)
          PROVE  StepsInv'
      BY <2>4, DoneSteps, ListSteps
    <2>5. ASSUME NEW i \in asked, HandleRequest(i) PROVE StepsInv'
      BY <2>5, RequestSteps
    <2>6. ASSUME NEW d \in Devices, ScanLoop(d) PROVE StepsInv'
      BY <2>6, ScanSteps
    <2> QED
      BY <1>1, <2>1, <2>2, <2>3, <2>4, <2>5, <2>6 DEF Running
  <1>2. CASE Environment
    <2>1. CASE WakeUp
      BY <2>1, HandlerSteps
    <2>2. ASSUME NEW r \in Items, WriteRow(r) PROVE StepsInv'
      BY <2>2, WriteSteps
    <2> QED
      BY <1>2, <2>1, <2>2, OtherSteps, GrantSteps, CountSteps DEF Environment
  <1> QED
    BY <1>1, <1>2, OtherSteps DEF Next

-----------------------------------------------------------------------------
(* What subscribers to the device list see.                                *)

\* The main loop will send the device list to the one who asks for it.
MainSends == WillSend(Main) \/ At(Main, "grant") \/ At(Main, "denied")

LEMMA ListenersStay ==
    ASSUME UNCHANGED <<world, subs>>
    PROVE  Listeners' = Listeners
  <1>1. \A i : Asked(i)' = Asked(i)
    BY SameWorld
  <1> QED
    BY <1>1 DEF Listeners

\* Nothing is sent, and what was to be sent still is; a thread that changes a
\* state is going to send.
LEMMA SeenKeeps ==
    ASSUME SeenInv, UNCHANGED <<world, shown, stale>>, Listeners' \subseteq Listeners,
           state' = state \/ \E t \in Threads \ {Main} : WillSend(t)',
           \A t \in Threads \ {Main} : WillSend(t) => WillSend(t)',
           req \in Listeners /\ MainSends => req' = req /\ MainSends'
    PROVE  SeenInv'
  <1> SUFFICES ASSUME NEW i \in Listeners',
                      ~(\E t \in Threads \ {Main} : WillSend(t)')
               PROVE  \/ shown'[i] = Shown' \/ i \in stale'
                      \/ req' = i /\ MainSends'
    BY DEF SeenInv, MainSends
  <1>1. state' = state /\ Shown' = Shown
    BY DEF Shown
  <1>2. ~(\E t \in Threads \ {Main} : WillSend(t))
    OBVIOUS
  <1>3. shown[i] = Shown \/ i \in stale \/ (req = i /\ MainSends)
    BY <1>2 DEF SeenInv, MainSends
  <1> QED
    BY <1>1, <1>3

\* A thread goes on: it is going to send if it was.
LEMMA SeenMoves ==
    ASSUME StepsInv, SeenInv, UNCHANGED <<world, shown, stale, subs, req>>,
           NEW t \in Threads, NEW s, at' = [at EXCEPT ![t] = s],
           IF t = Main THEN state' = state
           ELSE state' = state \/ s \in {"walk", "notify", "list", "send"},
           s \in {"walk", "notify", "list", "send"}
             \/ at[t] \notin {"walk", "notify", "list", "send"},
           t = Main /\ at[t] \in {"grant", "denied"}
             => s \in {"list", "grant", "denied"} \/ req \notin Listeners
    PROVE  SeenInv'
  <1>1. \A u \in Threads : at'[u] = IF u = t THEN s ELSE at[u]
    BY DEF StepsInv
  <1>2. Listeners' = Listeners
    BY ListenersStay
  <1>3. state' = state \/ \E u \in Threads \ {Main} : WillSend(u)'
    BY <1>1 DEF WillSend, At
  <1>4. \A u \in Threads \ {Main} : WillSend(u) => WillSend(u)'
    BY <1>1 DEF WillSend, At
  <1>5. req \in Listeners /\ MainSends => req' = req /\ MainSends'
    BY <1>1, NamesDiffer DEF MainSends, WillSend, At
  <1> QED
    BY <1>2, <1>3, <1>4, <1>5, SeenKeeps

\* The main loop was not going to send to anybody.
LEMMA SeenMain ==
    ASSUME StepsInv, SeenInv, UNCHANGED <<world, shown, stale, state>>,
           Listeners' \subseteq Listeners,
           ~MainSends \/ req \notin Listeners, NEW s,
           at' = at \/ at' = [at EXCEPT ![Main] = s]
    PROVE  SeenInv'
  <1>1. \A u \in Threads \ {Main} : at'[u] = at[u]
    BY DEF StepsInv
  <1>2. \A u \in Threads \ {Main} : WillSend(u) => WillSend(u)'
    BY <1>1 DEF WillSend, At
  <1> QED
    BY <1>2, SeenKeeps

\* A request of the main loop: only a subscriber to the device list listens.
LEMMA SeenRequest ==
    ASSUME ReferencesInv, StepsInv, SeenInv, NEW i \in asked, HandleRequest(i)
    PROVE  SeenInv'
  <1> USE DEF client, told, service, handler, bus, database, device, thread,
              count, history, At, Go
  <1>1. at[Main] = "idle" /\ ~MainSends
    <2>1. at[Main] = "idle"
      BY DEF HandleRequest, Reject, OnPluginListGet, OnAudioListGet,
         OnVideoListGet, OnImageListGet, OnAudioMetadataGet, OnVideoMetadataGet,
         OnImageMetadataGet, OnRequestDelete, OnMediaDbPermissionGet,
         OnDeviceListGet, OnRequestMediaScan, AskFor, AskForMeta, Serve
    <2> QED
      BY <2>1 DEF MainSends, WillSend
  <1>2. CASE Reject(i) \/ OnPluginListGet(i) \/ \E kind : AskForMeta(i, kind)
    <2>1. UNCHANGED <<world, subs, shown, stale, state, at>>
      BY <1>2 DEF Reject, OnPluginListGet, AskForMeta
    <2> QED
      BY <1>1, <2>1, ListenersStay, SeenMain
  <1>3. ASSUME NEW op \in {"list", "delete"}, NEW kind, AskFor(i, op, kind)
        PROVE  SeenInv'
    <2>1. /\ UNCHANGED <<world, shown, stale, state, at>> /\ Asked(i).op = op
          /\ subs' \subseteq subs \cup {i}
      BY <1>3 DEF AskFor, Fine
    <2>2. Listeners' \subseteq Listeners
      BY <2>1, SameWorld DEF Listeners
    <2> QED
      BY <1>1, <2>1, <2>2, SeenMain
  <1>4. CASE OnMediaDbPermissionGet(i) \/ OnRequestMediaScan(i)
    <2>1. /\ UNCHANGED <<world, subs, shown, stale, state>>
          /\ \E s : at' = [at EXCEPT ![Main] = s]
      <3>1. CASE OnMediaDbPermissionGet(i)
        BY <3>1 DEF OnMediaDbPermissionGet, GrantAccessAll
      <3>2. CASE OnRequestMediaScan(i)
        BY <3>2 DEF OnRequestMediaScan
      <3> QED
        BY <1>4, <3>1, <3>2
    <2> QED
      BY <1>1, <2>1, ListenersStay, SeenMain
  <1>5. CASE OnDeviceListGet(i)
    <2>1. UNCHANGED <<world, shown, stale, state>> /\ req' = i
      BY <1>5 DEF OnDeviceListGet
    <2>2. CASE ~Asked(i).sub
      <3>1. subs' = subs /\ at' = [at EXCEPT ![Main] = "list"]
        BY <1>5, <2>2 DEF OnDeviceListGet
      <3> QED
        BY <1>1, <2>1, <3>1, ListenersStay, SeenMain
    <2>3. CASE Asked(i).sub
      <3>1. PICK s \in {"grant", "denied"} : at' = [at EXCEPT ![Main] = s]
        BY <1>5, <2>3 DEF OnDeviceListGet, GrantAccessAll
      <3>2. subs' = subs \cup {i}
        BY <1>5, <2>3 DEF OnDeviceListGet
      <3>3. at'[Main] = s /\ \A u \in Threads \ {Main} : at'[u] = at[u]
        BY <3>1, NamesDiffer DEF StepsInv
      <3>4. MainSends'
        BY <3>3 DEF MainSends
      <3>5. Listeners' \subseteq Listeners \cup {i}
        BY <3>2, <2>1, SameWorld DEF Listeners
      <3>6. Shown' = Shown
        BY <2>1 DEF Shown
      <3>7. \A u \in Threads \ {Main} : WillSend(u) => WillSend(u)'
        BY <3>3 DEF WillSend
      <3>8. ASSUME NEW j \in Listeners', j # i
            PROVE  \/ shown'[j] = Shown' \/ j \in stale'
                   \/ \E u \in Threads \ {Main} : WillSend(u)'
        <4>1. j \in Listeners
          BY <3>5, <3>8
        <4>2. \/ shown[j] = Shown \/ j \in stale
              \/ \E u \in Threads \ {Main} : WillSend(u)
          BY <1>1, <4>1 DEF SeenInv, MainSends
        <4> QED
          BY <2>1, <3>6, <3>7, <4>2
      <3> QED
        BY <2>1, <3>4, <3>8 DEF SeenInv, MainSends
    <2> QED
      BY <2>2, <2>3
  <1> QED
    BY <1>2, <1>3, <1>4, <1>5 DEF HandleRequest, OnAudioListGet, OnVideoListGet,
       OnImageListGet, OnAudioMetadataGet, OnVideoMetadataGet,
       OnImageMetadataGet, OnRequestDelete

\* The list that is sent is the one that was built: it is that of the states
\* as they are, or the history says that it is not.
LEMMA SeenSend ==
    ASSUME ReferencesInv, StepsInv, SeenInv, NEW t \in Threads, SendList(t)
    PROVE  SeenInv'
  <1> DEFINE to == IF t = Main THEN {req} ELSE Listeners
  <1>1. /\ UNCHANGED <<world, subs, state>>
        /\ shown' = [i \in Ids |-> IF i \in to THEN list[t] ELSE shown[i]]
        /\ stale' = IF list[t] = Shown THEN stale \ to ELSE stale \cup to
        /\ at' = [at EXCEPT ![t] = back[t]]
        /\ at[t] = "send"
        /\ t # Main => req' = req
    BY DEF SendList, client, service, device, history, Go, At
  <1>2. Listeners' = Listeners /\ Listeners \subseteq Ids /\ Shown' = Shown
    BY <1>1, ListenersStay DEF Shown, Listeners, ReferencesInv, RequestsInv
  <1>3. \A i \in Listeners \cap to : shown'[i] = Shown' \/ i \in stale'
    BY <1>1, <1>2
  <1>4. CASE t # Main
    BY <1>2, <1>3, <1>4 DEF SeenInv
  <1>5. CASE t = Main
    <2>1. \A u \in Threads \ {Main} : at'[u] = at[u]
      BY <1>1, <1>5 DEF StepsInv
    <2>2. \A u \in Threads \ {Main} : WillSend(u) => WillSend(u)'
      BY <2>1 DEF WillSend, At
    <2>3. ASSUME NEW i \in Listeners', i # req
          PROVE  \/ shown'[i] = Shown' \/ i \in stale'
                 \/ \E u \in Threads \ {Main} : WillSend(u)'
      <3>1. i \in Ids /\ i \notin to /\ i \in Listeners
        BY <1>2, <1>5, <2>3
      <3>2. shown'[i] = shown[i] /\ (i \in stale => i \in stale')
        BY <1>1, <3>1
      <3>3. \/ shown[i] = Shown \/ i \in stale
            \/ \E u \in Threads \ {Main} : WillSend(u)
        BY <2>3, <3>1 DEF SeenInv
      <3> QED
        BY <1>2, <2>2, <3>2, <3>3
    <2>4. \A i \in Listeners' : i = req => shown'[i] = Shown' \/ i \in stale'
      BY <1>2, <1>3, <1>5
    <2> QED
      BY <2>3, <2>4 DEF SeenInv
  <1> QED
    BY <1>4, <1>5

\* Whoever has the permission answered, or is denied it, and only asked for it
\* does not listen.
LEMMA SeenGrant ==
    ASSUME ReferencesInv, StepsInv, SeenInv, NEW g, Denied \/ AnswerGrant(g)
    PROVE  SeenInv'
  <1> USE DEF client, told, service, handler, bus, database, device, thread,
              count, history, At, Go
  <1>1. /\ UNCHANGED <<world, subs, shown, stale, state>>
        /\ \/ UNCHANGED <<at, req>>
           \/ at' = [at EXCEPT ![Main] = "idle"] /\ Asked(req).op = "permission"
           \/ at' = [at EXCEPT ![Main] = "list"] /\ req' = req
    <2>1. CASE Denied
      BY <2>1 DEF Denied, EndGrant
    <2>2. CASE AnswerGrant(g)
      BY <2>2 DEF AnswerGrant, EndGrant
    <2> QED
      BY <2>1, <2>2
  <1>2. Listeners' = Listeners
    BY <1>1, ListenersStay
  <1>3. CASE UNCHANGED <<at, req>>
    BY <1>1, <1>2, <1>3, SeenKeeps DEF MainSends, WillSend
  <1>4. CASE at' = [at EXCEPT ![Main] = "idle"] /\ Asked(req).op = "permission"
    <2>1. req \notin Listeners
      BY <1>4 DEF Listeners
    <2> QED
      BY <1>1, <1>2, <1>4, <2>1, SeenMain
  <1>5. CASE at' = [at EXCEPT ![Main] = "list"] /\ req' = req
    BY <1>1, <1>5, NamesDiffer, SeenMoves
  <1> QED
    BY <1>1, <1>3, <1>4, <1>5

LEMMA SeenScanRequest ==
    ASSUME StepsInv, SeenInv,
           \/ LockDevice \/ PushScan \/ NothingToScan \/ WaitForScan
           \/ TimeOut \/ Woken \/ WakeUp
    PROVE  SeenInv'
  <1> USE DEF client, told, service, handler, bus, database, device, thread,
              count, history, At, Go
  <1>1. /\ UNCHANGED <<world, subs, shown, stale, state>>
        /\ at' = at \/ \E s : at' = [at EXCEPT ![Main] = s]
        /\ at[Main] \in {"lock", "push", "wait", "woken"}
    <2>1. CASE LockDevice \/ PushScan \/ WaitForScan
      BY <2>1 DEF LockDevice, PushScan, WaitForScan
    <2>2. CASE NothingToScan \/ TimeOut \/ Woken \/ WakeUp
      BY <2>2 DEF NothingToScan, TimeOut, Woken, WakeUp, EndScan
    <2> QED
      BY <2>1, <2>2
  <1>2. ~MainSends
    BY <1>1 DEF MainSends, WillSend
  <1> QED
    BY <1>1, <1>2, ListenersStay, SeenMain

\* A thread goes to a step, and changes a state only if it is going to send.
Steps(t) ==
    \E s : /\ at' = [at EXCEPT ![t] = s]
           /\ \/ state' = state
              \/ t # Main /\ s \in {"walk", "notify", "list", "send"}
           /\ \/ s \in {"walk", "notify", "list", "send"}
              \/ at[t] \notin {"walk", "notify", "list", "send"}
           /\ t = Main => at[t] \notin {"grant", "denied"}

LEMMA SeenSteps ==
    ASSUME StepsInv, SeenInv, UNCHANGED <<world, subs, shown, stale, req>>,
           NEW t \in Threads, Steps(t)
    PROVE  SeenInv'
  <1>1. PICK s : /\ at' = [at EXCEPT ![t] = s]
                 /\ \/ state' = state
                    \/ t # Main /\ s \in {"walk", "notify", "list", "send"}
                 /\ \/ s \in {"walk", "notify", "list", "send"}
                    \/ at[t] \notin {"walk", "notify", "list", "send"}
                 /\ t = Main => at[t] \notin {"grant", "denied"}
    BY DEF Steps
  <1> QED
    BY <1>1, SeenMoves

LEMMA SeenDevice ==
    ASSUME StepsInv, SeenInv, NEW d \in Devices,
           ScanLoop(d) \/ TakePut(d) \/ Attach(d)
    PROVE  SeenInv'
  <1> USE DEF client, told, service, handler, bus, database, device, thread,
              count, history, At, Go
  <1>1. CASE ScanLoop(d)
    <2>1. d \in Threads /\ d # Main
      BY NamesDiffer
    <2>2. UNCHANGED <<world, subs, shown, stale, req>>
      BY <1>1 DEF ScanLoop, BeginScan, SetScanning, WalkFile, SetParsing, PopScan
    <2>3. ASSUME BeginScan(d) \/ SetScanning(d) \/ SetParsing(d) \/ PopScan(d)
          PROVE  Steps(d)
      BY <2>1, <2>3 DEF BeginScan, SetScanning, SetParsing, PopScan, Steps
    <2>4. ASSUME WalkFile(d) PROVE Steps(d)
      <3>1. UNCHANGED <<state, at>> /\ at[d] = "walk"
        BY <2>4 DEF WalkFile
      <3>2. at' = [at EXCEPT ![d] = "walk"]
        BY <3>1 DEF StepsInv
      <3> QED
        BY <2>1, <3>1, <3>2 DEF Steps
    <2>5. Steps(d)
      BY <1>1, <2>3, <2>4 DEF ScanLoop
    <2> QED
      BY <2>1, <2>2, <2>5, SeenSteps
  <1>2. CASE TakePut(d)
    <2>1. Steps(Db) /\ UNCHANGED <<world, subs, shown, stale, req>>
      BY <1>2, NamesDiffer DEF TakePut, Steps
    <2> QED
      BY <2>1, NamesDiffer, SeenSteps
  <1>3. CASE Attach(d)
    <2>1. Steps(Upnp) /\ UNCHANGED <<world, subs, shown, stale, req>>
      BY <1>3, NamesDiffer DEF Attach, Steps
    <2> QED
      BY <2>1, NamesDiffer, SeenSteps
  <1> QED
    BY <1>1, <1>2, <1>3

LEMMA SeenThread ==
    ASSUME StepsInv, SeenInv, NEW t \in Threads,
           \/ CountPut \/ Unmark \/ Rescan \/ BuildList(t) \/ ProcessingDone(t)
    PROVE  SeenInv'
  <1> USE DEF client, told, service, handler, bus, database, device, thread,
              count, history, At, Go
  <1>1. CASE CountPut
    <2>1. Steps(Db) /\ UNCHANGED <<world, subs, shown, stale, req>>
      BY <1>1, NamesDiffer DEF CountPut, Steps
    <2> QED
      BY <2>1, NamesDiffer, SeenSteps
  <1>2. CASE Unmark \/ Rescan
    <2>1. Steps(Upnp) /\ UNCHANGED <<world, subs, shown, stale, req>>
      BY <1>2, NamesDiffer DEF Unmark, Rescan, Steps
    <2> QED
      BY <2>1, NamesDiffer, SeenSteps
  <1>3. CASE BuildList(t)
    <2>1. Steps(t) /\ UNCHANGED <<world, subs, shown, stale, req>>
      BY <1>3 DEF BuildList, Steps
    <2> QED
      BY <2>1, SeenSteps
  <1>4. CASE ProcessingDone(t)
    <2>1. t # Main
      BY <1>4, NamesDiffer DEF ProcessingDone
    <2>2. UNCHANGED <<world, subs, shown, stale, req>>
      BY <1>4 DEF ProcessingDone
    <2>3. Steps(t)
      <3> DEFINE all == state[dev[t]] = "Parsing"
                        /\ items[dev[t]] = processed[dev[t]]
                 s == IF all THEN "notify" ELSE IF t = Db THEN "idle" ELSE "pop"
      <3>1. at' = [at EXCEPT ![t] = s] /\ (~all => state' = state)
            /\ at[t] = "check"
        BY <1>4 DEF ProcessingDone
      <3> QED
        BY <2>1, <3>1 DEF Steps
    <2> QED
      BY <2>2, <2>3, SeenSteps
  <1> QED
    BY <1>1, <1>2, <1>3, <1>4

LEMMA SeenNotify ==
    ASSUME StepsInv, SeenInv, NEW t \in Threads, NotifyScanDone(t)
    PROVE  SeenInv'
  <1>1. /\ UNCHANGED <<world, subs, shown, stale, req, state>>
        /\ at' = [at EXCEPT ![t] = "list",
                            ![Main] = IF @ = "wait" THEN "woken" ELSE @]
        /\ at[t] = "notify"
    BY DEF NotifyScanDone, client, told, service, handler, device, history, At
  <1>2. t # Main
    BY <1>1, StepsAre
  <1>3. \A u \in Threads : at'[u] = IF u = t THEN "list"
                                    ELSE IF u = Main /\ at[u] = "wait" THEN "woken"
                                    ELSE at[u]
    BY <1>1, <1>2 DEF StepsInv
  <1>4. \A u \in Threads \ {Main} : WillSend(u) => WillSend(u)'
    BY <1>3 DEF WillSend, At
  <1>5. MainSends => MainSends'
    BY <1>2, <1>3, NamesDiffer DEF MainSends, WillSend, At
  <1> QED
    BY <1>1, <1>4, <1>5, ListenersStay, SeenKeeps

LEMMA SeenOther ==
    ASSUME SeenInv, NEW x,
           \/ HandleResult(x) \/ GoOn(x) \/ Clean(x) \/ Send(x)
           \/ CallDirectly(x) \/ Cancel(x) \/ Answer(x) \/ WriteRow(x)
           \/ UNCHANGED vars
    PROVE  SeenInv'
  <1> USE DEF client, told, service, handler, bus, database, device, thread,
              count, history, vars
  <1>1. UNCHANGED <<world, shown, stale, state, at, req>> /\ subs' \subseteq subs
    <2>1. CASE HandleResult(x) \/ GoOn(x) \/ Clean(x) \/ Send(x)
      BY <2>1 DEF HandleResult, GoOn, Clean, Send
    <2>2. CASE \/ CallDirectly(x) \/ Cancel(x) \/ Answer(x) \/ WriteRow(x)
               \/ UNCHANGED vars
      BY <2>2 DEF CallDirectly, Cancel, Answer, WriteRow
    <2> QED
      BY <2>1, <2>2
  <1>2. Listeners' \subseteq Listeners
    BY <1>1, SameWorld DEF Listeners
  <1>3. \A u : WillSend(u)' = WillSend(u)
    BY <1>1 DEF WillSend, At
  <1>4. MainSends' = MainSends
    BY <1>1, <1>3 DEF MainSends, At
  <1> QED
    BY <1>1, <1>2, <1>3, <1>4, SeenKeeps

LEMMA StepSeen ==
    ASSUME ReferencesInv, StepsInv, SeenInv, [Next]_vars
    PROVE  SeenInv'
  <1>1. CASE Running
    <2>1. ASSUME NEW x, HandleResult(x) \/ GoOn(x) \/ Clean(x) PROVE SeenInv'
      BY <2>1, SeenOther
    <2>2. CASE CountPut \/ Unmark \/ Rescan
      BY <2>2, NamesDiffer, SeenThread
    <2>3. CASE RunHandler
      BY <2>3, SeenGrant, SeenScanRequest DEF RunHandler
    <2>4. ASSUME NEW t \in Threads, BuildList(t) \/ ProcessingDone(t)
          PROVE  SeenInv'
      BY <2>4, SeenThread
    <2>5. ASSUME NEW i \in asked, HandleRequest(i) PROVE SeenInv'
      BY <2>5, SeenRequest
    <2>6. ASSUME NEW d \in Devices, ScanLoop(d) PROVE SeenInv'
      BY <2>6, SeenDevice
    <2>7. ASSUME NEW t \in Threads, SendList(t) \/ NotifyScanDone(t)
          PROVE  SeenInv'
      BY <2>7, SeenSend, SeenNotify
    <2> QED
      BY <1>1, <2>1, <2>2, <2>3, <2>4, <2>5, <2>6, <2>7 DEF Running
  <1>2. CASE Environment
    <2>1. ASSUME NEW d \in Devices, TakePut(d) \/ Attach(d) PROVE SeenInv'
      BY <2>1, SeenDevice
    <2> QED
      BY <1>2, <2>1, SeenOther, SeenGrant, SeenScanRequest DEF Environment
  <1> QED
    BY <1>1, <1>2, SeenOther DEF Next

-----------------------------------------------------------------------------
(* What is going on during the scan that a request began in a calm.        *)

\* The second part of CalmInv.
CalmHolds ==
    /\ At(Upnp, "idle")
    /\ \A d \in Devices : queue[d] > 0 \/ acks[d] > 0 => d \in scanned
    /\ \A r \in Items : puts[r] > 0 => Home[r] \in scanned
    /\ ~At(Db, "idle") => dev[Db] \in scanned
    /\ \A t \in Devices \cup {Db} : At(t, "notify") => dev[t] \in finished \cap scanned
    /\ At(Main, "woken") => scanned \cap finished # {}

\* A thread takes a step that neither finishes a scan nor wakes the main loop.
LEMMA CalmMoves ==
    ASSUME StepsInv, CalmInv, NEW t \in Threads, NEW s, s \notin {"notify", "woken"},
           UNCHANGED <<untrue, calm, scanned, finished>>,
           at' = [at EXCEPT ![t] = s],
           t = Upnp /\ at[t] = "idle" => s = "idle",
           \A d \in Devices :
             \/ queue'[d] > 0 => queue[d] > 0 \/ at[d] # "idle"
             \/ calm => d \in scanned,
           \A d \in Devices : acks'[d] > 0 => acks[d] > 0,
           \A r \in Items :
             puts'[r] > 0 => puts[r] > 0 \/ at[Home[r]] # "idle",
           \A u \in Devices \cup {Db} :
             \/ dev'[u] = dev[u]
             \/ u = t /\ t = Db /\ (calm => dev'[u] \in scanned),
           t = Db /\ s # "idle" => at[t] # "idle" \/ (calm => dev'[t] \in scanned)
    PROVE  CalmInv'
  <1>1. \A u \in Threads : at'[u] = IF u = t THEN s ELSE at[u]
    BY DEF StepsInv
  <1> SUFFICES ASSUME calm PROVE CalmHolds'
    BY DEF CalmInv, CalmHolds
  <1>2. CalmHolds
    BY DEF CalmInv, CalmHolds
  <1>3. at'[Upnp] = "idle"
    BY <1>1, <1>2, NamesDiffer DEF CalmHolds, At
  <1>4. \A d \in Devices : at[d] # "idle" => queue[d] > 0
    BY DEF StepsInv
  <1>5. /\ \A d \in Devices : queue'[d] > 0 \/ acks'[d] > 0 => d \in scanned
        /\ \A r \in Items : puts'[r] > 0 => Home[r] \in scanned
    <2>1. \A r \in Items : Home[r] \in Devices
      BY RowsAssumption
    <2> QED
      BY <1>2, <1>4, <2>1 DEF CalmHolds
  <1>6. at'[Db] # "idle" => dev'[Db] \in scanned
    BY <1>1, <1>2, NamesDiffer DEF CalmHolds, At
  <1>7. \A u \in Devices \cup {Db} : at'[u] = "notify" =>
           dev'[u] \in finished \cap scanned
    BY <1>1, <1>2, NamesDiffer DEF CalmHolds, At
  <1>8. at'[Main] = "woken" => scanned \cap finished # {}
    BY <1>1, <1>2, NamesDiffer DEF CalmHolds, At
  <1> QED
    BY <1>3, <1>5, <1>6, <1>7, <1>8 DEF CalmHolds, At

LEMMA CalmStays ==
    ASSUME CalmInv, UNCHANGED <<untrue, calm, at, queue, puts, acks, scanned, dev,
                                finished>>
    PROVE  CalmInv'
  BY DEF CalmInv, At

LEMMA CalmRequest ==
    ASSUME StepsInv, CalmInv, NEW i \in asked, HandleRequest(i)
    PROVE  CalmInv'
  <1> USE DEF client, told, service, handler, bus, database, device, thread,
              count, history, At, Go
  <1>1. CASE Reject(i) \/ OnPluginListGet(i) \/ \E kind : AskForMeta(i, kind)
    <2>1. UNCHANGED <<untrue, calm, at, queue, puts, acks, scanned, dev,
                                finished>>
      BY <1>1 DEF Reject, OnPluginListGet, AskForMeta
    <2> QED
      BY <2>1, CalmStays
  <1>2. ASSUME NEW op, NEW kind, AskFor(i, op, kind) PROVE CalmInv'
    <2>1. UNCHANGED <<untrue, calm, at, queue, puts, acks, scanned, dev,
                                finished>>
      BY <1>2 DEF AskFor
    <2> QED
      BY <2>1, CalmStays
  <1>3. CASE OnMediaDbPermissionGet(i) \/ OnDeviceListGet(i)
    <2>1. PICK s \in {"grant", "denied", "list"} : at' = [at EXCEPT ![Main] = s]
      <3>1. CASE OnMediaDbPermissionGet(i)
        BY <3>1 DEF OnMediaDbPermissionGet, GrantAccessAll, Taken
      <3>2. CASE OnDeviceListGet(i)
        BY <3>2 DEF OnDeviceListGet, GrantAccessAll, Taken
      <3> QED
        BY <1>3, <3>1, <3>2
    <2>2. UNCHANGED <<untrue, calm, queue, puts, acks, scanned, dev, finished>>
      BY <1>3 DEF OnMediaDbPermissionGet, OnDeviceListGet
    <2> QED
      BY <2>1, <2>2, NamesDiffer, CalmMoves
  <1>4. CASE OnRequestMediaScan(i)
    <2>1. /\ at' = [at EXCEPT ![Main] = "lock"] /\ calm' = Calm
          /\ UNCHANGED <<untrue, queue, puts, acks, dev, finished>>
      BY <1>4 DEF OnRequestMediaScan
    <2>2. \A u \in Threads : at'[u] = IF u = Main THEN "lock" ELSE at[u]
      BY <2>1 DEF StepsInv
    <2>3. Calm => CalmHolds'
      BY <2>1, <2>2, NamesDiffer DEF Calm, CalmHolds
    <2> QED
      BY <2>1, <2>3 DEF CalmInv, CalmHolds
  <1> QED
    BY <1>1, <1>2, <1>3, <1>4 DEF HandleRequest, OnAudioListGet, OnVideoListGet,
       OnImageListGet, OnAudioMetadataGet, OnVideoMetadataGet,
       OnImageMetadataGet, OnRequestDelete

LEMMA CalmHandler ==
    ASSUME StepsInv, CalmInv, NEW g,
           \/ Denied \/ LockDevice \/ PushScan \/ NothingToScan \/ WaitForScan
           \/ TimeOut \/ Woken \/ WakeUp \/ AnswerGrant(g)
    PROVE  CalmInv'
  <1> USE DEF client, told, service, handler, bus, database, device, thread,
              count, history, At, Go
  <1>1. CASE Denied \/ WaitForScan \/ AnswerGrant(g)
    <2>1. UNCHANGED <<untrue, calm, queue, puts, acks, scanned, dev, finished>>
      BY <1>1 DEF Denied, WaitForScan, AnswerGrant
    <2>2. \/ at' = at
          \/ \E s \in {"idle", "list", "wait"} : at' = [at EXCEPT ![Main] = s]
      BY <1>1 DEF Denied, WaitForScan, AnswerGrant, EndGrant
    <2> QED
      BY <2>1, <2>2, NamesDiffer, CalmStays, CalmMoves
  <1>2. CASE LockDevice
    <2>1. /\ UNCHANGED <<untrue, calm, queue, puts, acks, scanned, finished>>
          /\ \/ UNCHANGED <<at, dev>>
             \/ /\ at' = [at EXCEPT ![Main] = "push"]
                /\ \E e : dev' = [dev EXCEPT ![Main] = e]
      BY <1>2 DEF LockDevice
    <2>2. \A u \in Devices \cup {Db} : dev'[u] = dev[u]
      BY <2>1, NamesDiffer DEF StepsInv
    <2> QED
      BY <2>1, <2>2, NamesDiffer, CalmStays, CalmMoves
  <1>3. CASE PushScan
    <2>1. /\ at' = [at EXCEPT ![Main] = "lock"]
          /\ queue' = [queue EXCEPT ![dev[Main]] = @ + 1]
          /\ scanned' = scanned \cup {dev[Main]}
          /\ UNCHANGED <<untrue, calm, puts, acks, dev, finished>>
      BY <1>3 DEF PushScan, Scan
    <2>2. \A u \in Threads : at'[u] = IF u = Main THEN "lock" ELSE at[u]
      BY <2>1 DEF StepsInv
    <2>3. \A d \in Devices : d # dev[Main] => queue'[d] = queue[d]
      BY <2>1 DEF StepsInv
    <2>4. CalmHolds => CalmHolds'
      BY <2>1, <2>2, <2>3, NamesDiffer DEF CalmHolds
    <2> QED
      BY <2>1, <2>4 DEF CalmInv, CalmHolds
  <1>4. CASE NothingToScan \/ TimeOut \/ Woken \/ WakeUp
    <2>1. calm' = FALSE
      BY <1>4 DEF NothingToScan, TimeOut, Woken, WakeUp, EndScan
    <2>2. untrue' = {}
      <3>1. CASE NothingToScan \/ TimeOut \/ WakeUp
        BY <3>1 DEF NothingToScan, TimeOut, WakeUp, EndScan, CalmInv
      <3>2. CASE Woken
        BY <3>2 DEF Woken, EndScan, CalmInv
      <3> QED
        BY <1>4, <3>1, <3>2
    <2> QED
      BY <2>1, <2>2 DEF CalmInv
  <1> QED
    BY <1>1, <1>2, <1>3, <1>4

LEMMA CalmDevice ==
    ASSUME StepsInv, CalmInv, NEW d \in Devices,
           ScanLoop(d) \/ TakePut(d) \/ Attach(d)
    PROVE  CalmInv'
  <1> USE DEF client, told, service, handler, bus, database, device, thread,
              count, history, At, Go
  <1>1. /\ \A e \in Devices : queue[e] \in Nat /\ acks[e] \in Nat
        /\ d \in Threads /\ d # Main /\ d # Db /\ d # Upnp
        /\ queue \in [Devices -> Nat] /\ acks \in [Devices -> Nat]
        /\ puts \in [Items -> Nat]
    BY NamesDiffer DEF StepsInv
  <1>2. CASE ScanLoop(d)
    <2>1. UNCHANGED <<untrue, calm, scanned, dev, finished>>
      BY <1>2 DEF ScanLoop, BeginScan, SetScanning, WalkFile, SetParsing, PopScan
    <2>2. \E s \in {"begin", "walk", "list", "idle"} : at' = [at EXCEPT ![d] = s]
      <3>1. CASE WalkFile(d)
        <4>1. at' = [at EXCEPT ![d] = "walk"]
          BY <3>1 DEF WalkFile, StepsInv
        <4> QED
          BY <4>1
      <3> QED
        BY <1>2, <3>1 DEF ScanLoop, BeginScan, SetScanning, SetParsing, PopScan
    <2>3. \A e \in Devices : queue'[e] > 0 => queue[e] > 0 \/ at[e] # "idle"
      <3>1. CASE PopScan(d)
        <4>1. \A e \in Devices : queue'[e] = IF e = d THEN queue[e] - 1 ELSE queue[e]
          BY <1>1, <3>1 DEF PopScan
        <4> QED
          BY <1>1, <4>1
      <3> QED
        BY <1>2, <3>1 DEF ScanLoop, BeginScan, SetScanning, WalkFile, SetParsing
    <2>4. /\ acks' = acks
          /\ \A r \in Items : puts'[r] > 0 => puts[r] > 0 \/ at[Home[r]] # "idle"
      <3>1. CASE WalkFile(d)
        <4>1. PICK r \in left[d] : puts' = [puts EXCEPT ![r] = @ + 1]
          BY <3>1 DEF WalkFile
        <4>2. at[d] = "walk" /\ acks' = acks
          BY <3>1 DEF WalkFile
        <4>3. Home[r] = d
          BY <4>1 DEF StepsInv
        <4>4. \A x \in Items : x # r => puts'[x] = puts[x]
          BY <1>1, <4>1
        <4> QED
          BY <4>2, <4>3, <4>4
      <3> QED
        BY <1>2, <3>1 DEF ScanLoop, BeginScan, SetScanning, PopScan, SetParsing
    <2> QED
      BY <1>1, <2>1, <2>2, <2>3, <2>4, CalmMoves
  <1>3. CASE TakePut(d)
    <2>1. /\ UNCHANGED <<untrue, calm, queue, scanned, finished>>
          /\ at' = [at EXCEPT ![Db] = "count"] /\ acks[d] > 0
          /\ acks' = [acks EXCEPT ![d] = @ - 1] /\ puts' = puts
          /\ dev' = [dev EXCEPT ![Db] = d]
      BY <1>3 DEF TakePut
    <2>2. dev'[Db] = d /\ \A u \in Devices : dev'[u] = dev[u]
      BY <2>1, NamesDiffer DEF StepsInv
    <2>3. \A e \in Devices : acks'[e] = IF e = d THEN acks[e] - 1 ELSE acks[e]
      BY <1>1, <2>1
    <2>4. \A e \in Devices : acks'[e] > 0 => acks[e] > 0
      BY <1>1, <2>3
    <2>5. calm => d \in scanned
      BY <2>1 DEF CalmInv
    <2> QED
      BY <2>1, <2>2, <2>4, <2>5, NamesDiffer, CalmMoves
  <1>4. CASE Attach(d)
    BY <1>4 DEF Attach, CalmInv
  <1> QED
    BY <1>2, <1>3, <1>4

LEMMA CalmThread ==
    ASSUME StepsInv, CalmInv, NEW t \in Threads,
           \/ CountPut \/ Unmark \/ Rescan \/ BuildList(t) \/ SendList(t)
    PROVE  CalmInv'
  <1> USE DEF client, told, service, handler, bus, database, device, thread,
              count, history, At, Go
  <1>1. CASE CountPut
    <2>1. /\ UNCHANGED <<untrue, calm, queue, puts, acks, scanned, dev, finished>>
          /\ at' = [at EXCEPT ![Db] = "check"] /\ at[Db] = "count"
      BY <1>1 DEF CountPut
    <2> QED
      BY <2>1, NamesDiffer, CalmMoves
  <1>2. CASE Unmark \/ Rescan
    <2>1. /\ UNCHANGED <<untrue, calm>> /\ at[Upnp] # "idle"
      BY <1>2 DEF Unmark, Rescan
    <2> QED
      BY <2>1 DEF CalmInv
  <1>3. CASE BuildList(t) \/ SendList(t)
    <2>1. /\ UNCHANGED <<untrue, calm, queue, puts, acks, scanned, dev, finished>>
          /\ at[t] # "idle"
          /\ at' = [at EXCEPT ![t] = "send"] \/ at' = [at EXCEPT ![t] = back[t]]
      BY <1>3 DEF BuildList, SendList
    <2>2. back[t] \notin {"notify", "woken"}
      BY StepsAre DEF Threads
    <2> QED
      BY <2>1, <2>2, CalmMoves
  <1> QED
    BY <1>1, <1>2, <1>3

LEMMA CalmWrite ==
    ASSUME StepsInv, CalmInv, NEW r \in Items, WriteRow(r)
    PROVE  CalmInv'
  <1>1. /\ puts' = [puts EXCEPT ![r] = @ - 1] /\ puts[r] > 0
        /\ acks' = [acks EXCEPT ![Home[r]] = @ + 1]
        /\ UNCHANGED <<untrue, calm, queue, at, scanned, dev, finished>>
    BY DEF WriteRow, handler, thread
  <1>2. /\ puts \in [Items -> Nat] /\ acks \in [Devices -> Nat]
        /\ Home[r] \in Devices
    BY RowsAssumption DEF StepsInv
  <1>3. /\ \A x \in Items : puts'[x] > 0 => puts[x] > 0
        /\ \A d \in Devices : acks'[d] > 0 => acks[d] > 0 \/ d = Home[r]
    BY <1>1, <1>2
  <1>4. CalmHolds => CalmHolds'
    BY <1>1, <1>3 DEF CalmHolds, At
  <1> QED
    BY <1>1, <1>4 DEF CalmInv, CalmHolds

LEMMA CalmDone ==
    ASSUME StepsInv, CalmInv, NEW t \in Threads,
           ProcessingDone(t) \/ NotifyScanDone(t)
    PROVE  CalmInv'
  <1> USE DEF client, told, service, handler, bus, database, device, thread,
              count, history, At, Go
  <1>1. t \in Devices \cup {Db} /\ t # Main /\ t # Upnp
    BY StepsAre, NamesDiffer DEF ProcessingDone, NotifyScanDone, Threads
  <1>2. /\ UNCHANGED <<untrue, calm, queue, puts, acks, scanned, dev>>
        /\ at[t] \in {"check", "notify"}
    BY DEF ProcessingDone, NotifyScanDone
  <1>3. calm => dev[t] \in scanned
    BY <1>1, <1>2, NamesDiffer DEF CalmInv, StepsInv
  <1> SUFFICES ASSUME calm PROVE CalmHolds'
    BY <1>2 DEF CalmInv, CalmHolds
  <1>4. CalmHolds
    BY DEF CalmInv, CalmHolds
  <1>5. CASE ProcessingDone(t)
    <2> DEFINE all == state[dev[t]] = "Parsing"
                      /\ items[dev[t]] = processed[dev[t]]
               s == IF all THEN "notify" ELSE IF t = Db THEN "idle" ELSE "pop"
    <2>1. /\ at' = [at EXCEPT ![t] = s]
          /\ finished' = IF all THEN finished \cup {dev[t]} ELSE finished
      BY <1>5 DEF ProcessingDone
    <2>2. \A u \in Threads : at'[u] = IF u = t THEN s ELSE at[u]
      BY <2>1 DEF StepsInv
    <2>3. s = "notify" => dev[t] \in finished'
      BY <2>1
    <2>4. finished \subseteq finished'
      BY <2>1
    <2> HIDE DEF s, all
    <2> QED
      BY <1>1, <1>2, <1>3, <1>4, <2>2, <2>3, <2>4, NamesDiffer DEF CalmHolds
  <1>6. CASE NotifyScanDone(t)
    <2>1. /\ at[t] = "notify" /\ finished' = finished
          /\ at' = [at EXCEPT ![t] = "list",
                              ![Main] = IF @ = "wait" THEN "woken" ELSE @]
      BY <1>6 DEF NotifyScanDone
    <2>2. \A u \in Threads :
            at'[u] = IF u = t THEN "list"
                     ELSE IF u = Main /\ at[u] = "wait" THEN "woken" ELSE at[u]
      BY <1>1, <2>1, NamesDiffer DEF StepsInv
    <2>3. dev[t] \in finished \cap scanned
      BY <1>1, <1>4, <2>1 DEF CalmHolds
    <2> QED
      BY <1>1, <1>2, <1>4, <2>1, <2>2, <2>3, NamesDiffer DEF CalmHolds
  <1> QED
    BY <1>5, <1>6

LEMMA CalmOther ==
    ASSUME CalmInv, NEW x,
           \/ HandleResult(x) \/ GoOn(x) \/ Clean(x) \/ Send(x)
           \/ CallDirectly(x) \/ Cancel(x) \/ Answer(x) \/ UNCHANGED vars
    PROVE  CalmInv'
  <1> USE DEF client, told, service, handler, bus, database, device, thread,
              count, history, vars
  <1>1. UNCHANGED <<untrue, calm, at, queue, puts, acks, scanned, dev,
                                finished>>
    <2>1. CASE HandleResult(x) \/ GoOn(x) \/ Clean(x) \/ Send(x)
      BY <2>1 DEF HandleResult, GoOn, Clean, Send
    <2>2. CASE CallDirectly(x) \/ Cancel(x) \/ Answer(x) \/ UNCHANGED vars
      BY <2>2 DEF CallDirectly, Cancel, Answer
    <2> QED
      BY <2>1, <2>2
  <1> QED
    BY <1>1, CalmStays

LEMMA StepCalm ==
    ASSUME StepsInv, CalmInv, [Next]_vars
    PROVE  CalmInv'
  <1>1. CASE Running
    <2>1. ASSUME NEW x, HandleResult(x) \/ GoOn(x) \/ Clean(x) PROVE CalmInv'
      BY <2>1, CalmOther
    <2>2. CASE CountPut \/ Unmark \/ Rescan
      BY <2>2, NamesDiffer, CalmThread
    <2>3. CASE RunHandler
      BY <2>3, CalmHandler DEF RunHandler
    <2>4. ASSUME NEW t \in Threads,
                 BuildList(t) \/ SendList(t) \/ ProcessingDone(t)
                 \/ NotifyScanDone(t)
          PROVE  CalmInv'
      BY <2>4, CalmThread, CalmDone
    <2>5. ASSUME NEW i \in asked, HandleRequest(i) PROVE CalmInv'
      BY <2>5, CalmRequest
    <2>6. ASSUME NEW d \in Devices, ScanLoop(d) PROVE CalmInv'
      BY <2>6, CalmDevice
    <2> QED
      BY <1>1, <2>1, <2>2, <2>3, <2>4, <2>5, <2>6 DEF Running
  <1>2. CASE Environment
    <2>1. ASSUME NEW d \in Devices, TakePut(d) \/ Attach(d) PROVE CalmInv'
      BY <2>1, CalmDevice
    <2>2. ASSUME NEW r \in Items, WriteRow(r) PROVE CalmInv'
      BY <2>2, CalmWrite
    <2> QED
      BY <1>2, <2>1, <2>2, CalmOther, CalmHandler DEF Environment
  <1> QED
    BY <1>1, <1>2, CalmOther DEF Next

-----------------------------------------------------------------------------
(* What the database finds, and what is asked of it.                       *)

LEMMA RowsAre ==
    /\ Len(Rows) \in Nat /\ Rows \in Seq(Items)
    /\ \A p \in 1 .. Len(Rows) : Rows[p] \in Items
    /\ \A r \in Items : \E p \in 1 .. Len(Rows) : r = Rows[p]
    /\ \A p, n \in 1 .. Len(Rows) : Rows[p] = Rows[n] => p = n
  <1>1. Rows \in Seq(Items) /\ Len(Rows) \in Nat /\ DOMAIN Rows = 1 .. Len(Rows)
    BY RowsAssumption
  <1>2. \A p, n \in DOMAIN Rows : Rows[p] = Rows[n] => p = n
    BY RowsAssumption DEF IsInjective
  <1>3. Items = {Rows[p] : p \in DOMAIN Rows}
    BY DEF Items, Range
  <1> QED
    BY <1>1, <1>2, <1>3

\* The page is the first of what is found, and of something there is a page.
LEMMA FirstOfIs ==
    ASSUME NEW found \in SUBSET (1 .. Len(Rows)), NEW limit
    PROVE  /\ FirstOf(found, limit) \subseteq found
           /\ found # {} => FirstOf(found, limit) # {}
           /\ \A p \in FirstOf(found, limit), n \in found :
                n <= p => n \in FirstOf(found, limit)
  <1>1. Most(limit) \in Nat /\ Most(limit) >= 1
    BY PageSizeAssumption DEF Most
  <1>2. Len(Rows) \in Nat
    BY RowsAre
  <1>3. ASSUME NEW p \in 1 .. Len(Rows)
        PROVE  /\ IsFiniteSet(found \cap 1 .. p)
               /\ Cardinality(found \cap 1 .. p) \in Nat
    <2>1. IsFiniteSet(1 .. p)
      BY FS_Interval
    <2>2. found \cap 1 .. p \in SUBSET (1 .. p)
      OBVIOUS
    <2>3. IsFiniteSet(found \cap 1 .. p)
      BY <2>1, <2>2, FS_Subset
    <2> QED
      BY <2>3, FS_CardinalityType
  <1>4. ASSUME found # {} PROVE FirstOf(found, limit) # {}
    <2>1. found \in SUBSET Nat
      BY <1>2
    <2>2. Min(found) \in found /\ \A n \in found : Min(found) <= n
      BY <1>4, <2>1, LeastIs
    <2>3. PICK p \in found : p = Min(found)
      BY <2>2
    <2>4. found \cap 1 .. p = {p}
      BY <1>2, <2>2, <2>3
    <2>5. Cardinality(found \cap 1 .. p) = 1
      BY <2>4, FS_Singleton
    <2>6. p \in FirstOf(found, limit)
      BY <1>1, <2>3, <2>5 DEF FirstOf
    <2> QED
      BY <2>6
  <1>5. ASSUME NEW p \in FirstOf(found, limit), NEW n \in found, n <= p
        PROVE  n \in FirstOf(found, limit)
    <2>1. p \in found /\ Cardinality(found \cap 1 .. p) <= Most(limit)
      BY DEF FirstOf
    <2>2. found \cap 1 .. n \in SUBSET (found \cap 1 .. p)
      BY <1>2, <1>5, <2>1
    <2>3. Cardinality(found \cap 1 .. n) <= Cardinality(found \cap 1 .. p)
      BY <1>3, <2>1, <2>2, FS_Subset
    <2>4. /\ Cardinality(found \cap 1 .. n) \in Nat
          /\ Cardinality(found \cap 1 .. p) \in Nat
      BY <1>3, <2>1
    <2>5. \A a, b, c \in Nat : a <= b /\ b <= c => a <= c
      OBVIOUS
    <2>6. Cardinality(found \cap 1 .. n) <= Most(limit)
      BY <1>1, <2>1, <2>3, <2>4, <2>5
    <2> QED
      BY <2>6 DEF FirstOf
  <1> QED
    BY <1>4, <1>5 DEF FirstOf

LEMMA FoundIs ==
    ASSUME NEW q, q.after \in 0 .. Len(Rows)
    PROVE  /\ Found(q) \in SUBSET (1 .. Len(Rows))
           /\ \A p \in Found(q) : Rows[p] \in q.uri /\ Kind[Rows[p]] = q.kind
  <1>1. Len(Rows) \in Nat
    BY RowsAre
  <1>2. \A p : p \in q.after + 1 .. Len(Rows) => p \in 1 .. Len(Rows)
    BY <1>1
  <1> QED
    BY <1>2 DEF Found

\* The parts of DatabaseInv that are about one query and about one result.
RightQuery(q) ==
    /\ q.after \in 0 .. Len(Rows) /\ q.for \in Ids \cup {None}
    /\ q.op \in {"list", "meta", "delete"} =>
         /\ q.for \in Ids
         /\ q.op = Asked(q.for).op /\ q.uri = Asked(q.for).uri
         /\ q.kind = Asked(q.for).kind
         /\ q.obj = q.for \/ (q.obj = None /\ Asked(q.for).sub)
RightResult(m) ==
    /\ m.ok \in BOOLEAN /\ m.page \in SUBSET (1 .. Len(Rows))
    /\ m.more => m.page # {}
    /\ ItemsAt(m.page) \subseteq m.q.uri
    /\ m.q.op = "delete" => Removed(m.q.for)
RightGrant(g) == g.names \subseteq Clients /\ Sender(g.for) \in g.names
RightNames == granted \subseteq Clients /\ dbClients \in Seq(Clients)
              /\ refused \subseteq Ids
RightRows == rows \subseteq Items /\ written \subseteq Ids \X Items

LEMMA DatabaseIs ==
    DatabaseInv <=>
      /\ RightRows /\ dirty \subseteq world.dirty /\ clients = {}
      /\ RightNames /\ (\A g \in grants : RightGrant(g))
      /\ (\A q \in Out : RightQuery(q)) /\ (\A m \in results : RightResult(m))
  BY DEF DatabaseInv, RightRows, RightNames, RightGrant, RightQuery, RightResult

\* Nothing is written or deleted.
SameRows == rows' = rows /\ written' = written

LEMMA KeptStays ==
    ASSUME world' = world, SameRows
    PROVE  /\ \A i : Kept(i)' = Kept(i) /\ (Removed(i) => Removed(i)')
           /\ RightRows => RightRows'
  <1>1. Ids' = Ids /\ \A i : Asked(i)' = Asked(i)
    BY SameWorld
  <1>2. \A i : Kept(i)' = Kept(i)
    BY DEF SameRows, Kept
  <1> QED
    BY <1>1, <1>2 DEF SameRows, Removed, RightRows

LEMMA FewerKept ==
    ASSUME world' = world, NEW i, Kept(i)' \subseteq Kept(i), Removed(i)
    PROVE  Removed(i)'
  <1>1. Asked(i)' = Asked(i)
    BY SameWorld
  <1> QED
    BY <1>1 DEF Removed

\* What is written has not been there since any request.
LEMMA KeptWrite ==
    ASSUME RightRows, NEW r \in Items, WriteRow(r)
    PROVE  /\ RightRows'
           /\ \A i \in Ids : Kept(i)' \subseteq Kept(i) /\ (Removed(i) => Removed(i)')
  <1>1. PICK new \in SUBSET ({r} \ rows) :
          rows' = rows \cup new /\ written' = written \cup (Ids \X new)
    BY DEF WriteRow
  <1>2. world' = world
    BY DEF WriteRow
  <1>3. Ids' = Ids
    BY <1>2, SameWorld
  <1>4. ASSUME NEW i \in Ids PROVE Kept(i)' \subseteq Kept(i)
    BY <1>1 DEF Kept
  <1>5. RightRows'
    BY <1>1, <1>3 DEF RightRows
  <1> QED
    BY <1>2, <1>4, <1>5, FewerKept

\* A request for a list begins anew with what is there.
LEMMA KeptAsk ==
    ASSUME RightRows, NEW i, NEW op, NEW kind, AskFor(i, op, kind)
    PROVE  /\ RightRows' /\ rows' = rows
           /\ \A j : j # i \/ op # "list" =>
                 Kept(j)' = Kept(j) /\ (Removed(j) => Removed(j)')
  <1>1. /\ world' = world /\ rows' = rows
        /\ written' = IF op = "list" THEN written \ ({i} \X Items) ELSE written
    BY DEF AskFor, database
  <1>2. Ids' = Ids
    BY <1>1, SameWorld
  <1>3. \A j : j # i \/ op # "list" => Kept(j)' = Kept(j)
    BY <1>1 DEF Kept
  <1>4. RightRows'
    BY <1>1, <1>2 DEF RightRows
  <1> QED
    BY <1>1, <1>3, <1>4, FewerKept

\* A delete begins anew with what it leaves.
LEMMA KeptAnswer ==
    ASSUME DatabaseInv, NEW q \in queries, Answer(q)
    PROVE  /\ RightRows'
           /\ \A i : (q.op = "delete" /\ i = q.for) \/ Kept(i)' \subseteq Kept(i)
           /\ \A i : Removed(i) => Removed(i)'
           /\ q.op = "delete" => Removed(q.for)'
  <1> DEFINE gone == {r \in q.uri : Kind[r] = q.kind}
  <1>1. /\ world' = world
        /\ rows' = (IF q.op \in {"delete", "remove"} THEN rows \ gone ELSE rows)
        /\ written' = (IF q.op = "delete" THEN written \ ({q.for} \X Items)
                                          ELSE written)
    BY DEF Answer
  <1>2. RightRows /\ RightQuery(q)
    BY DatabaseIs DEF Out
  <1>3. Ids' = Ids /\ \A i : Asked(i)' = Asked(i)
    BY <1>1, SameWorld
  <1>4. RightRows'
    BY <1>1, <1>2, <1>3 DEF RightRows
  <1>5. ASSUME NEW i, ~(q.op = "delete" /\ i = q.for)
        PROVE  Kept(i)' \subseteq Kept(i)
    BY <1>1, <1>5 DEF Kept
  <1>6. ASSUME q.op = "delete" PROVE Removed(q.for)'
    <2>1. q.uri = Asked(q.for).uri /\ q.kind = Asked(q.for).kind
      BY <1>2, <1>6 DEF RightQuery
    <2>2. Kept(q.for)' \subseteq rows \ gone
      BY <1>1, <1>6 DEF Kept
    <2> QED
      BY <1>3, <2>1, <2>2 DEF Removed
  <1>7. ASSUME NEW i, Removed(i) PROVE Removed(i)'
    <2>1. CASE q.op = "delete" /\ i = q.for
      BY <1>6, <2>1
    <2>2. CASE ~(q.op = "delete" /\ i = q.for)
      BY <1>1, <1>5, <1>7, <2>2, FewerKept
    <2> QED
      BY <2>1, <2>2
  <1> QED
    BY <1>4, <1>5, <1>6, <1>7

\* What deletes have removed stays so, and there are queries and results after
\* the step that there were before, or right ones.
LEMMA DatabaseKeeps ==
    ASSUME DatabaseInv, NEW Q, NEW M, world' = world,
           RightRows',
           \A i \in Ids : Asked(i).op = "delete" /\ Removed(i) => Removed(i)',
           dirty' \subseteq dirty, clients' = {},
           RightNames', \A g \in grants' : g \in grants \/ RightGrant(g),
           queries' \subseteq queries \cup Q, results' \subseteq results \cup M,
           \A q \in Q : RightQuery(q),
           \A m \in M : m.q \in Out \cup Q /\ RightResult(m)'
    PROVE  DatabaseInv'
  <1>1. Ids' = Ids /\ \A i : Asked(i)' = Asked(i)
    BY SameWorld
  <1>2. \A q : RightQuery(q) => RightQuery(q)'
    BY <1>1 DEF RightQuery
  <1>3. ASSUME NEW m \in results PROVE RightResult(m)'
    <2>1. RightResult(m) /\ RightQuery(m.q)
      BY DatabaseIs DEF Out
    <2>2. m.q.op = "delete" => m.q.for \in Ids /\ Asked(m.q.for).op = "delete"
      BY <2>1 DEF RightQuery
    <2>3. m.q.op = "delete" => Removed(m.q.for)'
      BY <2>1, <2>2 DEF RightResult
    <2> QED
      BY <2>1, <2>3 DEF RightResult
  <1>4. \A g : RightGrant(g) => RightGrant(g)'
    BY DEF RightGrant
  <1>5. Out' \subseteq Out \cup Q
    BY DEF Out
  <1>6. \A q \in Out' : RightQuery(q)'
    BY <1>2, <1>5, DatabaseIs
  <1>7. \A m \in results' : RightResult(m)'
    BY <1>3
  <1>8. \A g \in grants' : RightGrant(g)'
    BY <1>4, DatabaseIs
  <1>9. dirty' \subseteq world'.dirty
    BY DatabaseIs
  <1>10. (DatabaseInv <=>
            /\ RightRows /\ dirty \subseteq world.dirty /\ clients = {}
            /\ RightNames /\ (\A g \in grants : RightGrant(g))
            /\ (\A q \in Out : RightQuery(q))
            /\ (\A m \in results : RightResult(m)))'
    BY DatabaseIs, PTL
  <1> QED
    BY <1>6, <1>7, <1>8, <1>9, <1>10

\* The database answers, asks or is asked nothing.
LEMMA DatabaseRests ==
    ASSUME DatabaseInv, world' = world, SameRows, dirty' \subseteq dirty,
           clients' = clients, RightNames',
           \A g \in grants' : g \in grants \/ RightGrant(g),
           queries' = queries, results' \subseteq results
    PROVE  DatabaseInv'
  <1> DEFINE none == {}
  <1>1. /\ queries' \subseteq queries \cup none
        /\ results' \subseteq results \cup none
        /\ \A q \in none : RightQuery(q)
        /\ \A m \in none : m.q \in Out \cup none /\ RightResult(m)'
    OBVIOUS
  <1>2. clients' = {} /\ RightRows
    BY DatabaseIs
  <1> HIDE DEF none
  <1> QED
    BY <1>1, <1>2, KeptStays, DatabaseKeeps

\* A query is asked, or refused.
LEMMA DatabaseAsked ==
    ASSUME ReferencesInv, DatabaseInv, NEW q, NEW i \in Ids, NEW taken,
           Ask(q, i, taken), RightQuery(q), world' = world, RightRows',
           \A j \in Ids : Asked(j).op = "delete" /\ Removed(j) => Removed(j)',
           dirty' = dirty, clients' = clients, granted' = granted,
           dbClients' = dbClients, grants' = grants, results' \subseteq results
    PROVE  DatabaseInv'
  <1>1. /\ queries' \subseteq queries \cup {q}
        /\ refused' \subseteq refused \cup {i}
    BY DEF Ask
  <1>2. Ids' = Ids
    BY SameWorld
  <1>3. RightNames' /\ clients' = {}
    BY <1>1, <1>2 DEF RightNames, DatabaseInv
  <1> DEFINE none == {}
             one == {q}
  <1>4. /\ results' \subseteq results \cup none
        /\ \A m \in none : m.q \in Out \cup one /\ RightResult(m)'
        /\ \A p \in one : RightQuery(p)
        /\ dirty' \subseteq dirty
        /\ \A g \in grants' : g \in grants \/ RightGrant(g)
        /\ queries' \subseteq queries \cup one
    BY <1>1
  <1> HIDE DEF none, one
  <1> QED
    BY <1>3, <1>4, DatabaseKeeps

LEMMA QueryIsRight ==
    ASSUME NEW i \in Ids
    PROVE  /\ Asked(i).op \in {"list", "delete"} => RightQuery(Query(i))
           /\ Asked(i).op = "meta" => RightQuery([Query(i) EXCEPT !.obj = i])
  <1>1. 0 \in 0 .. Len(Rows)
    BY RowsAre
  <1>2. [Query(i) EXCEPT !.obj = i] =
          [op |-> Asked(i).op, for |-> i, obj |-> i, kind |-> Asked(i).kind,
           uri |-> Asked(i).uri, limit |-> Asked(i).count, after |-> 0]
    BY DEF Query
  <1>3. /\ Query(i).op = Asked(i).op /\ Query(i).for = i /\ Query(i).after = 0
        /\ Query(i).kind = Asked(i).kind /\ Query(i).uri = Asked(i).uri
        /\ Query(i).obj = IF Asked(i).sub THEN None ELSE i
    BY DEF Query
  <1>4. RightQuery(Query(i))
    BY <1>1, <1>3 DEF RightQuery
  <1>5. Asked(i).op = "meta" => RightQuery([Query(i) EXCEPT !.obj = i])
    BY <1>1, <1>2 DEF RightQuery
  <1> QED
    BY <1>4, <1>5

\* Permissions are asked for the sender, among others.
LEMMA GrantIsRight ==
    ASSUME DatabaseInv, NEW i \in Ids, world' = world, granted' = granted,
           GrantAccessAll(i)
    PROVE  RightNames' /\ \A g \in grants' : g \in grants \/ RightGrant(g)
  <1>1. Sender(i) \in Clients /\ Ids' = Ids
    BY IdsAre, SameWorld DEF Sender
  <1>2. /\ dbClients' = Append(dbClients, Sender(i))
        /\ dbClients \in Seq(Clients)
    BY DEF GrantAccessAll, DatabaseInv
  <1>3. dbClients' \in Seq(Clients) /\ dbClients'[Len(dbClients')] = Sender(i)
        /\ Len(dbClients') \in DOMAIN dbClients'
    BY <1>1, <1>2
  <1>4. Range(dbClients') \subseteq Clients /\ Sender(i) \in Range(dbClients')
    BY <1>3 DEF Range
  <1>5. RightGrant([for |-> i, names |-> Range(dbClients')])
    BY <1>4 DEF RightGrant
  <1>6. /\ \A g \in grants' :
             g \in grants \/ g = [for |-> i, names |-> Range(dbClients')]
        /\ refused' \subseteq refused \cup {i}
    BY DEF GrantAccessAll
  <1> QED
    BY <1>1, <1>3, <1>5, <1>6 DEF RightNames, DatabaseInv

LEMMA DatabaseRequest ==
    ASSUME ReferencesInv, DatabaseInv, NEW i \in asked, HandleRequest(i)
    PROVE  DatabaseInv'
  <1> USE DEF client, told, service, handler, bus, database, device, thread,
              history
  <1>0. i \in Ids
    BY NotHandled
  <1>1. CASE Reject(i) \/ OnPluginListGet(i) \/ OnRequestMediaScan(i)
    <2>1. UNCHANGED <<world, dirty, clients, granted, dbClients, refused, grants,
                      queries, results>>
          /\ SameRows
      BY <1>1 DEF Reject, OnPluginListGet, OnRequestMediaScan,
                  SameRows
    <2>2. RightNames'
      BY <2>1, SameWorld DEF RightNames, DatabaseInv
    <2> QED
      BY <2>1, <2>2, DatabaseRests
  <1>2. ASSUME NEW op \in {"list", "delete"}, NEW kind, AskFor(i, op, kind)
        PROVE  DatabaseInv'
    <2>1. /\ UNCHANGED <<world, dirty, granted, dbClients, grants, results>>
          /\ clients' = clients \/ clients' = AddClient(i)
          /\ Asked(i).op = op
      BY <1>2 DEF AskFor, Fine
    <2>2. clients' = clients
      BY <2>1 DEF AddClient, DatabaseInv
    <2>3. PICK taken \in Taken : Ask(Query(i), i, taken)
      BY <1>2 DEF AskFor
    <2>4. /\ RightRows'
          /\ \A j \in Ids : Asked(j).op = "delete" /\ Removed(j) => Removed(j)'
      BY <1>2, <2>1, KeptAsk, DatabaseIs
    <2> QED
      BY <1>0, <2>1, <2>2, <2>3, <2>4, QueryIsRight, DatabaseAsked
  <1>3. ASSUME NEW kind, AskForMeta(i, kind) PROVE DatabaseInv'
    <2>1. /\ UNCHANGED <<world, dirty, clients, granted, dbClients, grants,
                         results>>
          /\ SameRows /\ Asked(i).op = "meta"
      BY <1>3 DEF AskForMeta, Fine, SameRows
    <2>2. PICK taken \in Taken : Ask([Query(i) EXCEPT !.obj = i], i, taken)
      BY <1>3 DEF AskForMeta
    <2>3. RightRows' /\ \A j : Removed(j) => Removed(j)'
      BY <2>1, KeptStays, DatabaseIs
    <2> QED
      BY <1>0, <2>1, <2>2, <2>3, QueryIsRight, DatabaseAsked
  <1>4. CASE OnMediaDbPermissionGet(i) \/ OnDeviceListGet(i)
    <2>1. /\ UNCHANGED <<world, dirty, clients, granted, queries, results>>
          /\ SameRows
      BY <1>4 DEF OnMediaDbPermissionGet, OnDeviceListGet, SameRows
    <2>2. GrantAccessAll(i) \/ UNCHANGED <<dbClients, grants, refused>>
      BY <1>4 DEF OnMediaDbPermissionGet, OnDeviceListGet
    <2>3. RightNames' /\ \A g \in grants' : g \in grants \/ RightGrant(g)
      <3>1. CASE GrantAccessAll(i)
        BY <1>0, <2>1, <3>1, GrantIsRight
      <3>2. CASE UNCHANGED <<dbClients, grants, refused>>
        BY <2>1, <3>2, SameWorld DEF RightNames, DatabaseInv
      <3> QED
        BY <2>2, <3>1, <3>2
    <2> QED
      BY <2>1, <2>3, DatabaseRests
  <1> QED
    BY <1>1, <1>2, <1>3, <1>4 DEF HandleRequest, OnAudioListGet, OnVideoListGet,
       OnImageListGet, OnAudioMetadataGet, OnVideoMetadataGet,
       OnImageMetadataGet, OnRequestDelete

\* The database answers a query.
LEMMA AnswerIsRight ==
    ASSUME DatabaseInv, NEW q \in queries, Answer(q)
    PROVE  DatabaseInv'
  <1> USE DEF client, told, service, handler, history
  <1> DEFINE delete == q.op \in {"delete", "remove"}
             none == {}
  <1>0. PICK found : found = FirstOf(Found(q), q.limit)
    OBVIOUS
  <1>1. /\ queries' = queries \ {q}
        /\ UNCHANGED <<world, clients, dbClients, grants, dirty, granted, refused>>
    BY DEF Answer
  <1>2. q \in Out /\ q.after \in 0 .. Len(Rows)
    BY DEF Out, DatabaseInv
  <1>3. Found(q) \in SUBSET (1 .. Len(Rows)) /\ \A p \in Found(q) : Rows[p] \in q.uri
    BY <1>2, FoundIs
  <1>4. found \subseteq Found(q) /\ (Found(q) # {} => found # {})
    BY <1>0, <1>3, FirstOfIs
  <1>5. PICK m : /\ results' = results \cup {m}
                 /\ m.q = q /\ m.ok \in BOOLEAN
                 /\ m.page = IF delete THEN {} ELSE found
                 /\ m.more => ~delete /\ Found(q) # found
    <2> DEFINE n == [q |-> q, ok |-> ~delete \/ q.kind # None,
                     page |-> IF delete THEN {} ELSE found,
                     more |-> ~delete /\ Found(q) # found]
    <2>1. results' = results \cup {n}
      BY <1>0 DEF Answer
    <2>2. /\ n.q = q /\ n.ok \in BOOLEAN
          /\ n.page = IF delete THEN {} ELSE found
          /\ n.more => ~delete /\ Found(q) # found
      OBVIOUS
    <2> HIDE DEF n
    <2> QED
      BY <2>1, <2>2
  <1>6. RightResult(m)'
    <2>1. m.page \in SUBSET (1 .. Len(Rows)) /\ (m.more => m.page # {})
      BY <1>3, <1>4, <1>5
    <2>2. ItemsAt(m.page) \subseteq q.uri
      BY <1>3, <1>4, <1>5 DEF ItemsAt
    <2>3. q.op = "delete" => Removed(q.for)'
      BY KeptAnswer
    <2> QED
      BY <1>5, <2>1, <2>2, <2>3 DEF RightResult
  <1>7. /\ queries' \subseteq queries \cup none
        /\ results' \subseteq results \cup {m}
        /\ \A p \in none : RightQuery(p)
        /\ \A n \in {m} : n.q \in Out \cup none /\ RightResult(n)'
    BY <1>1, <1>2, <1>5, <1>6, SMT
  <1>8. RightNames' /\ clients' = {} /\ \A g \in grants' : g \in grants
    BY <1>1, SameWorld DEF RightNames, DatabaseInv
  <1> HIDE DEF none
  <1> QED
    BY <1>1, <1>7, <1>8, KeptAnswer, DatabaseKeeps

LEMMA DatabaseMore ==
    ASSUME DatabaseInv, NEW Q, queries' = queries \cup Q,
           \A q \in Q : RightQuery(q), results' \subseteq results,
           SameRows,
           UNCHANGED <<world, dirty, clients, dbClients, granted, refused, grants>>
    PROVE  DatabaseInv'
  <1> DEFINE none == {}
  <1>1. /\ dirty' \subseteq dirty
        /\ \A g \in grants' : g \in grants \/ RightGrant(g)
        /\ queries' \subseteq queries \cup Q
        /\ results' \subseteq results \cup none
        /\ \A m \in none : m.q \in Out \cup Q /\ RightResult(m)'
    OBVIOUS
  <1>2. RightNames' /\ clients' = {} /\ RightRows
    BY SameWorld, DatabaseIs DEF RightNames, DatabaseInv
  <1> HIDE DEF none
  <1> QED
    BY <1>1, <1>2, KeptStays, DatabaseKeeps

LEMMA DatabaseResult ==
    ASSUME ReferencesInv, DatabaseInv, NEW m \in results, HandleResult(m)
    PROVE  DatabaseInv'
  <1> USE DEF client, handler, database, device, thread, history
  <1>1. /\ UNCHANGED <<world, dirty, clients, granted, dbClients, grants>>
        /\ results' \subseteq results /\ SameRows
    BY DEF HandleResult, SameRows
  <1>2. m.q \in Out /\ m.q = Fields(m.q) /\ RightQuery(m.q) /\ RightResult(m)
    BY DatabaseIs DEF ReferencesInv, QueriesInv, Fields, Out
  <1>3. CASE UNCHANGED <<queries, refused>>
    <2>1. RightNames'
      BY <1>1, <1>3, SameWorld DEF RightNames, DatabaseInv
    <2> QED
      BY <1>1, <1>3, <2>1, DatabaseRests
  <1>4. CASE HandleList(m) /\ m.more /\ m.q.obj = None
    <2> DEFINE q == [m.q EXCEPT !.after = LastPosition(m)]
    <2>1. m.q.op = "list" /\ \E taken \in Taken : Ask(q, m.q.for, taken)
      BY <1>4 DEF HandleList
    <2>2. LastPosition(m) \in 0 .. Len(Rows)
      <3>1. m.page \in SUBSET (0 .. Len(Rows)) /\ m.page # {} /\ Len(Rows) \in Nat
        BY <1>2, <1>4, RowsAre DEF RightResult
      <3> QED
        BY <3>1, GreatestIs DEF LastPosition
    <2>3. /\ q.op = m.q.op /\ q.for = m.q.for /\ q.obj = m.q.obj
          /\ q.kind = m.q.kind /\ q.uri = m.q.uri /\ q.after = LastPosition(m)
      BY <1>2 DEF Fields
    <2> HIDE DEF q
    <2>4. RightQuery(q) /\ m.q.for \in Ids
      BY <1>2, <2>1, <2>2, <2>3 DEF RightQuery
    <2>5. PICK taken \in Taken : Ask(q, m.q.for, taken)
      BY <2>1
    <2> QED
      BY <1>1, <2>4, <2>5, KeptStays, DatabaseIs, DatabaseAsked
  <1>5. CASE HandleClean(m)
    <2> DEFINE q(r) == [m.q EXCEPT !.op = "remove", !.uri = {r}]
    <2>1. PICK R : queries' = queries \cup {q(r) : r \in R}
      BY <1>5 DEF HandleClean
    <2>2. refused' = refused
      BY <1>5 DEF HandleClean
    <2>3. ASSUME NEW r PROVE RightQuery(q(r))
      <3>1. /\ q(r).op = "remove" /\ q(r).for = m.q.for
            /\ q(r).after = m.q.after
        <4> DEFINE p == [op |-> "remove", for |-> m.q.for, obj |-> m.q.obj,
                         kind |-> m.q.kind, uri |-> m.q.uri,
                         limit |-> m.q.limit, after |-> m.q.after]
        <4>1. [m.q EXCEPT !.op = "remove"] = p
          BY <1>2 DEF Fields
        <4>2. q(r) = [[m.q EXCEPT !.op = "remove"] EXCEPT !.uri = {r}]
          OBVIOUS
        <4>3. q(r) = [p EXCEPT !.uri = {r}]
          BY <4>1, <4>2, Zenon
        <4> QED
          BY <4>3
      <3> HIDE DEF q
      <3> QED
        BY <1>2, <3>1 DEF RightQuery
    <2> HIDE DEF q
    <2> DEFINE Q == {q(r) : r \in R}
    <2>4. queries' = queries \cup Q /\ \A p \in Q : RightQuery(p)
      BY <2>1, <2>3
    <2> HIDE DEF Q
    <2> QED
      BY <1>1, <2>2, <2>4, DatabaseMore
  <1> QED
    BY <1>3, <1>4, <1>5
    DEF HandleResult, HandleList, HandleMetaData, HandleDelete, HandleRemove

LEMMA DatabaseClean ==
    ASSUME DatabaseInv, NEW d \in Devices, Clean(d)
    PROVE  DatabaseInv'
  <1> USE DEF client, service, database, history
  <1> DEFINE q(k) == [op |-> "clean", for |-> None, obj |-> None, kind |-> k,
                      uri |-> {r \in Items : Home[r] = d}, limit |-> 0,
                      after |-> 0]
  <1>1. PICK K : queries' = queries \cup {q(k) : k \in K}
    BY DEF Clean
  <1>2. /\ results' = results
        /\ UNCHANGED <<world, dirty, clients, dbClients, granted, refused, grants>>
        /\ SameRows
    BY DEF Clean, SameRows
  <1>3. \A k : RightQuery(q(k))
    BY RowsAre DEF RightQuery
  <1> HIDE DEF q
  <1> DEFINE Q == {q(k) : k \in K}
  <1>4. queries' = queries \cup Q /\ \A p \in Q : RightQuery(p)
    BY <1>1, <1>3
  <1> HIDE DEF Q
  <1> QED
    BY <1>2, <1>4, DatabaseMore

\* Steps that ask the database nothing.
LEMMA DatabaseOther ==
    ASSUME DatabaseInv, NEW t, NEW d,
           \/ GoOn(d) \/ ScanLoop(d) \/ TakePut(d) \/ Attach(d) \/ Send(d)
           \/ CallDirectly(d) \/ Cancel(d) \/ (AnswerGrant(d) /\ d \in grants)
           \/ CountPut \/ Unmark \/ Rescan \/ RunHandler \/ WakeUp \/ BuildList(t)
           \/ SendList(t) \/ ProcessingDone(t) \/ NotifyScanDone(t)
           \/ UNCHANGED vars
    PROVE  DatabaseInv'
  <1> USE DEF client, told, service, handler, bus, database, history, SameRows
  <1>1. /\ world' = world /\ SameRows /\ dirty' \subseteq dirty
        /\ clients' \subseteq clients /\ dbClients' = dbClients
        /\ refused' = refused /\ grants' \subseteq grants
        /\ queries' = queries /\ results' = results
        /\ granted' = granted \/ \E g \in grants : granted' = granted \cup g.names
    <2>1. CASE GoOn(d) \/ ScanLoop(d) \/ TakePut(d) \/ Attach(d) \/ Send(d)
      BY <2>1 DEF GoOn, ScanLoop, BeginScan, SetScanning, WalkFile, SetParsing,
                  PopScan, TakePut, Attach, Send
    <2>2. CASE CallDirectly(d) \/ Cancel(d) \/ (AnswerGrant(d) /\ d \in grants)
      BY <2>2 DEF CallDirectly, Cancel, RemoveClient, AnswerGrant
    <2>3. CASE CountPut \/ Unmark \/ Rescan
      BY <2>3 DEF CountPut, Unmark, Rescan
    <2>4. CASE RunHandler \/ WakeUp
      BY <2>4 DEF RunHandler, Denied, LockDevice, PushScan, NothingToScan,
                  WaitForScan, TimeOut, Woken, WakeUp, EndScan
    <2>5. CASE BuildList(t) \/ SendList(t) \/ ProcessingDone(t)
               \/ NotifyScanDone(t) \/ UNCHANGED vars
      BY <2>5 DEF BuildList, SendList, ProcessingDone, NotifyScanDone, vars
    <2> QED
      BY <2>1, <2>2, <2>3, <2>4, <2>5
  <1>2. granted' \subseteq Clients
    BY <1>1 DEF DatabaseInv
  <1>3. RightNames' /\ clients' = clients
    BY <1>1, <1>2, SameWorld DEF RightNames, DatabaseInv
  <1> QED
    BY <1>1, <1>3, DatabaseRests

LEMMA DatabaseWrite ==
    ASSUME DatabaseInv, NEW r \in Items, WriteRow(r)
    PROVE  DatabaseInv'
  <1> USE DEF client, service, bus
  <1> DEFINE none == {}
  <1>1. /\ UNCHANGED <<world, clients, dbClients, granted, refused, grants>>
        /\ queries' \subseteq queries \cup none
        /\ results' \subseteq results \cup none
        /\ \A q \in none : RightQuery(q)
        /\ \A m \in none : m.q \in Out \cup none /\ RightResult(m)'
        /\ dirty' \subseteq dirty
    BY DEF WriteRow
  <1>2. RightNames' /\ clients' = {} /\ RightRows
    BY <1>1, SameWorld, DatabaseIs DEF RightNames, DatabaseInv
  <1>3. \A g \in grants' : g \in grants \/ RightGrant(g)
    BY <1>1
  <1> HIDE DEF none
  <1> QED
    BY <1>1, <1>2, <1>3, KeptWrite, DatabaseKeeps

LEMMA InitDatabase == Init => DatabaseInv
  <1> SUFFICES ASSUME Init PROVE DatabaseInv
    OBVIOUS
  <1>1. /\ rows = Items /\ dirty = world.dirty /\ granted = {} /\ clients = {}
        /\ dbClients = <<>> /\ refused = {} /\ grants = {} /\ Out = {}
        /\ results = {} /\ written = {}
    BY DEF Init, Out
  <1> QED
    BY <1>1 DEF DatabaseInv

LEMMA StepDatabase ==
    ASSUME ReferencesInv, DatabaseInv, [Next]_vars
    PROVE  DatabaseInv'
  <1>1. CASE Running
    <2>1. ASSUME NEW i \in asked, HandleRequest(i) PROVE DatabaseInv'
      BY <2>1, DatabaseRequest
    <2>2. ASSUME NEW m \in results, HandleResult(m) PROVE DatabaseInv'
      BY <2>2, DatabaseResult
    <2>3. ASSUME NEW d \in Devices, ScanLoop(d) \/ Clean(d) PROVE DatabaseInv'
      BY <2>3, DatabaseOther, DatabaseClean
    <2>4. ASSUME NEW x, \/ GoOn(x) \/ BuildList(x) \/ SendList(x)
                        \/ ProcessingDone(x) \/ NotifyScanDone(x)
          PROVE  DatabaseInv'
      BY <2>4, DatabaseOther
    <2>5. CASE RunHandler \/ CountPut \/ Unmark \/ Rescan
      BY <2>5, DatabaseOther
    <2> QED
      BY <1>1, <2>1, <2>2, <2>3, <2>4, <2>5 DEF Running
  <1>2. CASE Environment
    <2>1. ASSUME NEW q \in queries, Answer(q) PROVE DatabaseInv'
      BY <2>1, AnswerIsRight
    <2>2. ASSUME NEW x, \/ Send(x) \/ CallDirectly(x) \/ Cancel(x)
                        \/ TakePut(x) \/ Attach(x)
                        \/ (AnswerGrant(x) /\ x \in grants)
          PROVE  DatabaseInv'
      BY <2>2, DatabaseOther
    <2>3. CASE WakeUp
      BY <2>3, DatabaseOther
    <2>4. ASSUME NEW r \in Items, WriteRow(r) PROVE DatabaseInv'
      BY <2>4, DatabaseWrite
    <2> QED
      BY <1>2, <2>1, <2>2, <2>3, <2>4 DEF Environment
  <1> QED
    BY <1>1, <1>2, DatabaseOther DEF Next

-----------------------------------------------------------------------------
(* What the replies say.                                                   *)

\* Reply r tells request i what is so, and what it or a subscription to its
\* method asked for.
Fits(i, r) ==
    /\ r.ok =>
         /\ r.what = "permission" => Sender(i) \in granted
         /\ r.what = "deleted" /\ ~Asked(i).sub => Removed(i)
    /\ \A x \in r.rows \ Asked(i).uri :
         \E j \in Ids : /\ Asked(j).op = Asked(i).op /\ Asked(j).sub
                        /\ Asked(j).kind = Asked(i).kind /\ x \in Asked(j).uri

LEMMA RepliesAre ==
    RepliesInv <=> /\ replies \in [Ids -> Seq(Replies)]
                   /\ \A i \in Ids : \A k \in DOMAIN replies[i] :
                        Fits(i, replies[i][k])
  <1>1. ASSUME NEW i \in Ids, NEW x
        PROVE  x \in Told(i) <=> \E k \in DOMAIN replies[i] : x \in replies[i][k].rows
    BY DEF Told
  <1>2. StrangersShareTheMethod <=>
          \A i \in Ids : \A k \in DOMAIN replies[i] :
            \A x \in replies[i][k].rows \ Asked(i).uri :
              \E j \in Ids : /\ Asked(j).op = Asked(i).op /\ Asked(j).sub
                             /\ Asked(j).kind = Asked(i).kind
                             /\ x \in Asked(j).uri
    <2> DEFINE S(i, x) ==
          \E j \in Ids : /\ Asked(j).op = Asked(i).op /\ Asked(j).sub
                         /\ Asked(j).kind = Asked(i).kind /\ x \in Asked(j).uri
    <2>1. StrangersShareTheMethod <=>
            \A i \in Ids : \A x \in Told(i) \ Asked(i).uri : S(i, x)
      BY DEF StrangersShareTheMethod
    <2> HIDE DEF S
    <2>2. (\A i \in Ids : \A x \in Told(i) \ Asked(i).uri : S(i, x)) <=>
          \A i \in Ids : \A k \in DOMAIN replies[i] :
            \A x \in replies[i][k].rows \ Asked(i).uri : S(i, x)
      BY <1>1
    <2> QED
      BY <2>1, <2>2 DEF S
  <1> QED
    BY <1>2 DEF RepliesInv, Fits

LEMMA FitsStays ==
    ASSUME NEW i \in Ids, NEW r, Fits(i, r), world' = world,
           Removed(i) => Removed(i)',
           granted \subseteq granted'
    PROVE  Fits(i, r)'
  <1>1. Ids' = Ids /\ \A j : Asked(j)' = Asked(j) /\ Sender(i)' = Sender(i)
    BY SameWorld DEF Sender
  <1> QED
    BY <1>1 DEF Fits

\* What the database has removed for requests with replies stays so.
StillRemoved == \A i \in Ids : replies[i] # <<>> /\ Removed(i) => Removed(i)'

\* Some requests are told a reply that fits them.
LEMMA RepliesKeep ==
    ASSUME RepliesInv, NEW ids, NEW r \in Replies, Tell(ids, r),
           world' = world, StillRemoved, granted \subseteq granted',
           \A i \in ids \cap Ids : Fits(i, r)'
    PROVE  RepliesInv'
  <1>1. Ids' = Ids
    BY SameWorld
  <1>2. /\ replies \in [Ids -> Seq(Replies)]
        /\ \A i \in Ids : \A k \in DOMAIN replies[i] : Fits(i, replies[i][k])
    BY RepliesAre
  <1>3. \A i \in Ids : replies'[i] = IF i \in ids THEN Append(replies[i], r)
                                     ELSE replies[i]
    BY DEF Tell
  <1>4. replies' \in [Ids -> Seq(Replies)]
    <2>1. \A i \in Ids : Append(replies[i], r) \in Seq(Replies)
      BY <1>2
    <2> QED
      BY <1>2, <2>1 DEF Tell
  <1>5. ASSUME NEW i \in Ids, NEW k \in DOMAIN replies'[i]
        PROVE  Fits(i, replies[i][k])'
    <2>1. /\ replies[i] \in Seq(Replies) /\ Len(replies[i]) \in Nat
          /\ Len(Append(replies[i], r)) = Len(replies[i]) + 1
          /\ Append(replies[i], r)[Len(replies[i]) + 1] = r
          /\ DOMAIN Append(replies[i], r) = 1 .. Len(replies[i]) + 1
          /\ DOMAIN replies[i] = 1 .. Len(replies[i])
          /\ \A n \in 1 .. Len(replies[i]) : Append(replies[i], r)[n] = replies[i][n]
      BY <1>2
    <2>2. \/ k \in DOMAIN replies[i] /\ replies'[i][k] = replies[i][k]
          \/ i \in ids /\ replies'[i][k] = r
      <3>1. CASE i \notin ids
        BY <1>3, <1>5, <3>1
      <3>2. CASE i \in ids
        <4>1. replies'[i] = Append(replies[i], r)
          BY <1>3, <3>2
        <4>2. k \in 1 .. Len(replies[i]) \/ k = Len(replies[i]) + 1
          <5>1. k \in 1 .. Len(replies[i]) + 1
            BY <2>1, <4>1
          <5>2. \A n \in Nat : \A x \in 1 .. n + 1 : x \in 1 .. n \/ x = n + 1
            OBVIOUS
          <5> QED
            BY <2>1, <5>1, <5>2
        <4> QED
          BY <2>1, <3>2, <4>1, <4>2
      <3> QED
        BY <3>1, <3>2
    <2>3. PICK x : x = replies'[i][k]
      OBVIOUS
    <2>4. Fits(i, x)'
      <3>1. CASE k \in DOMAIN replies[i] /\ x = replies[i][k]
        <4>1. Fits(i, x) /\ replies[i] # <<>>
          BY <1>2, <3>1
        <4> QED
          BY <4>1, FitsStays DEF StillRemoved
      <3>2. CASE i \in ids /\ x = r
        BY <3>2
      <3> QED
        BY <2>2, <2>3, <3>1, <3>2
    <2> QED
      BY <2>3, <2>4 DEF Fits
  <1>6. (replies \in [Ids -> Seq(Replies)])'
        /\ (\A i \in Ids : \A k \in DOMAIN replies[i] : Fits(i, replies[i][k]))'
    BY <1>1, <1>4, <1>5 DEF Replies
  <1>7. (RepliesInv <=> /\ replies \in [Ids -> Seq(Replies)]
                        /\ \A i \in Ids : \A k \in DOMAIN replies[i] :
                             Fits(i, replies[i][k]))'
    BY RepliesAre, PTL
  <1> QED
    BY <1>6, <1>7

LEMMA RepliesRest ==
    ASSUME RepliesInv, world' = world, replies' = replies, StillRemoved,
           granted \subseteq granted'
    PROVE  RepliesInv'
  <1>1. Ids' = Ids
    BY SameWorld
  <1>2. /\ replies \in [Ids -> Seq(Replies)]
        /\ \A i \in Ids : \A k \in DOMAIN replies[i] : Fits(i, replies[i][k])
    BY RepliesAre
  <1>3. \A i \in Ids : \A k \in DOMAIN replies[i] : Fits(i, replies[i][k])'
    <2> SUFFICES ASSUME NEW i \in Ids, NEW k \in DOMAIN replies[i]
                 PROVE  Fits(i, replies[i][k])'
      OBVIOUS
    <2>1. PICK x : x = replies[i][k]
      OBVIOUS
    <2>2. Fits(i, x) /\ replies[i] # <<>>
      BY <1>2, <2>1
    <2>3. Fits(i, x)'
      BY <2>2, FitsStays DEF StillRemoved
    <2> QED
      BY <2>1, <2>3 DEF Fits
  <1>4. (replies \in [Ids -> Seq(Replies)])'
        /\ (\A i \in Ids : \A k \in DOMAIN replies[i] : Fits(i, replies[i][k]))'
    BY <1>1, <1>2, <1>3 DEF Replies
  <1>5. (RepliesInv <=> /\ replies \in [Ids -> Seq(Replies)]
                        /\ \A i \in Ids : \A k \in DOMAIN replies[i] :
                             Fits(i, replies[i][k]))'
    BY RepliesAre, PTL
  <1> QED
    BY <1>4, <1>5

LEMMA SameRemoved ==
    ASSUME world' = world, SameRows
    PROVE  StillRemoved
  BY KeptStays DEF StillRemoved

\* A reply that claims nothing fits every request.
LEMMA PlainFits ==
    ASSUME NEW what, NEW ok \in BOOLEAN, NEW ids, RepliesInv,
           what \in {"error", "refused", "subscribed", "devices", "plugins", "scan"}
             \/ (what = "permission" /\ ~ok),
           Tell(ids, Reply(what, ok, {})), world' = world, StillRemoved,
           granted \subseteq granted'
    PROVE  RepliesInv'
  <1> DEFINE r == Reply(what, ok, {})
  <1>1. r \in Replies /\ r.what = what /\ r.ok = ok /\ r.rows = {}
    BY DEF Reply, Replies
  <1> HIDE DEF r
  <1>2. \A i : Fits(i, r)'
    BY <1>1 DEF Fits
  <1>3. Tell(ids, r)
    BY DEF r
  <1> QED
    BY <1>1, <1>2, <1>3, RepliesKeep

LEMMA RepliesRequest ==
    ASSUME ReferencesInv, DatabaseInv, RepliesInv, NEW i \in asked, HandleRequest(i)
    PROVE  RepliesInv'
  <1> USE DEF told, database, history, SameRows
  <1>1. CASE Reject(i)
    <2>1. UNCHANGED <<world, granted>> /\ StillRemoved
      BY <1>1, SameRemoved DEF Reject
    <2>2. replies' = replies \/ Tell({i}, Reply("error", FALSE, {}))
      BY <1>1 DEF Reject
    <2> QED
      BY <2>1, <2>2, PlainFits, RepliesRest
  <1>2. CASE OnPluginListGet(i)
    <2>1. /\ UNCHANGED <<world, granted>> /\ StillRemoved
          /\ Tell({i}, Reply("plugins", TRUE, {}))
      BY <1>2, SameRemoved DEF OnPluginListGet
    <2> QED
      BY <2>1, PlainFits
  <1>3. ASSUME NEW op, NEW kind, AskFor(i, op, kind) PROVE RepliesInv'
    <2>1. UNCHANGED <<world, granted>>
      BY <1>3 DEF AskFor
    <2>3. StillRemoved
      <3>1. replies[i] = <<>> /\ RightRows
        BY NotHandled, DatabaseIs
      <3> QED
        BY <1>3, <3>1, KeptAsk DEF StillRemoved
    <2>2. replies' = replies \/ Tell({i}, Reply("subscribed", TRUE, {}))
      BY <1>3 DEF AskFor
    <2> QED
      BY <2>1, <2>2, <2>3, PlainFits, RepliesRest
  <1>4. ASSUME NEW kind,
               \/ AskForMeta(i, kind) \/ OnMediaDbPermissionGet(i)
               \/ OnDeviceListGet(i) \/ OnRequestMediaScan(i)
        PROVE  RepliesInv'
    <2>1. UNCHANGED <<world, granted, replies>> /\ StillRemoved
      BY <1>4, SameRemoved DEF AskForMeta, OnMediaDbPermissionGet,
                               OnDeviceListGet, OnRequestMediaScan
    <2> QED
      BY <2>1, RepliesRest
  <1> QED
    BY <1>1, <1>2, <1>3, <1>4 DEF HandleRequest, OnAudioListGet, OnVideoListGet,
       OnImageListGet, OnAudioMetadataGet, OnVideoMetadataGet,
       OnImageMetadataGet, OnRequestDelete

\* The main loop's request is told how it ended.
LEMMA RepliesHandler ==
    ASSUME DatabaseInv, RepliesInv, NEW t, NEW g,
           RunHandler \/ WakeUp \/ SendList(t) \/ (AnswerGrant(g) /\ g \in grants)
    PROVE  RepliesInv'
  <1> USE DEF told, database, client, history, SameRows
  <1>1. CASE RunHandler \/ WakeUp \/ SendList(t)
    <2>1. UNCHANGED <<world, granted>> /\ SameRows
      BY <1>1 DEF RunHandler, Denied, LockDevice, PushScan, NothingToScan,
                  WaitForScan, TimeOut, Woken, WakeUp, EndScan, SendList
    <2>2. \/ replies' = replies
          \/ Tell({req}, Reply("permission", FALSE, {}))
          \/ Tell({req}, Reply("scan", FALSE, {}))
          \/ Tell({req}, Reply("scan", TRUE, {}))
          \/ Tell({req}, Reply("devices", TRUE, {}))
      BY <1>1 DEF RunHandler, Denied, EndGrant, LockDevice, PushScan,
                  NothingToScan, WaitForScan, TimeOut, Woken, WakeUp,
                  EndScan, SendList
    <2> QED
      BY <2>1, <2>2, SameRemoved, PlainFits, RepliesRest
  <1>2. CASE AnswerGrant(g) /\ g \in grants
    <2>1. /\ world' = world /\ SameRows /\ granted' = granted \cup g.names
          /\ RightGrant(g)
          /\ \/ replies' = replies
             \/ req = g.for /\ Tell({req}, Reply("permission", TRUE, {}))
      BY <1>2, DatabaseIs DEF AnswerGrant, EndGrant
    <2> DEFINE r == Reply("permission", TRUE, {})
    <2>2. CASE req = g.for /\ Tell({req}, r)
      <3>1. r \in Replies /\ r.what = "permission" /\ r.rows = {}
        BY DEF Reply, Replies
      <3> HIDE DEF r
      <3>2. Sender(req) \in granted'
        BY <2>1, <2>2 DEF RightGrant
      <3>3. \A i \in {req} : Fits(i, r)'
        BY <3>1, <3>2 DEF Fits, Sender
      <3> QED
        BY <2>1, <2>2, <3>1, <3>3, SameRemoved, RepliesKeep
    <2> QED
      BY <2>1, <2>2, SameRemoved, RepliesRest
  <1> QED
    BY <1>1, <1>2

LEMMA RepliesDirect ==
    ASSUME ReferencesInv, RepliesInv, NEW c \in Clients, CallDirectly(c)
    PROVE  RepliesInv'
  <1> USE DEF database, history, SameRows
  <1> DEFINE i == NextCall(c)
             page == ItemsAt(FirstOf(Found(Query(i)), 0))
  <1>1. /\ UNCHANGED <<world, granted>> /\ StillRemoved /\ todo[c] # <<>>
        /\ \/ Tell({i}, Reply("refused", FALSE, {}))
           \/ Tell({i}, Reply("found", TRUE, page))
    BY SameRemoved DEF CallDirectly
  <1>2. CASE Tell({i}, Reply("refused", FALSE, {}))
    BY <1>1, <1>2, PlainFits
  <1>3. CASE Tell({i}, Reply("found", TRUE, page))
    <2>1. PICK r : r = Reply("found", TRUE, page)
      OBVIOUS
    <2>2. PICK j \in Ids : j = i
      BY <1>1, NextCallIs DEF ReferencesInv
    <2>3. PICK q : q = Query(j)
      OBVIOUS
    <2>4. q.after \in 0 .. Len(Rows) /\ q.uri = Asked(j).uri
      BY <2>3, RowsAre DEF Query
    <2>5. /\ Found(q) \in SUBSET (1 .. Len(Rows))
          /\ FirstOf(Found(q), 0) \subseteq Found(q)
          /\ \A p \in Found(q) : Rows[p] \in q.uri
      BY <2>4, FoundIs, FirstOfIs
    <2>6. page = ItemsAt(FirstOf(Found(q), 0))
      BY <2>2, <2>3
    <2>7. page \subseteq Items /\ page \subseteq q.uri
      BY <2>5, <2>6, RowsAre DEF ItemsAt
    <2> HIDE DEF page
    <2>8. r \in Replies /\ r.what = "found" /\ r.rows = page
      BY <2>1, <2>7 DEF Reply, Replies
    <2>9. Asked(j)' = Asked(j)
      BY <1>1, SameWorld
    <2>10. Fits(j, r)'
      BY <2>4, <2>7, <2>8, <2>9 DEF Fits
    <2>11. Tell({j}, r)
      BY <1>3, <2>1, <2>2
    <2>12. \A k \in {j} \cap Ids : Fits(k, r)'
      BY <2>10
    <2> QED
      BY <1>1, <2>8, <2>11, <2>12, RepliesKeep
  <1> QED
    BY <1>1, <1>2, <1>3

\* The result of a query, as its message or the subscribers are told of it.
LEMMA NotifyFits ==
    ASSUME ReferencesInv, DatabaseInv, RepliesInv, NEW m \in results,
           NEW r \in Replies, Notify(m.q, r), world' = world, SameRows,
           granted' = granted, m.q.op \in {"list", "meta", "delete"},
           r.what # "permission", r.what = "deleted" => m.q.op = "delete",
           r.rows \subseteq m.q.uri, m.q.op = "delete" => r.rows = {}
    PROVE  RepliesInv'
  <1> DEFINE q == m.q
             ids == IF q.obj = None THEN SubscribersOf(q) ELSE {q.obj}
  <1>1. RightQuery(q) /\ RightResult(m) /\ Tell(ids, r)
    BY DatabaseIs DEF Out, Notify
  <1>2. /\ q.for \in Ids /\ q.op = Asked(q.for).op /\ q.uri = Asked(q.for).uri
        /\ q.kind = Asked(q.for).kind
        /\ q.obj = q.for \/ (q.obj = None /\ Asked(q.for).sub)
    BY <1>1 DEF RightQuery
  <1>3. None \notin Ids
    BY IdsAre
  <1>4. Ids' = Ids /\ \A j : Asked(j)' = Asked(j)
    BY SameWorld
  <1>5. ASSUME NEW i \in ids \cap Ids PROVE Fits(i, r)'
    <2>1. CASE q.obj # None
      <3>1. i = q.for
        BY <1>2, <1>5, <2>1
      <3>2. r.rows \subseteq Asked(i).uri
        BY <1>2, <3>1
      <3>3. r.what = "deleted" => Removed(i)'
        BY <1>1, <3>1, KeptStays DEF RightResult
      <3> QED
        BY <1>4, <3>2, <3>3 DEF Fits
    <2>2. CASE q.obj = None
      <3>1. i \in SubscribersOf(q) /\ Asked(q.for).sub
        BY <1>2, <1>3, <1>5, <2>2
      <3>2. /\ Asked(i).sub /\ Asked(i).op = q.op
            /\ q.op = "delete" \/ Asked(i).kind = q.kind
        BY <3>1 DEF SubscribersOf, ReferencesInv, RequestsInv
      <3>3. \A x \in r.rows : /\ Asked(q.for).op = Asked(i).op
                              /\ x \in Asked(q.for).uri
        BY <1>2, <3>2
      <3> QED
        BY <1>2, <1>4, <3>1, <3>2, <3>3 DEF Fits
    <2> QED
      BY <2>1, <2>2
  <1> HIDE DEF ids
  <1> QED
    BY <1>1, <1>5, SameRemoved, RepliesKeep

LEMMA RepliesResult ==
    ASSUME ReferencesInv, DatabaseInv, RepliesInv, NEW m \in results,
           HandleResult(m)
    PROVE  RepliesInv'
  <1> USE DEF database
  <1>1. UNCHANGED <<world, granted>> /\ SameRows
    BY DEF HandleResult, SameRows
  <1>2. RightResult(m) /\ m.page \in SUBSET (1 .. Len(Rows))
    BY DatabaseIs DEF RightResult
  <1>3. ItemsAt(m.page) \subseteq m.q.uri \cap Items
    BY <1>2, RowsAre DEF RightResult, ItemsAt
  <1>4. CASE HandleList(m)
    <2>1. PICK r : r = Reply("page", TRUE, ItemsAt(m.page))
      OBVIOUS
    <2>2. m.q.op = "list" /\ Notify(m.q, r)
      BY <1>4, <2>1 DEF HandleList
    <2>3. r \in Replies /\ r.what = "page" /\ r.rows \subseteq m.q.uri
      BY <1>3, <2>1 DEF Reply, Replies
    <2> QED
      BY <1>1, <2>2, <2>3, NotifyFits
  <1>5. CASE HandleMetaData(m)
    <2>1. CASE m.page = {}
      <3>1. PICK r : r = Reply("error", FALSE, {})
        OBVIOUS
      <3>2. m.q.op = "meta" /\ Notify(m.q, r)
        BY <1>5, <2>1, <3>1 DEF HandleMetaData
      <3>3. r \in Replies /\ r.what = "error" /\ r.rows = {}
        BY <3>1 DEF Reply, Replies
      <3> QED
        BY <1>1, <3>2, <3>3, NotifyFits
    <2>2. CASE m.page # {}
      <3>1. PICK ok \in BOOLEAN :
              Notify(m.q, Reply("meta", ok, {Rows[Min(m.page)]}))
        BY <1>5, <2>2 DEF HandleMetaData
      <3>2. PICK r : r = Reply("meta", ok, {Rows[Min(m.page)]})
        OBVIOUS
      <3>3. Min(m.page) \in m.page
        <4>1. m.page \in SUBSET Nat
          BY <1>2, RowsAre
        <4> QED
          BY <2>2, <4>1, LeastIs
      <3>4. {Rows[Min(m.page)]} \subseteq ItemsAt(m.page)
        BY <3>3 DEF ItemsAt
      <3>5. r \in Replies /\ r.what = "meta" /\ r.rows \subseteq m.q.uri
        BY <1>3, <3>2, <3>4 DEF Reply, Replies
      <3>6. m.q.op = "meta"
        BY <1>5 DEF HandleMetaData
      <3> QED
        BY <1>1, <3>1, <3>2, <3>5, <3>6, NotifyFits
    <2> QED
      BY <2>1, <2>2
  <1>6. CASE HandleDelete(m)
    <2>1. PICK r : r = Reply("deleted", m.ok, {})
      OBVIOUS
    <2>2. m.q.op = "delete" /\ Notify(m.q, r)
      BY <1>6, <2>1 DEF HandleDelete
    <2>3. r \in Replies /\ r.what = "deleted" /\ r.rows = {}
      BY <1>2, <2>1 DEF Reply, Replies, RightResult
    <2> QED
      BY <1>1, <2>2, <2>3, NotifyFits
  <1>7. CASE HandleClean(m) \/ HandleRemove(m)
    <2>1. replies' = replies
      BY <1>7 DEF HandleClean, HandleRemove
    <2> QED
      BY <1>1, <2>1, SameRemoved, RepliesRest
  <1> QED
    BY <1>4, <1>5, <1>6, <1>7 DEF HandleResult

LEMMA InitReplies == Init => RepliesInv
  <1> SUFFICES ASSUME Init PROVE RepliesInv
    OBVIOUS
  <1>1. replies = [i \in Ids |-> <<>>]
    BY DEF Init
  <1>2. replies \in [Ids -> Seq(Replies)] /\ \A i \in Ids : DOMAIN replies[i] = {}
    BY <1>1
  <1> QED
    BY <1>2, RepliesAre

\* Steps that tell nobody anything.
LEMMA RepliesOther ==
    ASSUME DatabaseInv, RepliesInv, NEW t, NEW d,
           \/ GoOn(d) \/ ScanLoop(d) \/ TakePut(d) \/ Attach(d) \/ Send(d)
           \/ Cancel(d) \/ Clean(d)
           \/ (Answer(d) /\ d \in queries) \/ (WriteRow(d) /\ d \in Items)
           \/ CountPut \/ Unmark \/ Rescan \/ BuildList(t)
           \/ ProcessingDone(t) \/ NotifyScanDone(t) \/ UNCHANGED vars
    PROVE  RepliesInv'
  <1> USE DEF told, database, history, SameRows
  <1>1. /\ world' = world /\ StillRemoved /\ granted' = granted
        /\ replies' = replies
    <2>1. CASE GoOn(d) \/ ScanLoop(d) \/ TakePut(d) \/ Attach(d) \/ Send(d)
      BY <2>1, SameRemoved DEF GoOn, ScanLoop, BeginScan, SetScanning, WalkFile, SetParsing,
                  PopScan, TakePut, Attach, Send
    <2>2. CASE Cancel(d) \/ Clean(d)
      BY <2>2, SameRemoved DEF Cancel, Clean
    <2>3. CASE CountPut \/ Unmark \/ Rescan
      BY <2>3, SameRemoved DEF CountPut, Unmark, Rescan
    <2>4. CASE BuildList(t) \/ ProcessingDone(t) \/ NotifyScanDone(t)
               \/ UNCHANGED vars
      BY <2>4, SameRemoved DEF BuildList, ProcessingDone, NotifyScanDone, vars
    <2>5. CASE Answer(d) /\ d \in queries
      BY <2>5, KeptAnswer DEF Answer, StillRemoved
    <2>6. CASE WriteRow(d) /\ d \in Items
      BY <2>6, KeptWrite, DatabaseIs DEF WriteRow, StillRemoved
    <2> QED
      BY <2>1, <2>2, <2>3, <2>4, <2>5, <2>6
  <1> QED
    BY <1>1, RepliesRest

LEMMA StepReplies ==
    ASSUME ReferencesInv, DatabaseInv, RepliesInv, [Next]_vars
    PROVE  RepliesInv'
  <1>1. CASE Running
    <2>1. ASSUME NEW i \in asked, HandleRequest(i) PROVE RepliesInv'
      BY <2>1, RepliesRequest
    <2>2. ASSUME NEW m \in results, HandleResult(m) PROVE RepliesInv'
      BY <2>2, RepliesResult
    <2>3. ASSUME NEW d, ScanLoop(d) \/ Clean(d) PROVE RepliesInv'
      BY <2>3, RepliesOther
    <2>4. ASSUME NEW x, \/ GoOn(x) \/ BuildList(x) \/ SendList(x)
                        \/ ProcessingDone(x) \/ NotifyScanDone(x)
          PROVE  RepliesInv'
      BY <2>4, RepliesOther, RepliesHandler
    <2>5. CASE RunHandler \/ CountPut \/ Unmark \/ Rescan
      BY <2>5, RepliesOther, RepliesHandler
    <2> QED
      BY <1>1, <2>1, <2>2, <2>3, <2>4, <2>5 DEF Running
  <1>2. CASE Environment
    <2>1. ASSUME NEW c \in Clients, CallDirectly(c) PROVE RepliesInv'
      BY <2>1, RepliesDirect
    <2>2. ASSUME NEW g \in grants, AnswerGrant(g) PROVE RepliesInv'
      BY <2>2, RepliesHandler
    <2>3. ASSUME NEW x, \/ Send(x) \/ Cancel(x) \/ TakePut(x) \/ Attach(x)
                        \/ (Answer(x) /\ x \in queries)
                        \/ (WriteRow(x) /\ x \in Items)
          PROVE  RepliesInv'
      BY <2>3, RepliesOther
    <2>4. CASE WakeUp
      BY <2>4, RepliesHandler
    <2> QED
      BY <1>2, <2>1, <2>2, <2>3, <2>4 DEF Environment
  <1> QED
    BY <1>1, <1>2, RepliesOther DEF Next

-----------------------------------------------------------------------------
(* What subscribers to a list have been told of it.                        *)

\* Subscriber i knows all it wants, or the rest is on its way.
Learns(i) ==
    \/ Wanted(i) \subseteq Told(i)
    \/ \E q \in queries : Asks(q, i) /\ WantedTo(i, q.after) \subseteq Told(i)
    \/ \E m \in results :
         /\ Asks(m.q, i)
         /\ (IF m.more THEN WantedTo(i, LastPosition(m)) ELSE Wanted(i))
              \subseteq Told(i) \cup ItemsAt(m.page)

LEMMA LearningIs ==
    LearningInv <=> \A i \in subs \ refused : Asked(i).op = "list" => Learns(i)
  BY DEF LearningInv, Learns

\* Somebody may be told something.
Speaks == replies' = replies \/ \E ids, r : Tell(ids, r)

LEMMA TellTold ==
    ASSUME RepliesInv, world' = world, NEW i \in Ids, NEW ids, NEW r, Tell(ids, r)
    PROVE  Told(i)' = IF i \in ids THEN Told(i) \cup r.rows ELSE Told(i)
  <1>1. replies[i] \in Seq(Replies)
    BY RepliesAre
  <1>2. replies'[i] = IF i \in ids THEN Append(replies[i], r) ELSE replies[i]
    BY DEF Tell
  <1>3. CASE i \notin ids
    BY <1>2, <1>3 DEF Told
  <1>4. CASE i \in ids
    <2> DEFINE s == replies[i]
               n == Len(s)
    <2>1. /\ n \in Nat /\ DOMAIN s = 1 .. n /\ DOMAIN Append(s, r) = 1 .. n + 1
          /\ Append(s, r)[n + 1] = r /\ \A k \in 1 .. n : Append(s, r)[k] = s[k]
      BY <1>1
    <2>2. \A k : k \in 1 .. n + 1 <=> k \in 1 .. n \/ k = n + 1
      <3> HIDE DEF n
      <3> QED
        BY <2>1
    <2>3. Told(i)' = UNION {Append(s, r)[k].rows : k \in DOMAIN Append(s, r)}
      BY <1>2, <1>4 DEF Told
    <2>4. ASSUME NEW x
          PROVE  x \in Told(i)' <=> x \in Told(i) \/ x \in r.rows
      <3>1. x \in Told(i)' <=> \E k \in 1 .. n + 1 : x \in Append(s, r)[k].rows
        BY <2>1, <2>3
      <3>2. x \in Told(i) <=> \E k \in 1 .. n : x \in s[k].rows
        BY <2>1 DEF Told
      <3> HIDE DEF s, n
      <3> QED
        BY <2>1, <2>2, <3>1, <3>2
    <2> QED
      BY <1>4, <2>4
  <1> QED
    BY <1>3, <1>4

LEMMA ToldGrows ==
    ASSUME RepliesInv, world' = world, Speaks, NEW i \in Ids
    PROVE  Told(i) \subseteq Told(i)'
  <1>1. CASE replies' = replies
    BY <1>1 DEF Told
  <1>2. ASSUME NEW ids, NEW r, Tell(ids, r) PROVE Told(i) \subseteq Told(i)'
    BY <1>2, TellTold
  <1> QED
    BY <1>1, <1>2 DEF Speaks

\* A step that takes no query and no result away leaves a subscriber as it is.
LEMMA StillLearns ==
    ASSUME ReferencesInv, RepliesInv, NEW i \in Ids, world' = world,
           Kept(i)' \subseteq Kept(i), Told(i) \subseteq Told(i)',
           Learns(i),
           \A q \in queries : Asks(q, i) => q \in queries',
           \A m \in results : Asks(m.q, i) => m \in results'
    PROVE  Learns(i)'
  <1>1. Ids' = Ids /\ Asked(i)' = Asked(i)
    BY SameWorld
  <1>2. Wanted(i)' \subseteq Wanted(i)
    BY <1>1 DEF Wanted
  <1>3. \A n : WantedTo(i, n)' \subseteq WantedTo(i, n)
    BY <1>2 DEF WantedTo, ItemsAt
  <1>4. CASE Wanted(i) \subseteq Told(i)
    BY <1>2, <1>4 DEF Learns
  <1>5. ASSUME NEW q \in queries, Asks(q, i), WantedTo(i, q.after) \subseteq Told(i)
        PROVE  Learns(i)'
    <2>1. q \in queries' /\ Asks(q, i)' /\ WantedTo(i, q.after)' \subseteq Told(i)'
      BY <1>3, <1>5 DEF Asks
    <2> QED
      BY <2>1 DEF Learns
  <1>6. ASSUME NEW m \in results, Asks(m.q, i),
               (IF m.more THEN WantedTo(i, LastPosition(m)) ELSE Wanted(i))
                 \subseteq Told(i) \cup ItemsAt(m.page)
        PROVE  Learns(i)'
    <2>1. /\ m \in results' /\ Asks(m.q, i)'
          /\ (IF m.more THEN WantedTo(i, LastPosition(m))' ELSE Wanted(i)')
                \subseteq Told(i)' \cup ItemsAt(m.page)
      BY <1>2, <1>3, <1>6 DEF Asks
    <2>2. LastPosition(m)' = LastPosition(m) /\ ItemsAt(m.page)' = ItemsAt(m.page)
      BY DEF LastPosition, ItemsAt
    <2> QED
      BY <2>1, <2>2 DEF Learns
  <1> QED
    BY <1>4, <1>5, <1>6 DEF Learns

LEMMA SubscribersAre ==
    ASSUME ReferencesInv
    PROVE  subs \subseteq Ids
  BY DEF ReferencesInv, RequestsInv

\* A step with which nobody subscribes to a list.
LEMMA LearningKeeps ==
    ASSUME ReferencesInv, RepliesInv, LearningInv, world' = world,
           \A i \in Ids : Kept(i)' \subseteq Kept(i), Speaks,
           \A i \in subs' \ refused' : Asked(i).op = "list" => i \in subs \ refused,
           queries \subseteq queries',
           \A m \in results : m.q.op = "list" => m \in results'
    PROVE  LearningInv'
  <1>1. Ids' = Ids /\ \A i : Asked(i)' = Asked(i)
    BY SameWorld
  <1>2. ASSUME NEW i \in subs' \ refused', Asked(i).op = "list"
        PROVE  Learns(i)'
    <2>1. i \in subs \ refused /\ i \in Ids /\ Learns(i)
      BY <1>2, SubscribersAre, LearningIs
    <2>2. Told(i) \subseteq Told(i)'
      BY <2>1, ToldGrows
    <2>3. /\ \A q \in queries : Asks(q, i) => q \in queries'
          /\ \A m \in results : Asks(m.q, i) => m \in results'
      BY DEF Asks
    <2> QED
      BY <2>1, <2>2, <2>3, StillLearns
  <1>3. (LearningInv <=>
           \A i \in subs \ refused : Asked(i).op = "list" => Learns(i))'
    BY LearningIs, PTL
  <1> QED
    BY <1>1, <1>2, <1>3

LEMMA LearningFrom ==
    ASSUME ReferencesInv, world' = world,
           \A i \in subs' \ refused' : Asked(i).op = "list" => Learns(i)'
    PROVE  LearningInv'
  <1>1. \A i : Asked(i)' = Asked(i)
    BY SameWorld
  <1>2. (LearningInv <=>
           \A i \in subs \ refused : Asked(i).op = "list" => Learns(i))'
    BY LearningIs, PTL
  <1> QED
    BY <1>1, <1>2

\* A new subscriber wants nothing from before the first page.
LEMMA LearningAskFor ==
    ASSUME ReferencesInv, DatabaseInv, RepliesInv, LearningInv, NEW i \in asked,
           NEW op, NEW kind, AskFor(i, op, kind)
    PROVE  LearningInv'
  <1>1. /\ world' = world /\ results' = results
        /\ subs' \subseteq subs \cup {i} /\ Speaks
        /\ subs' # subs => Asked(i).sub
        /\ i \in Ids /\ i \notin subs
    BY NotHandled DEF AskFor, Speaks
  <1>2. PICK taken \in Taken : Ask(Query(i), i, taken)
    BY DEF AskFor
  <1>3. /\ refused \subseteq refused' /\ queries \subseteq queries'
        /\ i \notin refused' => Query(i) \in queries'
    BY <1>2 DEF Ask
  <1>4. ASSUME NEW j \in subs' \ refused', Asked(j).op = "list"
        PROVE  Learns(j)'
    <2>1. CASE j # i
      <3>1. j \in subs \ refused /\ j \in Ids /\ Learns(j)
        BY <1>1, <1>3, <1>4, <2>1, SubscribersAre, LearningIs
      <3>2. Told(j) \subseteq Told(j)'
        BY <1>1, <3>1, ToldGrows
      <3>3. Kept(j)' \subseteq Kept(j)
        BY <2>1, KeptAsk, DatabaseIs
      <3> QED
        BY <1>1, <1>3, <3>1, <3>2, <3>3, StillLearns
    <2>2. CASE j = i
      <3>1. PICK q : q = Query(i)
        OBVIOUS
      <3>2. q \in queries' /\ Asks(q, i) /\ q.after = 0
        BY <1>1, <1>3, <1>4, <2>2, <3>1 DEF Query, Asks
      <3>3. \A n : n \notin 1 .. 0
        OBVIOUS
      <3>4. WantedTo(i, q.after)' = {}
        BY <3>2, <3>3 DEF WantedTo, ItemsAt
      <3> QED
        BY <2>2, <3>2, <3>4 DEF Learns, Asks
    <2> QED
      BY <2>1, <2>2
  <1> QED
    BY <1>1, <1>4, LearningFrom

\* The page that answers a query begins where the query does, and leaves out
\* nothing before its last item.
LEMMA LearningAnswer ==
    ASSUME ReferencesInv, DatabaseInv, RepliesInv, LearningInv,
           NEW q \in queries, Answer(q)
    PROVE  LearningInv'
  <1> USE DEF client, told, service, handler, history
  <1>1. /\ UNCHANGED <<world, replies, subs, refused, dirty>>
        /\ queries' = queries \ {q} /\ results \subseteq results'
        /\ q.op = "list" => SameRows
    BY DEF Answer, SameRows
  <1>2. ASSUME NEW i \in subs \ refused, Asked(i).op = "list", Asks(q, i),
               WantedTo(i, q.after) \subseteq Told(i)
        PROVE  Learns(i)'
    <2>1. /\ RightQuery(q) /\ q.op = "list" /\ q.for = i
          /\ q.after \in 0 .. Len(Rows)
      BY <1>2, DatabaseIs DEF Out, Asks, RightQuery
    <2>2. q.uri = Asked(i).uri /\ q.kind = Asked(i).kind
      BY <2>1 DEF RightQuery
    <2>3. PICK page : page = FirstOf(Found(q), q.limit)
      OBVIOUS
    <2>4. /\ Found(q) \in SUBSET (1 .. Len(Rows)) /\ page \subseteq Found(q)
          /\ Found(q) # {} => page # {}
          /\ \A p \in page, n \in Found(q) : n <= p => n \in page
      BY <2>1, <2>3, FoundIs, FirstOfIs
    <2>5. PICK m \in results' : m.q = q /\ m.page = page
                                /\ (m.more <=> Found(q) # page)
      <3> DEFINE delete == q.op \in {"delete", "remove"}
                 m == [q |-> q, ok |-> ~delete \/ q.kind # None,
                       page |-> IF delete THEN {} ELSE page,
                       more |-> ~delete /\ Found(q) # page]
      <3>1. m \in results'
        BY <2>3 DEF Answer
      <3>2. m.q = q /\ m.page = page /\ (m.more <=> Found(q) # page)
        BY <2>1
      <3> HIDE DEF m
      <3> QED
        BY <3>1, <3>2
    <2>6. dirty \subseteq world.dirty
      BY DEF DatabaseInv
    <2>7. ASSUME NEW n \in 1 .. Len(Rows), Rows[n] \in Wanted(i), n > q.after
          PROVE  n \in Found(q)
      <3>1. n \in q.after + 1 .. Len(Rows)
        BY <2>1, <2>7, RowsAre
      <3>2. /\ Rows[n] \in rows /\ Rows[n] \notin dirty /\ Rows[n] \in q.uri
            /\ Kind[Rows[n]] = q.kind
        BY <2>2, <2>6, <2>7 DEF Wanted, Kept
      <3> QED
        BY <2>1, <3>1, <3>2 DEF Found
    <2>8. ASSUME NEW n \in 1 .. Len(Rows), Rows[n] \in Wanted(i),
                 ~m.more \/ n <= LastPosition(m)
          PROVE  Rows[n] \in Told(i) \cup ItemsAt(m.page)
      <3>1. CASE n <= q.after
        <4>1. n \in 1 .. q.after
          BY <2>1, <3>1
        <4>2. Rows[n] \in WantedTo(i, q.after)
          BY <2>8, <4>1 DEF WantedTo, ItemsAt
        <4> QED
          BY <1>2, <4>2
      <3>2. CASE n > q.after
        <4>1. n \in Found(q)
          BY <2>7, <2>8, <3>2
        <4>2. n \in page
          <5>1. CASE ~m.more
            BY <2>5, <4>1, <5>1
          <5>2. CASE m.more /\ n <= LastPosition(m)
            <6>1. page # {} /\ page \in SUBSET (0 .. Len(Rows)) /\ Len(Rows) \in Nat
              BY <2>4, <2>5, <4>1, RowsAre
            <6>2. LastPosition(m) \in page
              BY <2>5, <6>1, GreatestIs DEF LastPosition
            <6> QED
              BY <2>4, <4>1, <5>2, <6>2
          <5> QED
            BY <2>8, <5>1, <5>2
        <4> QED
          BY <2>5, <4>2 DEF ItemsAt
      <3>3. n \in Nat /\ q.after \in Nat
        BY <2>1
      <3> QED
        BY <3>1, <3>2, <3>3
    <2>9. Wanted(i) \subseteq Items
      BY DEF Wanted, Kept, DatabaseInv
    <2>10. ~m.more => Wanted(i) \subseteq Told(i) \cup ItemsAt(m.page)
      BY <2>8, <2>9, RowsAre
    <2>11. m.more =>
             WantedTo(i, LastPosition(m)) \subseteq Told(i) \cup ItemsAt(m.page)
      <3> SUFFICES ASSUME m.more, NEW r \in WantedTo(i, LastPosition(m))
                   PROVE  r \in Told(i) \cup ItemsAt(m.page)
        OBVIOUS
      <3>1. PICK k \in 1 .. LastPosition(m) : r = Rows[k]
        BY DEF WantedTo, ItemsAt
      <3>2. r \in Wanted(i)
        BY DEF WantedTo
      <3>3. PICK n \in 1 .. Len(Rows) : r = Rows[n]
        BY <2>9, <3>2, RowsAre
      <3>4. page # {} /\ page \in SUBSET (0 .. Len(Rows)) /\ Len(Rows) \in Nat
        <4>1. Found(q) # {}
          BY <2>4, <2>5
        <4>2. page # {}
          BY <2>4, <4>1
        <4>3. Len(Rows) \in Nat /\ page \in SUBSET (1 .. Len(Rows))
          BY <2>4, RowsAre
        <4> QED
          BY <4>2, <4>3
      <3>5. LastPosition(m) \in 1 .. Len(Rows)
        <4>1. LastPosition(m) \in page
          BY <2>5, <3>4, GreatestIs DEF LastPosition
        <4> QED
          BY <2>4, <4>1
      <3>6. k \in 1 .. Len(Rows)
        BY <3>4, <3>5
      <3>7. n = k
        BY <3>1, <3>3, <3>6, RowsAre
      <3>8. n <= LastPosition(m)
        BY <3>7
      <3> QED
        BY <2>8, <3>2, <3>3, <3>8
    <2>12. /\ Asks(m.q, i)' /\ Told(i)' = Told(i) /\ Wanted(i)' = Wanted(i)
           /\ \A n : WantedTo(i, n)' = WantedTo(i, n)
      <3>1. Kept(i)' = Kept(i) /\ Asked(i)' = Asked(i)
        BY <1>1, <2>1, SameWorld, KeptStays
      <3>2. Wanted(i)' = Wanted(i) /\ Told(i)' = Told(i)
        BY <1>1, <3>1 DEF Wanted, Told
      <3> QED
        BY <1>2, <2>5, <3>2 DEF Asks, WantedTo, ItemsAt
    <2>13. LastPosition(m)' = LastPosition(m) /\ ItemsAt(m.page)' = ItemsAt(m.page)
      BY DEF LastPosition, ItemsAt
    <2> QED
      BY <2>5, <2>10, <2>11, <2>12, <2>13 DEF Learns
  <1>3. ASSUME NEW i \in subs' \ refused', Asked(i).op = "list"
        PROVE  Learns(i)'
    <2>1. i \in subs \ refused /\ i \in Ids /\ Learns(i)
      BY <1>1, <1>3, SubscribersAre, LearningIs
    <2>2. CASE Asks(q, i) /\ WantedTo(i, q.after) \subseteq Told(i)
      BY <1>2, <1>3, <2>1, <2>2
    <2>3. CASE ~(Asks(q, i) /\ WantedTo(i, q.after) \subseteq Told(i))
      <3>1. Told(i)' = Told(i)
        BY <1>1 DEF Told
      <3>2. Ids' = Ids /\ Asked(i)' = Asked(i)
        BY <1>1, SameWorld
      <3>3. Wanted(i)' \subseteq Wanted(i)
        <4>1. RightQuery(q)
          BY DatabaseIs DEF Out
        <4>2. ~(q.op = "delete" /\ i = q.for)
          BY <1>1, <1>3, <4>1 DEF RightQuery
        <4>3. Kept(i)' \subseteq Kept(i)
          BY <4>2, KeptAnswer
        <4> QED
          BY <1>1, <3>2, <4>3 DEF Wanted
      <3>4. \A n : WantedTo(i, n)' \subseteq WantedTo(i, n)
        BY <3>3 DEF WantedTo, ItemsAt
      <3>5. CASE Wanted(i) \subseteq Told(i)
        BY <3>1, <3>3, <3>5 DEF Learns
      <3>6. ASSUME NEW p \in queries, Asks(p, i), WantedTo(i, p.after) \subseteq Told(i)
            PROVE  Learns(i)'
        <4>1. p \in queries' /\ Asks(p, i)' /\ WantedTo(i, p.after)' \subseteq Told(i)'
          BY <1>1, <2>3, <3>1, <3>4, <3>6 DEF Asks
        <4> QED
          BY <4>1 DEF Learns
      <3>7. ASSUME NEW m \in results, Asks(m.q, i),
                   (IF m.more THEN WantedTo(i, LastPosition(m)) ELSE Wanted(i))
                     \subseteq Told(i) \cup ItemsAt(m.page)
            PROVE  Learns(i)'
        <4>1. /\ m \in results' /\ Asks(m.q, i)'
              /\ (IF m.more THEN WantedTo(i, LastPosition(m))' ELSE Wanted(i)')
                    \subseteq Told(i)' \cup ItemsAt(m.page)
          BY <1>1, <3>1, <3>3, <3>4, <3>7 DEF Asks
        <4>2. /\ LastPosition(m)' = LastPosition(m)
              /\ ItemsAt(m.page)' = ItemsAt(m.page)
          BY DEF LastPosition, ItemsAt
        <4> QED
          BY <4>1, <4>2 DEF Learns
      <3> QED
        BY <2>1, <3>5, <3>6, <3>7 DEF Learns
    <2> QED
      BY <2>2, <2>3
  <1> QED
    BY <1>1, <1>3, LearningFrom

\* A page that is told to the subscribers: the next one is asked for, or there
\* is none.
LEMMA LearningList ==
    ASSUME ReferencesInv, DatabaseInv, RepliesInv, LearningInv,
           NEW m \in results, HandleResult(m), HandleList(m)
    PROVE  LearningInv'
  <1> USE DEF database
  <1>1. /\ UNCHANGED <<world, subs>> /\ SameRows /\ results' = results \ {m}
        /\ queries \subseteq queries' /\ refused \subseteq refused'
    BY DEF HandleResult, HandleList, Ask, SameRows
  <1>2. PICK r : r = Reply("page", TRUE, ItemsAt(m.page))
    OBVIOUS
  <1>3. /\ m.q.op = "list" /\ r.rows = ItemsAt(m.page)
        /\ Tell(IF m.q.obj = None THEN SubscribersOf(m.q) ELSE {m.q.obj}, r)
    BY <1>2 DEF HandleList, Notify, Reply
  <1>4. Speaks
    BY <1>3 DEF Speaks
  <1>5. RightQuery(m.q) /\ m.q = Fields(m.q)
    BY DatabaseIs DEF Out, ReferencesInv, QueriesInv, Fields
  <1>6. ASSUME NEW i \in subs' \ refused', Asked(i).op = "list"
        PROVE  Learns(i)'
    <2>1. i \in subs \ refused /\ i \in Ids /\ Learns(i)
      BY <1>1, <1>6, SubscribersAre, LearningIs
    <2>2. Told(i) \subseteq Told(i)'
      BY <1>1, <1>4, <2>1, ToldGrows
    <2>3. CASE ~Asks(m.q, i)
      <3>1. \A n \in results : Asks(n.q, i) => n \in results'
        BY <1>1, <2>3
      <3> QED
        BY <1>1, <2>1, <2>2, <3>1, KeptStays, StillLearns
    <2>4. CASE Asks(m.q, i)
      <3>1. i \in SubscribersOf(m.q) /\ m.q.obj = None /\ m.q.for = i
        BY <1>3, <1>5, <2>1, <2>4 DEF Asks, RightQuery, SubscribersOf
      <3>2. Told(i)' = Told(i) \cup ItemsAt(m.page)
        BY <1>1, <1>3, <2>1, <3>1, TellTold
      <3>3. Asked(i)' = Asked(i)
        BY <1>1, SameWorld
      <3>4. Wanted(i)' = Wanted(i)
        BY <1>1, <3>3, KeptStays DEF Wanted
      <3>5. \A n : WantedTo(i, n)' = WantedTo(i, n)
        BY <3>4 DEF WantedTo, ItemsAt
      <3>6. CASE \/ Wanted(i) \subseteq Told(i)
                 \/ \E q \in queries :
                      Asks(q, i) /\ WantedTo(i, q.after) \subseteq Told(i)
                 \/ \E n \in results \ {m} :
                      /\ Asks(n.q, i)
                      /\ (IF n.more THEN WantedTo(i, LastPosition(n)) ELSE Wanted(i))
                           \subseteq Told(i) \cup ItemsAt(n.page)
        <4>1. CASE Wanted(i) \subseteq Told(i)
          BY <2>2, <3>4, <4>1 DEF Learns
        <4>2. ASSUME NEW q \in queries, Asks(q, i),
                     WantedTo(i, q.after) \subseteq Told(i)
              PROVE  Learns(i)'
          <5>1. q \in queries' /\ Asks(q, i)' /\ WantedTo(i, q.after)' \subseteq Told(i)'
            BY <1>1, <2>2, <3>5, <4>2 DEF Asks
          <5> QED
            BY <5>1 DEF Learns
        <4>3. ASSUME NEW n \in results \ {m}, Asks(n.q, i),
                     (IF n.more THEN WantedTo(i, LastPosition(n)) ELSE Wanted(i))
                       \subseteq Told(i) \cup ItemsAt(n.page)
              PROVE  Learns(i)'
          <5>1. /\ n \in results' /\ Asks(n.q, i)'
                /\ (IF n.more THEN WantedTo(i, LastPosition(n))' ELSE Wanted(i)')
                      \subseteq Told(i)' \cup ItemsAt(n.page)
            BY <1>1, <2>2, <3>4, <3>5, <4>3 DEF Asks
          <5>2. /\ LastPosition(n)' = LastPosition(n)
                /\ ItemsAt(n.page)' = ItemsAt(n.page)
            BY DEF LastPosition, ItemsAt
          <5> QED
            BY <5>1, <5>2 DEF Learns
        <4> QED
          BY <3>6, <4>1, <4>2, <4>3
      <3>7. CASE (IF m.more THEN WantedTo(i, LastPosition(m)) ELSE Wanted(i))
                   \subseteq Told(i) \cup ItemsAt(m.page)
        <4>1. CASE ~m.more
          BY <3>2, <3>4, <3>7, <4>1 DEF Learns
        <4>2. CASE m.more
          <5> DEFINE q == [m.q EXCEPT !.after = LastPosition(m)]
          <5>1. \E taken \in Taken : Ask(q, m.q.for, taken)
            BY <3>1, <4>2 DEF HandleList
          <5>2. /\ q.op = m.q.op /\ q.for = m.q.for /\ q.obj = m.q.obj
                /\ q.after = LastPosition(m)
            BY <1>5 DEF Fields
          <5> HIDE DEF q
          <5>3. q \in queries'
            BY <1>6, <3>1, <5>1 DEF Ask
          <5>4. Asks(q, i)
            BY <2>4, <5>2 DEF Asks
          <5>5. WantedTo(i, q.after)' \subseteq Told(i)'
            BY <3>2, <3>5, <3>7, <4>2, <5>2
          <5>6. \E p \in queries' : Asks(p, i) /\ WantedTo(i, p.after)' \subseteq Told(i)'
            BY <5>3, <5>4, <5>5
          <5> QED
            BY <5>6 DEF Learns, Asks
        <4> QED
          BY <4>1, <4>2
      <3> QED
        BY <2>1, <2>4, <3>6, <3>7 DEF Learns
    <2> QED
      BY <2>3, <2>4
  <1> QED
    BY <1>1, <1>6, LearningFrom

\* Everything else takes no query or result of a list away, and nobody
\* subscribes to a list with it.
LEMMA LearningOther ==
    ASSUME ReferencesInv, RepliesInv, LearningInv, NEW t, NEW d,
           \/ GoOn(d) \/ ScanLoop(d) \/ TakePut(d) \/ Attach(d) \/ Send(d)
           \/ CallDirectly(d) \/ Cancel(d) \/ Clean(d) \/ AnswerGrant(d)
           \/ CountPut \/ Unmark \/ Rescan \/ RunHandler \/ WakeUp \/ BuildList(t)
           \/ SendList(t) \/ ProcessingDone(t) \/ NotifyScanDone(t)
           \/ UNCHANGED vars
    PROVE  LearningInv'
  <1> USE DEF client, told, service, handler, bus, database, history, SameRows
  <1>1. /\ world' = world /\ SameRows /\ subs' \subseteq subs
        /\ refused' = refused /\ queries \subseteq queries' /\ results' = results
    <2>1. CASE GoOn(d) \/ ScanLoop(d) \/ TakePut(d) \/ Attach(d) \/ Send(d)
      BY <2>1 DEF GoOn, ScanLoop, BeginScan, SetScanning, WalkFile, SetParsing,
                  PopScan, TakePut, Attach, Send
    <2>2. CASE CallDirectly(d) \/ Cancel(d) \/ Clean(d) \/ AnswerGrant(d)
      BY <2>2 DEF CallDirectly, Cancel, Clean, AnswerGrant
    <2>3. CASE CountPut \/ Unmark \/ Rescan
      BY <2>3 DEF CountPut, Unmark, Rescan
    <2>4. CASE RunHandler \/ WakeUp
      BY <2>4 DEF RunHandler, Denied, LockDevice, PushScan, NothingToScan,
                  WaitForScan, TimeOut, Woken, WakeUp, EndScan
    <2>5. CASE BuildList(t) \/ SendList(t) \/ ProcessingDone(t)
               \/ NotifyScanDone(t) \/ UNCHANGED vars
      BY <2>5 DEF BuildList, SendList, ProcessingDone, NotifyScanDone, vars
    <2> QED
      BY <2>1, <2>2, <2>3, <2>4, <2>5
  <1>2. Speaks
    <2>1. CASE GoOn(d) \/ ScanLoop(d) \/ TakePut(d) \/ Attach(d) \/ Send(d)
               \/ Cancel(d) \/ Clean(d)
      BY <2>1 DEF GoOn, ScanLoop, BeginScan, SetScanning, WalkFile, SetParsing,
                  PopScan, TakePut, Attach, Send, Cancel, Clean, Speaks
    <2>2. CASE CallDirectly(d) \/ AnswerGrant(d)
      BY <2>2 DEF CallDirectly, AnswerGrant, EndGrant, Speaks
    <2>3. CASE CountPut \/ Unmark \/ Rescan
      BY <2>3 DEF CountPut, Unmark, Rescan, Speaks
    <2>4. CASE RunHandler \/ WakeUp
      BY <2>4 DEF RunHandler, Denied, EndGrant, LockDevice, PushScan,
                  NothingToScan, WaitForScan, TimeOut, Woken, WakeUp,
                  EndScan, Speaks
    <2>5. CASE BuildList(t) \/ SendList(t) \/ ProcessingDone(t)
               \/ NotifyScanDone(t) \/ UNCHANGED vars
      BY <2>5 DEF BuildList, SendList, ProcessingDone, NotifyScanDone, vars, Speaks
    <2> QED
      BY <2>1, <2>2, <2>3, <2>4, <2>5
  <1> QED
    BY <1>1, <1>2, KeptStays, LearningKeeps

LEMMA LearningWrite ==
    ASSUME ReferencesInv, DatabaseInv, RepliesInv, LearningInv,
           NEW r \in Items, WriteRow(r)
    PROVE  LearningInv'
  <1> USE DEF told, service, bus
  <1>1. /\ UNCHANGED <<world, subs, refused, queries, results>> /\ Speaks
    BY DEF WriteRow, Speaks
  <1>2. \A i \in Ids : Kept(i)' \subseteq Kept(i)
    BY KeptWrite, DatabaseIs
  <1> QED
    BY <1>1, <1>2, LearningKeeps

LEMMA LearningRequest ==
    ASSUME ReferencesInv, DatabaseInv, RepliesInv, LearningInv, NEW i \in asked,
           HandleRequest(i)
    PROVE  LearningInv'
  <1> USE DEF client, told, service, handler, bus, database, history, SameRows
  <1>1. CASE Reject(i) \/ OnPluginListGet(i) \/ OnRequestMediaScan(i)
    <2>1. /\ UNCHANGED <<world, subs, refused, queries, results>>
          /\ SameRows /\ Speaks
      BY <1>1 DEF Reject, OnPluginListGet, OnRequestMediaScan, Speaks
    <2> QED
      BY <2>1, KeptStays, LearningKeeps
  <1>2. ASSUME NEW op, NEW kind, AskFor(i, op, kind) PROVE LearningInv'
    BY <1>2, LearningAskFor
  <1>3. ASSUME NEW kind, AskForMeta(i, kind) PROVE LearningInv'
    <2>1. /\ UNCHANGED <<world, subs, results>> /\ SameRows /\ Speaks
          /\ queries \subseteq queries' /\ refused \subseteq refused'
      BY <1>3 DEF AskForMeta, Ask, Speaks
    <2> QED
      BY <2>1, KeptStays, LearningKeeps
  <1>4. CASE OnMediaDbPermissionGet(i) \/ OnDeviceListGet(i)
    <2>1. /\ UNCHANGED <<world, queries, results>> /\ SameRows /\ Speaks
          /\ refused \subseteq refused'
      BY <1>4 DEF OnMediaDbPermissionGet, OnDeviceListGet, GrantAccessAll, Speaks
    <2>2. \A j \in subs' : Asked(j).op = "list" => j \in subs
      BY <1>4 DEF OnMediaDbPermissionGet, OnDeviceListGet, Fine
    <2> QED
      BY <2>1, <2>2, KeptStays, LearningKeeps
  <1> QED
    BY <1>1, <1>2, <1>3, <1>4 DEF HandleRequest, OnAudioListGet, OnVideoListGet,
       OnImageListGet, OnAudioMetadataGet, OnVideoMetadataGet,
       OnImageMetadataGet, OnRequestDelete

LEMMA LearningResult ==
    ASSUME ReferencesInv, DatabaseInv, RepliesInv, LearningInv,
           NEW m \in results, HandleResult(m)
    PROVE  LearningInv'
  <1>1. CASE HandleList(m)
    BY <1>1, LearningList
  <1>2. CASE ~HandleList(m)
    <2>1. m.q.op # "list"
      BY <1>2 DEF HandleResult, HandleMetaData, HandleDelete, HandleClean,
                  HandleRemove
    <2>2. /\ UNCHANGED <<world, subs>> /\ SameRows /\ results' = results \ {m}
          /\ queries \subseteq queries' /\ refused' = refused /\ Speaks
      BY <1>2 DEF HandleResult, HandleMetaData, HandleDelete, HandleClean,
                  HandleRemove, Notify, database, Speaks, SameRows
    <2> QED
      BY <2>1, <2>2, KeptStays, LearningKeeps
  <1> QED
    BY <1>1, <1>2

LEMMA StepLearning ==
    ASSUME ReferencesInv, DatabaseInv, RepliesInv, LearningInv, [Next]_vars
    PROVE  LearningInv'
  <1>1. CASE Running
    <2>1. ASSUME NEW i \in asked, HandleRequest(i) PROVE LearningInv'
      BY <2>1, LearningRequest
    <2>2. ASSUME NEW m \in results, HandleResult(m) PROVE LearningInv'
      BY <2>2, LearningResult
    <2>3. ASSUME NEW x, \/ GoOn(x) \/ BuildList(x) \/ SendList(x)
                        \/ ProcessingDone(x) \/ NotifyScanDone(x)
                        \/ ScanLoop(x) \/ Clean(x)
          PROVE  LearningInv'
      BY <2>3, LearningOther
    <2>4. CASE RunHandler \/ CountPut \/ Unmark \/ Rescan
      BY <2>4, LearningOther
    <2> QED
      BY <1>1, <2>1, <2>2, <2>3, <2>4 DEF Running
  <1>2. CASE Environment
    <2>1. ASSUME NEW q \in queries, Answer(q) PROVE LearningInv'
      BY <2>1, LearningAnswer
    <2>2. ASSUME NEW x, \/ Send(x) \/ CallDirectly(x) \/ Cancel(x)
                        \/ TakePut(x) \/ Attach(x) \/ AnswerGrant(x)
          PROVE  LearningInv'
      BY <2>2, LearningOther
    <2>3. CASE WakeUp
      BY <2>3, LearningOther
    <2>4. ASSUME NEW r \in Items, WriteRow(r) PROVE LearningInv'
      BY <2>4, LearningWrite
    <2> QED
      BY <1>2, <2>1, <2>2, <2>3, <2>4 DEF Environment
  <1> QED
    BY <1>1, <1>2, LearningOther DEF Next

-----------------------------------------------------------------------------
(* The theorems.                                                           *)

AnswersInv == /\ ReferencesInv /\ StepsInv /\ DatabaseInv /\ RepliesInv
              /\ LearningInv /\ CalmInv /\ SeenInv

LEMMA InitAnswers == Init => AnswersInv
  <1> SUFFICES ASSUME Init PROVE AnswersInv
    OBVIOUS
  <1>1. subs = {} /\ untrue = {} /\ calm = FALSE
    BY DEF Init
  <1>2. LearningInv /\ CalmInv /\ SeenInv
    BY <1>1 DEF LearningInv, CalmInv, SeenInv, Listeners
  <1> QED
    BY <1>2, InitReferences, InitSteps, InitDatabase, InitReplies DEF AnswersInv

LEMMA StepAnswers == AnswersInv /\ [Next]_vars => AnswersInv'
  <1> SUFFICES ASSUME AnswersInv, [Next]_vars PROVE AnswersInv'
    OBVIOUS
  <1>1. ReferencesInv' /\ StepsInv'
    BY StepReferences, StepSteps DEF AnswersInv
  <1>2. DatabaseInv' /\ RepliesInv' /\ LearningInv'
    BY StepDatabase, StepReplies, StepLearning DEF AnswersInv
  <1>3. CalmInv' /\ SeenInv'
    BY StepCalm, StepSeen DEF AnswersInv
  <1> QED
    BY <1>1, <1>2, <1>3 DEF AnswersInv

LEMMA AnswersHold == Spec => []AnswersInv
  BY InitAnswers, StepAnswers, PTL DEF Spec

(* The variables of the service keep to their types: only known requests  *)
(* are subscribed, held or refused, queries begin at a position of the     *)
(* index, counts do not fall below zero, and the main loop has a request   *)
(* whenever it is at work.                                                 *)
THEOREM ServiceTyping == Spec => []TypeOK
  <1>1. AnswersInv => TypeOK
    <2> SUFFICES ASSUME AnswersInv PROVE TypeOK
      OBVIOUS
    <2>1. ReferencesInv /\ StepsInv /\ DatabaseInv /\ RepliesInv
      BY DEF AnswersInv
    <2>2. asked \cup subs \cup held \cup clients \cup refused \cup stale \subseteq Ids
      BY <2>1 DEF ReferencesInv, ClientsInv, RequestsInv, DatabaseInv, StepsInv
    <2>3. \A i \in Ids : \A k \in DOMAIN replies[i] :
            replies[i][k].ok \in BOOLEAN /\ replies[i][k].rows \subseteq Items
      <3> SUFFICES ASSUME NEW i \in Ids, NEW k \in DOMAIN replies[i]
                   PROVE  /\ replies[i][k].ok \in BOOLEAN
                          /\ replies[i][k].rows \subseteq Items
        OBVIOUS
      <3>1. replies[i] \in Seq(Replies)
        BY <2>1 DEF RepliesInv
      <3>2. replies[i][k] \in Replies
        BY <3>1
      <3> QED
        BY <3>2 DEF Replies
    <2>4. /\ dbClients \in Seq(Clients) /\ granted \subseteq Clients
          /\ \A q \in queries \cup {m.q : m \in results} :
               q.after \in 0 .. Len(Rows) /\ q.for \in Ids \cup {None}
      BY <2>1 DEF DatabaseInv, Out
    <2>6. written \subseteq Ids \X Items
      BY <2>1 DEF DatabaseInv
    <2> DEFINE Step == {"idle", "list", "send", "check", "notify", "pop", "begin",
                        "walk", "count", "unmark", "rescan", "grant", "denied",
                        "lock", "push", "wait", "woken"}
    <2>5. at \in [Threads -> Step]
      <3>1. \A t : StepsOf(t) \subseteq Step
        BY DEF StepsOf
      <3>2. \A t \in Threads : at[t] \in Step
        BY <2>1, <3>1 DEF StepsInv
      <3>3. at = [t \in Threads |-> at[t]]
        BY <2>1 DEF StepsInv
      <3> HIDE DEF Step
      <3> QED
        BY <3>2, <3>3
    <2> QED
      BY <2>1, <2>2, <2>3, <2>4, <2>5, <2>6 DEF TypeOK, StepsInv
  <1> QED
    BY <1>1, AnswersHold, PTL

(* A subscriber to a list whose queries the database has all answered has  *)
(* been told of every item it asked for that has been there ever since:    *)
(* however the list is cut into pages, and whoever subscribed,             *)
(* unsubscribed, deleted or scanned between them.                          *)
THEOREM SubscribersAreTold == Spec => []SubscribersLearnAll
  <1>1. AnswersInv => SubscribersLearnAll
    <2>1. AnswersInv => LearningInv
      BY DEF AnswersInv
    <2> QED
      BY <2>1 DEF LearningInv, SubscribersLearnAll, Asks, Out
  <1> QED
    BY <1>1, AnswersHold, PTL

(* What a request is told beyond what it asked for, a subscription to the  *)
(* same method has asked for.                                              *)
THEOREM StrangersAreSubscribed == Spec => []StrangersShareTheMethod
  <1>1. AnswersInv => StrangersShareTheMethod
    BY DEF AnswersInv, RepliesInv
  <1> QED
    BY <1>1, AnswersHold, PTL

(* No reply claims what is not so: a scan that was requested in a calm and *)
(* is reported done because of a notification, with nothing discovered     *)
(* meanwhile, has been done for a device it was for, though whoever waits  *)
(* is woken for any device; permission is given to who is told so; and of  *)
(* what a delete removed there is only what a scan has written since.      *)
THEOREM NothingUntrue == Spec => []RepliesAreTrue
  <1>1. AnswersInv => RepliesAreTrue
    <2>1. AnswersInv => RepliesInv /\ CalmInv
      BY DEF AnswersInv
    <2> QED
      BY <2>1 DEF RepliesInv, CalmInv, RepliesAreTrue
  <1> QED
    BY <1>1, AnswersHold, PTL

(* When all is quiet, every subscriber to the device list has been sent    *)
(* the states as they are, or a list that was out of date when it was sent.*)
THEOREM ListenersSee == Spec => []SubscribersSeeStates
  <1>1. AnswersInv => SubscribersSeeStates
    <2> SUFFICES ASSUME AnswersInv, Quiet, NEW i \in Listeners
                 PROVE  shown[i] = Shown \/ i \in stale
      BY DEF SubscribersSeeStates
    <2>1. ReferencesInv /\ StepsInv /\ SeenInv
      BY DEF AnswersInv
    <2>2. \A t \in Threads : ~WillSend(t)
      BY DEF Quiet, At, WillSend
    <2>3. i \in Ids
      BY <2>1, SubscribersAre DEF Listeners
    <2>4. req = None /\ None \notin Ids
      BY <2>1, IdsAre, NamesDiffer DEF Quiet, StepsInv
    <2> QED
      BY <2>1, <2>2, <2>3, <2>4 DEF SeenInv
  <1> QED
    BY <1>1, AnswersHold, PTL

=============================================================================
