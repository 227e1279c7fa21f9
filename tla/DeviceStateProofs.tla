--------------------------- MODULE DeviceStateProofs ---------------------------
(***************************************************************************)
(* What is written of devices follows them, for any devices, plugins,      *)
(* worlds and threads: DeviceDb's records, the dirty flags of MediaDb's    *)
(* rows, and the scans that make them current, whatever threads announce   *)
(* devices, observe them and walk them at the same time.                   *)
(***************************************************************************)
EXTENDS DeviceSystemProofs

\* Steps that leave alone what is written of devices: none of their calls is
\* about the state of a device, and no plugin gets an observer.
LightOps == {"modify", "checkDevices", "removeAll", "ignore", "forget", "run",
             "halt", "setDetect", "find", "await", "setEnable", "erase",
             "request", "getDeviceMeta"}
Light ==
    /\ \E gone, new : Moves(gone, new) /\ \A c \in gone : c.op \in LightOps
    /\ UNCHANGED <<dev, record, rows, stale>>
    /\ \A p \in Plugins : observers'[p] \subseteq observers[p]

LEMMA LightThread ==
    ASSUME Base, NEW t \in Threads,
           \/ Modify(t) \/ CheckDevices(t) \/ RemoveAll(t) \/ Ignore(t)
           \/ Forget(t) \/ Run(t) \/ Halt(t) \/ SetDetect(t) \/ Find(t)
           \/ Await(t) \/ SetEnable(t) \/ Erase(t) \/ RequestMeta(t)
           \/ (t = "meta" /\ GetDeviceMeta)
    PROVE  Light
<1>1. CallsInv /\ observers \in [Plugins -> SUBSET Observers]
  BY DEF Base, Typed, TypeOK
<1>2. UNCHANGED <<dev, record, rows, stale>>
  BY DEF Modify, CheckDevices, RemoveAll, Ignore, Forget, Run, Halt, SetDetect,
         Find, Await, SetEnable, Erase, RequestMeta, GetDeviceMeta, Others,
         dbs, history
<1>3. \A p \in Plugins : observers'[p] \subseteq observers[p]
  <2>1. CASE Forget(t)
    <3>1. PICK p \in Plugins, o \in Observers :
            observers' = [observers EXCEPT ![p] = @ \ {o}]
      BY <2>1, ForgetStep
    <3> QED BY <1>1, <3>1
  <2>2. CASE ~Forget(t)
    <3>1. observers' = observers
      BY <2>2 DEF Modify, CheckDevices, RemoveAll, Ignore, Run, Halt,
         SetDetect, Find, Await, SetEnable, Erase, RequestMeta, GetDeviceMeta,
         Others
    <3> QED BY <3>1
  <2> QED BY <2>1, <2>2
<1>4. ASSUME NEW u \in Threads, ~Idle(u), NEW more \in Seq(AnyCall),
             Then(u, more), Next1(u).op \in LightOps
      PROVE  \E gone, new : Moves(gone, new) /\ \A c \in gone : c.op \in LightOps
  <2>1. Moves({Next1(u)}, In(more))
    BY <1>1, <1>4, ThenIs
  <2>2. \A c \in {Next1(u)} : c.op \in LightOps
    BY <1>4
  <2> QED BY <2>1, <2>2
<1>5. \E gone, new : Moves(gone, new) /\ \A c \in gone : c.op \in LightOps
  <2>1. CASE Modify(t)
    <3>1. Next1(t).op = "modify" /\ ~Idle(t)
      BY <2>1 DEF Modify, Doing
    <3>0. PICK d \in Devices : \E more \in Seq(Tidy(d)) : Then(t, more)
      BY <1>1, <2>1, TidyActions DEF TidyStep
    <3>2. PICK more \in Seq(Tidy(d)) : Then(t, more)
      BY <3>0
    <3>3. more \in Seq(AnyCall)
      <4>1. In(more) \subseteq AnyCall
        BY <3>2, InIs, TidyCalls
      <4> QED BY <3>2, <4>1, InSeq
    <3> QED BY <1>4, <3>1, <3>2, <3>3 DEF LightOps
  <2>2. CASE CheckDevices(t)
    <3>1. PICK p \in Plugins :
             /\ ~Idle(t) /\ Next1(t).op = "checkDevices"
             /\ Then(t, Each(Known(p), "check", ""))
             /\ Each(Known(p), "check", "") \in Seq(AnyCall)
      BY <1>1, <2>2, CheckDevicesStep
    <3> QED BY <1>4, <3>1 DEF LightOps
  <2>3. CASE RemoveAll(t)
    <3>1. /\ t = "main" /\ ~Idle("main") /\ Next1("main").op = "removeAll"
          /\ \E more \in Seq(AnyCall) : Then("main", more)
      BY <2>3, RemoveAllStep
    <3> QED BY <1>4, <3>1 DEF LightOps
  <2>4. CASE Ignore(t)
    <3>1. /\ t = "main" /\ ~Idle("main") /\ Next1("main").op = "ignore"
          /\ \E more \in Seq(PluginCalls) : Then("main", more)
      BY <2>4, IgnoreStep
    <3> QED BY <1>4, <3>1, Monotone DEF LightOps
  <2>5. CASE Forget(t)
    <3>1. /\ t = "main" /\ ~Idle("main") /\ Next1("main").op = "forget"
          /\ Then("main", <<>>)
      BY <2>5, ForgetStep
    <3>2. <<>> \in Seq(AnyCall)
      OBVIOUS
    <3> QED BY <1>4, <3>1, <3>2 DEF LightOps
  <2>6. CASE Run(t)
    <3>1. /\ t = "main" /\ ~Idle("main") /\ Next1("main").op = "run"
          /\ \E more \in Seq(AnyCall) : Then("main", more)
      BY <2>6, RunStep
    <3> QED BY <1>4, <3>1 DEF LightOps
  <2>7. CASE Halt(t)
    <3>1. /\ t = "main" /\ ~Idle("main") /\ Next1("main").op = "halt"
          /\ \E more \in Seq(AnyCall) : Then("main", more)
      BY <2>7, HaltStep
    <3> QED BY <1>4, <3>1 DEF LightOps
  <2>8. CASE SetDetect(t)
    <3>1. /\ t = "main" /\ ~Idle("main") /\ Next1("main").op = "setDetect"
          /\ \E more \in Seq(PluginCalls) : Then("main", more)
      BY <2>8, SetDetectStep
    <3> QED BY <1>4, <3>1, Monotone DEF LightOps
  <2>9. CASE Find(t)
    <3>1. /\ Next1("main").op = "find"
          /\ Moves({Next1("main")}, {c \in AllCalls' : c.op = "injectDevice"})
      BY <2>9, FindStep
    <3> QED BY <3>1 DEF LightOps
  <2>10. CASE Await(t) \/ SetEnable(t) \/ Erase(t)
    <3>1. /\ t = "main" /\ ~Idle("main") /\ Then("main", <<>>)
          /\ Next1("main").op \in {"await", "setEnable", "erase"}
      BY <2>10, SmallSteps
    <3>2. <<>> \in Seq(AnyCall)
      OBVIOUS
    <3> QED BY <1>4, <3>1, <3>2 DEF LightOps
  <2>11. CASE RequestMeta(t)
    <3>1. /\ Next1(t).op = "request"
          /\ Moves({Next1(t)}, {c \in AllCalls' : c.op = "getDeviceMeta"})
      BY <2>11, RequestStep
    <3> QED BY <3>1 DEF LightOps
  <2>12. CASE t = "meta" /\ GetDeviceMeta
    <3>1. /\ ~Idle("meta") /\ Next1("meta").op = "getDeviceMeta"
          /\ \E more \in Seq(AnyCall) : Then("meta", more)
      BY <2>12, GetDeviceMetaStep
    <3> QED BY <1>4, <2>12, <3>1 DEF LightOps
  <2> QED BY <2>1, <2>2, <2>3, <2>4, <2>5, <2>6, <2>7, <2>8, <2>9, <2>10,
             <2>11, <2>12
<1> QED BY <1>2, <1>3, <1>5 DEF Light

\* The same of handlers that begin, and of what happens outside.
LEMMA LightStart ==
    ASSUME Base,
           \/ DbConnected \/ BusMethod \/ PdmMessage \/ PollRound
           \/ \E p \in Plugins : SettingsFound(p)
           \/ \E t \in Pool : SearchTimeout(t)
           \/ \E t \in Pool, d \in Of("upnp") : Event(t, d)
           \/ \E d \in Devices : ScanStarts(d)
           \/ Browse \/ ServerTrouble \/ Change \/ Swap \/ UNCHANGED vars
    PROVE  Light
<1>1. CallsInv
  BY DEF Base, Typed
<1>2. UNCHANGED <<dev, record, rows, stale, observers>>
  BY DEF DbConnected, BusMethod, PdmMessage, PollRound, SettingsFound,
         PluginPutGet, DetectRunStop, Get, Put,
         SearchTimeout, Event, ServiceFound, ServiceLost, ScanStarts, Browse,
         ServerTrouble, Change, Swap, vars, core, Others, dbs, history
<1>3. ASSUME NEW t \in Threads, NEW more \in Seq(AnyCall), Begin(t, more)
      PROVE  \E gone, new : Moves(gone, new) /\ \A c \in gone : c.op \in LightOps
  BY <1>1, <1>3, BeginIs
<1>4. CASE stack' = stack
  <2>1. AllCalls' = AllCalls
    BY <1>4 DEF AllCalls, CallsOf
  <2>2. Moves({}, {})
    BY <2>1 DEF Moves
  <2> QED BY <1>2, <2>2 DEF Light
<1>5. CASE DbConnected \/ PdmMessage \/ \E p \in Plugins : SettingsFound(p)
  <2>1. \E more \in Seq(AnyCall) : Begin("main", more)
    BY <1>5, DbConnectedStep, PdmMessageStep, SettingsFoundStep, Monotone
  <2> QED BY <1>2, <1>3, <2>1, MainIsThread DEF Light
<1>6. CASE BusMethod
  <2>1. stack' = stack \/ \E more \in Seq(AnyCall) : Begin("main", more)
    BY <1>6, BusMethodStep
  <2> QED BY <1>2, <1>3, <1>4, <2>1, MainIsThread DEF Light
<1>7. CASE PollRound
  <2>1. "poll" \in Threads /\ \E more \in Seq(AnyCall) : Begin("poll", more)
    BY <1>7, PollStep DEF Threads
  <2> QED BY <1>2, <1>3, <2>1 DEF Light
<1>8. CASE \E t \in Pool : SearchTimeout(t)
  <2>1. PICK t \in Threads : \E more \in Seq(AnyCall) : Begin(t, more)
    BY <1>8, SearchStep
  <2> QED BY <1>2, <1>3, <2>1 DEF Light
<1>9. CASE \E t \in Pool, d \in Of("upnp") : Event(t, d)
  <2>1. PICK t \in Threads :
          stack' = stack \/ \E more \in Seq(AnyCall) : Begin(t, more)
    BY <1>9, EventStep DEF Event
  <2> QED BY <1>2, <1>3, <1>4, <2>1 DEF Light
<1>10. CASE \/ \E d \in Devices : ScanStarts(d)
            \/ Browse \/ ServerTrouble \/ Change \/ Swap \/ UNCHANGED vars
  <2>1. stack' = stack
    BY <1>10 DEF ScanStarts, Browse, ServerTrouble, Change, Swap, vars, core
  <2> QED BY <1>4, <2>1
<1> QED BY <1>5, <1>6, <1>7, <1>8, <1>9, <1>10

\* Every step is one that changes a device, one of an observer, the end of a
\* walk, a crash, or leaves what is written of devices alone.
LEMMA StepKinds ==
    ASSUME Base, [Next]_vars
    PROVE  \/ Light \/ Crash \/ \E d \in Devices : ScanEnds(d)
           \/ \E t \in Threads :
                \/ Add(t) \/ Refresh(t) \/ Remove(t) \/ Inject(t) \/ Check(t)
                \/ RecordState(t) \/ MergePut(t) \/ IndexState(t)
                \/ MarkRows(t) \/ AskScan(t) \/ PushRequest(t)
                \/ Observe(t)
<1>1. CASE \E t \in Threads : Thread(t)
  <2>1. PICK t \in Threads : Thread(t)
    BY <1>1
  <2> QED BY <2>1, LightThread DEF Thread, Plugging, Observing, Detecting
<1>2. CASE ~\E t \in Threads : Thread(t)
  BY <1>2, LightStart DEF Next
<1> QED BY <1>1, <1>2

LEMMA NoMoves == ASSUME stack' = stack PROVE Moves({}, {})
<1>1. AllCalls' = AllCalls
  BY DEF AllCalls, CallsOf
<1> QED BY <1>1 DEF Moves

LEMMA PendingKept ==
    ASSUME NEW gone, NEW new, Moves(gone, new), NEW ops, NEW d,
           \A c \in gone : c.op \notin ops \/ c.on # d, Pending(ops, d)
    PROVE  Pending(ops, d)'
  BY DEF Pending, Moves

LEMMA PendingNew ==
    ASSUME NEW gone, NEW new, Moves(gone, new), NEW ops, NEW d,
           NEW c \in new, c.op \in ops, c.on = d
    PROVE  Pending(ops, d)'
  BY DEF Pending, Moves

LEMMA PresentSame ==
    ASSUME world' = world
    PROVE  /\ Present' = Present /\ Present \subseteq Devices
           /\ \A d \in Present : Home[d] \in Plugins
  BY HomeAssumption DEF Present, Factory, build

----------------------------------------------------------------------------
(***************************************************************************)
(* DeviceDb's records.                                                     *)
(***************************************************************************)
RecordSays(d) == record[d] = IF dev[d].avail THEN "here" ELSE "gone"
RecordOps == {"record", "mergePut"}
RecordFor(d) ==
    /\ dev[d].known /\ "DeviceDb" \in observers[Home[d]]
    /\ <<d, "record">> \notin stale
    => RecordSays(d) \/ Pending(RecordOps, d)

LEMMA RecordParts == RecordInv <=> \A d \in Present : RecordFor(d)
  BY DEF RecordInv, RecordFor, RecordSays, RecordOps

\* A device that a step does not touch.
LEMMA RecordKept ==
    ASSUME NEW d \in Devices, RecordFor(d),
           NEW gone, NEW new, Moves(gone, new),
           \A c \in gone : c.op \notin RecordOps \/ c.on # d,
           dev'[d].avail = dev[d].avail, dev'[d].known = dev[d].known,
           "DeviceDb" \in observers'[Home[d]] => "DeviceDb" \in observers[Home[d]],
           record'[d] = record[d],
           <<d, "record">> \in stale => <<d, "record">> \in stale'
    PROVE  RecordFor(d)'
<1>1. Pending(RecordOps, d) => Pending(RecordOps, d)'
  BY PendingKept
<1> QED BY <1>1 DEF RecordFor, RecordSays

LEMMA RecordKeptBy ==
    ASSUME NEW d \in Devices, RecordFor(d),
           NEW a, NEW new, Moves({a}, new), a.op \notin RecordOps \/ a.on # d,
           dev'[d].avail = dev[d].avail, dev'[d].known = dev[d].known,
           "DeviceDb" \in observers'[Home[d]] => "DeviceDb" \in observers[Home[d]],
           record'[d] = record[d],
           <<d, "record">> \in stale => <<d, "record">> \in stale'
    PROVE  RecordFor(d)'
<1>1. PICK gone : gone = {a}
  OBVIOUS
<1>2. \A c \in gone : c.op \notin RecordOps \/ c.on # d
  BY <1>1
<1>3. Moves(gone, new)
  BY <1>1
<1> QED BY <1>2, <1>3, RecordKept

\* What a call that makes s of device d adds to the thread's calls.
DeviceMoves(t, d, s, new) ==
    /\ d = Next1(t).on /\ dev' = [dev EXCEPT ![d] = s]
    /\ Made(Next1(t), dev[d], Lives(d), s)
    /\ ~Idle(t) /\ Then(t, new) /\ new \in Seq(Tidy(d))
    /\ Moves({Next1(t)}, In(new)) /\ In(new) \subseteq Tidy(d)
    /\ Changed(dev[d], s) => Told(d) \subseteq In(new)
    /\ ~Changed(dev[d], s) => s.avail = dev[d].avail /\ s.known = dev[d].known
    /\ Next1(t).op \in {"add", "refresh", "remove", "injectDevice", "check"}
    /\ UNCHANGED Others

LEMMA DeviceStepMoves ==
    ASSUME Base, KnownInv, NEW t \in Threads,
           Add(t) \/ Refresh(t) \/ Remove(t) \/ Inject(t) \/ Check(t)
    PROVE  \E d, s, new :
        /\ d \in Devices /\ s \in Record /\ DeviceMoves(t, d, s, new)
<1>1. /\ CallsInv /\ observers \in [Plugins -> SUBSET Observers]
      /\ dev \in [Devices -> Record]
  BY DEF Base, Typed, TypeOK
<1>2. PICK d : d = Next1(t).on
  OBVIOUS
<1>3. ~Idle(t) /\ d \in Devices /\ UNCHANGED Others
  BY <1>1, <1>2, DeviceStep
<1>4. PICK s : Made(Next1(t), dev[d], Lives(d), s) /\ Becomes(t, d, s)
  BY <1>1, <1>2, DeviceStep
<1>5. dev[d] \in Record /\ (~dev[d].known => ~dev[d].avail /\ dev[d].alive = 0)
  BY <1>1, <1>3 DEF KnownInv
<1>6. s \in Record /\ (~Changed(dev[d], s) => s.avail = dev[d].avail /\ s.known = dev[d].known)
  BY <1>4, <1>5, LivesType, MadeIs
<1>7. dev' = [dev EXCEPT ![d] = s]
  BY <1>4 DEF Becomes
<1>8. PICK new \in Seq(Tidy(d)) :
        Then(t, new) /\ (Changed(dev[d], s) => Told(d) \subseteq In(new))
  BY <1>4 DEF Becomes
<1>9. In(new) \subseteq Tidy(d) /\ new \in Seq(AnyCall)
  <2>1. In(new) \subseteq Tidy(d)
    BY <1>8, InIs
  <2>2. In(new) \subseteq AnyCall
    BY <1>3, <2>1, TidyCalls
  <2> QED BY <1>8, <2>1, <2>2, InSeq
<1>10. Moves({Next1(t)}, In(new))
  BY <1>1, <1>3, <1>8, <1>9, ThenIs
<1>11. Next1(t).op \in {"add", "refresh", "remove", "injectDevice", "check"}
  BY <1>4 DEF Made
<1>12. DeviceMoves(t, d, s, new)
  BY <1>2, <1>3, <1>4, <1>6, <1>7, <1>8, <1>9, <1>10, <1>11 DEF DeviceMoves
<1> QED BY <1>3, <1>6, <1>12

LEMMA TidyStepMoves ==
    ASSUME Base, NEW t \in Threads,
           \/ RecordState(t) \/ MergePut(t) \/ IndexState(t)
           \/ MarkRows(t) \/ AskScan(t) \/ PushRequest(t)
    PROVE  \E d, new :
             /\ d \in Devices
             /\ d = Next1(t).on /\ new \in Seq(Tidy(d)) /\ Then(t, new)
             /\ Moves({Next1(t)}, In(new)) /\ In(new) \subseteq Tidy(d)
             /\ ~Idle(t)
<1>1. CallsInv
  BY DEF Base, Typed
<1>2. PICK d : d = Next1(t).on
  OBVIOUS
<1>3. ~Idle(t) /\ d \in Devices /\ TidyStep(t, d)
  BY <1>1, <1>2, TidyActions
<1>4. PICK new \in Seq(Tidy(d)) : Then(t, new)
  BY <1>3 DEF TidyStep
<1>5. In(new) \subseteq Tidy(d) /\ new \in Seq(AnyCall)
  <2>1. In(new) \subseteq Tidy(d)
    BY <1>4, InIs
  <2>2. In(new) \subseteq AnyCall
    BY <1>3, <2>1, TidyCalls
  <2> QED BY <1>4, <2>1, <2>2, InSeq
<1>6. Moves({Next1(t)}, In(new))
  BY <1>1, <1>3, <1>4, <1>5, ThenIs
<1> QED BY <1>2, <1>3, <1>4, <1>5, <1>6

LEMMA RecordNext ==
    ASSUME Sound, RecordInv, [Next]_vars, NEW d \in Present
    PROVE  RecordFor(d)'
<1>1. /\ Base /\ KnownInv /\ CallsInv
      /\ observers \in [Plugins -> SUBSET Observers]
      /\ dev \in [Devices -> Record]
      /\ record \in [Devices -> {"none", "here", "gone"}]
  BY DEF Sound, Base, Typed, TypeOK
<1>2. d \in Devices /\ Home[d] \in Plugins
  BY PresentSame, WorldStays
<1>3. RecordFor(d)
  BY RecordParts
<1>4. CASE Light
  <2>1. PICK gone : \E new : Moves(gone, new) /\ \A c \in gone : c.op \in LightOps
    BY <1>4 DEF Light
  <2>2. PICK new : Moves(gone, new)
    BY <2>1
  <2>3. \A c \in gone : c.op \notin RecordOps \/ c.on # d
    BY <2>1 DEF LightOps, RecordOps
  <2>4. /\ UNCHANGED <<dev, record, stale>>
        /\ observers'[Home[d]] \subseteq observers[Home[d]]
    BY <1>2, <1>4 DEF Light
  <2> QED BY <1>2, <1>3, <2>2, <2>3, <2>4, RecordKept
<1>5. CASE Crash
  <2>1. dev' = [e \in Devices |-> Unknown]
    BY <1>5 DEF Crash
  <2>2. ~dev'[d].known
    BY <1>2, <2>1 DEF Unknown
  <2> QED BY <2>2 DEF RecordFor
<1>6. ASSUME NEW e \in Devices, ScanEnds(e) PROVE RecordFor(d)'
  <2>1. dev' = [dev EXCEPT ![e].asked = FALSE]
    BY <1>6 DEF ScanEnds
  <2>2. dev'[d].avail = dev[d].avail /\ dev'[d].known = dev[d].known
    BY <1>1, <1>2, <2>1 DEF Record
  <2>3. UNCHANGED <<stack, observers, record>>
    BY <1>6 DEF ScanEnds
  <2>4. PICK no : no = {} /\ Moves(no, no)
    BY <2>3, NoMoves
  <2>5. stale' = stale \ {<<e, "rows">>} \/ stale' = stale \cup {<<e, "rows">>}
    BY <1>6 DEF ScanEnds, Written
  <2>6. <<d, "record">> # <<e, "rows">>
    OBVIOUS
  <2>7. <<d, "record">> \in stale => <<d, "record">> \in stale'
    BY <2>5, <2>6
  <2>8. record'[d] = record[d] /\ observers'[Home[d]] = observers[Home[d]]
    BY <2>3
  <2>9. \A c \in no : c.op \notin RecordOps \/ c.on # d
    BY <2>4
  <2> QED BY <1>2, <1>3, <2>2, <2>4, <2>7, <2>8, <2>9, RecordKept
<1>7. ASSUME NEW t \in Threads,
             Add(t) \/ Refresh(t) \/ Remove(t) \/ Inject(t) \/ Check(t)
      PROVE  RecordFor(d)'
  <2>1. PICK e, s, new :
      /\ e \in Devices /\ s \in Record /\ DeviceMoves(t, e, s, new)
    BY <1>1, <1>7, DeviceStepMoves
  <2>2. /\ dev' = [dev EXCEPT ![e] = s] /\ Moves({Next1(t)}, In(new))
        /\ Changed(dev[e], s) => Told(e) \subseteq In(new)
        /\ ~Changed(dev[e], s) => s.avail = dev[e].avail /\ s.known = dev[e].known
        /\ Next1(t).op \in {"add", "refresh", "remove", "injectDevice", "check"}
        /\ UNCHANGED Others
    BY <2>1 DEF DeviceMoves
  <2>3. observers' = observers /\ record' = record /\ stale' = stale
    BY <2>2 DEF Others, dbs, history
  <2>4. CASE d = e /\ Changed(dev[e], s)
    <3>1. CASE "DeviceDb" \in observers[Home[d]]
      <4>1. PICK c : c = Call("record", d, "")
        OBVIOUS
      <4>2. c \in Told(d)
        BY <3>1, <4>1 DEF Told
      <4>3. c \in In(new) /\ c.op \in RecordOps /\ c.on = d
        BY <2>2, <2>4, <4>1, <4>2 DEF Call, RecordOps
      <4>4. Pending(RecordOps, d)'
        BY <2>2, <4>3, PendingNew
      <4> QED BY <4>4 DEF RecordFor
    <3>2. CASE "DeviceDb" \notin observers[Home[d]]
      BY <2>3, <3>2 DEF RecordFor
    <3> QED BY <3>1, <3>2
  <2>5. CASE d # e \/ ~Changed(dev[e], s)
    <3>1. dev'[d].avail = dev[d].avail /\ dev'[d].known = dev[d].known
      BY <1>1, <1>2, <2>2, <2>5
    <3>2. Next1(t).op \notin RecordOps
      BY <2>2 DEF RecordOps
    <3> QED BY <1>2, <1>3, <2>2, <2>3, <3>1, <3>2, RecordKeptBy
  <2> QED BY <2>4, <2>5
<1>8. ASSUME NEW t \in Threads, RecordState(t) PROVE RecordFor(d)'
  <2>1. PICK e \in Devices : \E new : e = Next1(t).on /\ Then(t, new) /\ ~Idle(t)
    BY <1>1, <1>8, TidyStepMoves
  <2>2. PICK with \in {"here", "gone"} : Then(t, <<Call("mergePut", e, with)>>)
    BY <1>8, <2>1 DEF RecordState
  <2>3. PICK c : c = Call("mergePut", e, with)
    OBVIOUS
  <2>4. <<c>> \in Seq(AnyCall)
    <3>1. c \in Tidy(e)
      BY <2>3 DEF Tidy
    <3>2. c \in AnyCall
      BY <3>1, TidyCalls
    <3> QED BY <3>2
  <2>5. Moves({Next1(t)}, In(<<c>>)) /\ In(<<c>>) = {c}
    BY <1>1, <2>1, <2>2, <2>3, <2>4, ThenIs, InOne
  <2>6. UNCHANGED <<dev, observers, record, stale>>
    BY <1>8 DEF RecordState, Others, dbs, history
  <2>7. CASE d = e
    <3>1. c \in {c} /\ c.op \in RecordOps /\ c.on = d
      BY <2>3, <2>7 DEF Call, RecordOps
    <3>2. Pending(RecordOps, d)'
      BY <2>5, <3>1, PendingNew
    <3> QED BY <3>2 DEF RecordFor
  <2>8. CASE d # e
    <3>1. Next1(t).on # d
      BY <2>1, <2>8
    <3> QED BY <1>2, <1>3, <2>5, <2>6, <3>1, RecordKeptBy
  <2> QED BY <2>7, <2>8
<1>9. ASSUME NEW t \in Threads, MergePut(t) PROVE RecordFor(d)'
  <2>1. PICK e \in Devices : \E new :
          e = Next1(t).on /\ Moves({Next1(t)}, In(new)) /\ ~Idle(t)
    BY <1>1, <1>9, TidyStepMoves
  <2>2. PICK new : Moves({Next1(t)}, In(new))
    BY <2>1
  <2>3. Next1(t).op = "mergePut"
    BY <1>9 DEF MergePut, Doing
  <2>4. Next1(t).with \in {"here", "gone"}
    BY <1>1, <2>1, <2>3, FirstCall, CallTypes
  <2>5. PICK with : with = Next1(t).with
    OBVIOUS
  <2>6. /\ record' = [record EXCEPT ![e] = with]
        /\ Written(e, "record", (with = "here") <=> dev[e].avail)
        /\ UNCHANGED <<dev, observers>>
    BY <1>9, <2>1, <2>5 DEF MergePut
  <2>7. CASE d = e
    <3>1. CASE (with = "here") <=> dev[e].avail
      <4>1. record'[d] = with /\ with \in {"here", "gone"}
        BY <1>1, <1>2, <2>4, <2>5, <2>6, <2>7
      <4>2. RecordSays(d)'
        BY <2>6, <2>7, <3>1, <4>1 DEF RecordSays
      <4> QED BY <4>2 DEF RecordFor
    <3>2. CASE ~((with = "here") <=> dev[e].avail)
      <4>1. <<d, "record">> \in stale'
        BY <2>6, <2>7, <3>2 DEF Written
      <4> QED BY <4>1 DEF RecordFor
    <3> QED BY <3>1, <3>2
  <2>8. CASE d # e
    <3>1. Next1(t).on # d
      BY <2>1, <2>8
    <3>2. record'[d] = record[d]
      BY <1>1, <1>2, <2>6, <2>8
    <3>3. <<d, "record">> # <<e, "record">>
      BY <2>8
    <3>4. <<d, "record">> \in stale => <<d, "record">> \in stale'
      BY <2>6, <3>3 DEF Written
    <3> QED BY <1>2, <1>3, <2>2, <2>6, <3>1, <3>2, <3>4, RecordKeptBy
  <2> QED BY <2>7, <2>8
<1>10. ASSUME NEW t \in Threads,
              IndexState(t) \/ MarkRows(t) \/ AskScan(t) \/ PushRequest(t)
       PROVE  RecordFor(d)'
  <2>1. PICK e \in Devices : \E new :
          e = Next1(t).on /\ Moves({Next1(t)}, In(new)) /\ ~Idle(t)
    BY <1>1, <1>10, TidyStepMoves
  <2>2. PICK new : Moves({Next1(t)}, In(new))
    BY <2>1
  <2>3. Next1(t).op \in {"index", "unmarkAllDirty", "markDirty", "scan", "push"}
    BY <1>10 DEF IndexState, MarkRows, AskScan, PushRequest, Doing
  <2>4. Next1(t).op \notin RecordOps
    BY <2>3 DEF RecordOps
  <2>5. UNCHANGED <<observers, record>>
    BY <1>10 DEF IndexState, MarkRows, AskScan, PushRequest, Others, dbs
  <2>6. dev' = dev \/ dev' = [dev EXCEPT ![e] = Asked(@)]
    BY <1>10, <2>1 DEF IndexState, MarkRows, AskScan, PushRequest
  <2>7. dev'[d].avail = dev[d].avail /\ dev'[d].known = dev[d].known
    BY <1>1, <1>2, <2>6 DEF Asked, Record
  <2>8. \/ stale' = stale \/ stale' = stale \ {<<e, "rows">>}
        \/ stale' = stale \cup {<<e, "rows">>}
    BY <1>10, <2>1 DEF IndexState, MarkRows, AskScan, PushRequest, Others,
                       history, Written
  <2>9. <<d, "record">> # <<e, "rows">>
    OBVIOUS
  <2>10. <<d, "record">> \in stale => <<d, "record">> \in stale'
    BY <2>8, <2>9
  <2> QED BY <1>2, <1>3, <2>2, <2>4, <2>5, <2>7, <2>10, RecordKeptBy
<1>11. ASSUME NEW t \in Threads, Observe(t) PROVE RecordFor(d)'
  <2>1. /\ ~Idle("main")
        /\ \E p, o, more, tell :
                /\ p \in Plugins /\ o \in Observers /\ more \in Seq(AnyCall)
                /\ tell = IF o = "DeviceDb" THEN "record" ELSE "index"
                /\ Next1("main").op = "observe" /\ Then("main", more)
                /\ CallsOn(tell, Known(p)) \subseteq In(more)
                /\ observers' = [observers EXCEPT ![p] = @ \cup {o}]
    BY <1>1, <1>11, ObserveStep
  <2>2. PICK p, o, more, tell :
                /\ p \in Plugins /\ o \in Observers /\ more \in Seq(AnyCall)
                /\ tell = IF o = "DeviceDb" THEN "record" ELSE "index"
                /\ Next1("main").op = "observe" /\ Then("main", more)
                /\ CallsOn(tell, Known(p)) \subseteq In(more)
                /\ observers' = [observers EXCEPT ![p] = @ \cup {o}]
    BY <2>1
  <2>3. Moves({Next1("main")}, In(more))
    BY <1>1, <2>1, <2>2, MainIsThread, ThenIs
  <2>4. UNCHANGED <<dev, record, stale>>
    BY <1>11 DEF Observe, dbs, history
  <2>5. CASE Home[d] = p /\ o = "DeviceDb" /\ dev[d].known
    <3>1. d \in Known(p)
      BY <2>5 DEF Known, Of
    <3>2. PICK c : c = Call("record", d, "")
      OBVIOUS
    <3>3. c \in CallsOn("record", Known(p))
      BY <3>1, <3>2 DEF CallsOn
    <3>4. c \in In(more) /\ c.op \in RecordOps /\ c.on = d
      BY <2>2, <2>5, <3>2, <3>3 DEF Call, RecordOps
    <3>5. Pending(RecordOps, d)'
      BY <2>3, <3>4, PendingNew
    <3> QED BY <3>5 DEF RecordFor
  <2>6. CASE ~dev[d].known
    BY <2>4, <2>6 DEF RecordFor
  <2>7. CASE Home[d] # p \/ o # "DeviceDb"
    <3>1. "DeviceDb" \in observers'[Home[d]] => "DeviceDb" \in observers[Home[d]]
      BY <1>1, <1>2, <2>2, <2>7
    <3>2. Next1("main").op \notin RecordOps
      BY <2>2 DEF RecordOps
    <3> QED BY <1>2, <1>3, <2>3, <2>4, <3>1, <3>2, RecordKeptBy
  <2> QED BY <2>5, <2>6, <2>7
<1> QED BY <1>1, <1>4, <1>5, <1>6, <1>7, <1>8, <1>9, <1>10, <1>11, StepKinds

LEMMA RecordSafe == Spec => []RecordInv
<1>1. Init => RecordInv
  <2> SUFFICES ASSUME Init PROVE RecordInv
    OBVIOUS
  <2>1. dev = [e \in Devices |-> Unknown]
    BY DEF Init
  <2>2. \A d \in Present : ~dev[d].known
    BY <2>1 DEF Present, Unknown
  <2> QED BY <2>2 DEF RecordInv
<1>2. Sound /\ RecordInv /\ [Next]_vars => RecordInv'
  <2> SUFFICES ASSUME Sound, RecordInv, [Next]_vars PROVE RecordInv'
    OBVIOUS
  <2>1. \A d \in Present : RecordFor(d)'
    BY RecordNext
  <2>2. Present' = Present
    BY PresentSame, WorldStays
  <2>3. (RecordInv <=> \A d \in Present : RecordFor(d))'
    BY RecordParts, PTL
  <2> QED BY <2>1, <2>2, <2>3
<1> QED BY <1>1, <1>2, AlwaysSound, PTL DEF Spec

\* When all is quiet a plugin that runs has both observers, and no thread has
\* a call left.
LEMMA QuietIs ==
    ASSUME Sound, Quiet
    PROVE  /\ AllCalls = {} /\ \A ops, d : ~Pending(ops, d)
           /\ \A p \in Plugins : p \in running => observers[p] = Observers
           /\ inbox = <<>>
           /\ \A d \in Devices : ~(dev[d].asked /\ dev[d].loop)
<1>1. \A t \in Threads : stack[t] = <<>>
  BY DEF Quiet, Idle
<1>2. AllCalls = {}
  BY <1>1 DEF AllCalls, CallsOf
<1>3. \A p \in Plugins : Settled(p)
  BY <1>1, MainIsThread, MainIdle DEF Sound, Base, Idle
<1>4. \A p \in Plugins : p \in running => observers[p] = Observers
  BY <1>3 DEF Settled, Has
<1> QED BY <1>2, <1>4 DEF Quiet, Pending

\* Once all is quiet, what DeviceDb has recorded of a device that a running
\* plugin knows says whether it is available, unless a mergePut carried what
\* another thread had changed in the meantime: observers that come late, drop
\* out or are told twice, and devices injected after a crash, included.
THEOREM RecordsAreRight == Spec => []RecordsFollowDevices
<1>1. ASSUME Sound, RecordInv PROVE RecordsFollowDevices
  <2>1. SUFFICES ASSUME Quiet, NEW d \in Present, Home[d] \in running,
                        dev[d].known, <<d, "record">> \notin stale
                 PROVE  RecordSays(d)
    BY DEF RecordsFollowDevices, RecordSays
  <2>2. Home[d] \in Plugins
    BY HomeAssumption DEF Present
  <2>3. "DeviceDb" \in observers[Home[d]] /\ ~Pending(RecordOps, d)
    BY <1>1, <2>1, <2>2, QuietIs DEF Observers
  <2>4. RecordFor(d)
    BY <1>1, <2>1, RecordParts
  <2> QED BY <2>1, <2>3, <2>4 DEF RecordFor
<1> QED BY <1>1, AlwaysSound, RecordSafe, PTL

----------------------------------------------------------------------------
(***************************************************************************)
(* The dirty flags of the rows.                                            *)
(***************************************************************************)
RowsSay(d) ==
    \/ rows[d] = "clean" /\ dev[d].avail
    \/ rows[d] = "dirty" /\ ~dev[d].avail
    \/ rows[d] = "none"
RowOps == {"index", "unmarkAllDirty", "markDirty"}
RowsFor(d) ==
    /\ dev[d].known /\ "MediaIndexer" \in observers[Home[d]]
    /\ <<d, "rows">> \notin stale
    => RowsSay(d) \/ Pending(RowOps, d)

LEMMA RowsParts == RowsInv <=> \A d \in Present : RowsFor(d)
  BY DEF RowsInv, RowsFor, RowsSay, RowOps

LEMMA RowsKept ==
    ASSUME NEW d \in Devices, RowsFor(d),
           NEW gone, NEW new, Moves(gone, new),
           \A c \in gone : c.op \notin RowOps \/ c.on # d,
           dev'[d].avail = dev[d].avail, dev'[d].known = dev[d].known,
           "MediaIndexer" \in observers'[Home[d]]
               => "MediaIndexer" \in observers[Home[d]],
           rows'[d] = rows[d],
           <<d, "rows">> \in stale => <<d, "rows">> \in stale'
    PROVE  RowsFor(d)'
<1>1. Pending(RowOps, d) => Pending(RowOps, d)'
  BY PendingKept
<1> QED BY <1>1 DEF RowsFor, RowsSay

LEMMA RowsKeptBy ==
    ASSUME NEW d \in Devices, RowsFor(d),
           NEW a, NEW new, Moves({a}, new), a.op \notin RowOps \/ a.on # d,
           dev'[d].avail = dev[d].avail, dev'[d].known = dev[d].known,
           "MediaIndexer" \in observers'[Home[d]]
               => "MediaIndexer" \in observers[Home[d]],
           rows'[d] = rows[d],
           <<d, "rows">> \in stale => <<d, "rows">> \in stale'
    PROVE  RowsFor(d)'
<1>1. PICK gone : gone = {a}
  OBVIOUS
<1>2. \A c \in gone : c.op \notin RowOps \/ c.on # d
  BY <1>1
<1>3. Moves(gone, new)
  BY <1>1
<1> QED BY <1>2, <1>3, RowsKept

\* A walk that ends leaves clean rows if the device is there, is excused
\* otherwise, and does not touch the rows of others.
LEMMA ScanEndsIs ==
    ASSUME Sound, NEW e \in Devices, ScanEnds(e)
    PROVE  /\ UNCHANGED <<stack, observers>>
           /\ \A d \in Devices : dev'[d].avail = dev[d].avail
                                 /\ dev'[d].known = dev[d].known
           /\ \A d \in Devices \ {e} :
                rows'[d] = rows[d] /\ dev'[d] = dev[d]
                /\ (<<d, "rows">> \in stale => <<d, "rows">> \in stale')
           /\ \/ e \notin Present \/ <<e, "rows">> \in stale'
              \/ dev'[e].avail /\ rows'[e] = "clean"
<1>1. /\ dev \in [Devices -> Record]
      /\ rows \in [Devices -> {"none", "clean", "dirty"}]
  BY DEF Sound, Base, Typed, TypeOK
<1>2. UNCHANGED <<stack, observers>>
  BY DEF ScanEnds
<1>3. dev' = [dev EXCEPT ![e].asked = FALSE]
  BY DEF ScanEnds
<1>4. /\ \A d \in Devices : dev'[d].avail = dev[d].avail
                            /\ dev'[d].known = dev[d].known
      /\ \A d \in Devices \ {e} : dev'[d] = dev[d]
  BY <1>1, <1>3 DEF Record
<1>5. PICK v : /\ rows' = [rows EXCEPT ![e] = v]
               /\ Walkable(e) /\ (Home[e] \in Polled \/
                                  \E a \in Present : attached[a] = dev[e].mount)
                  => v = "clean"
  BY <1>1 DEF ScanEnds
<1>6. PICK whole \in BOOLEAN :
        Written(e, "rows", dev[e].avail /\ Reachable(e) /\ whole)
  BY DEF ScanEnds
<1>7. ASSUME NEW d \in Devices \ {e}
      PROVE  rows'[d] = rows[d] /\ (<<d, "rows">> \in stale => <<d, "rows">> \in stale')
  <2>1. <<d, "rows">> # <<e, "rows">>
    OBVIOUS
  <2> QED BY <1>1, <1>5, <1>6, <2>1 DEF Written
<1>8. CASE dev[e].avail /\ Reachable(e) /\ e \in Present
  <2>1. Home[e] \in Polled \/ attached[e] = dev[e].mount
    BY <1>8 DEF Reachable
  <2>2. Walkable(e)
    BY <1>8 DEF Reachable, Walkable
  <2>3. v = "clean"
    BY <1>5, <1>8, <2>1, <2>2
  <2> QED BY <1>1, <1>2, <1>4, <1>5, <1>7, <1>8, <2>3
<1>9. CASE ~(dev[e].avail /\ Reachable(e))
  <2>1. <<e, "rows">> \in stale'
    BY <1>6, <1>9 DEF Written
  <2> QED BY <1>2, <1>4, <1>7, <2>1
<1>10. CASE e \notin Present
  BY <1>2, <1>4, <1>7, <1>10
<1> QED BY <1>8, <1>9, <1>10

LEMMA RowsNext ==
    ASSUME Sound, RowsInv, [Next]_vars, NEW d \in Present
    PROVE  RowsFor(d)'
<1>1. /\ Base /\ KnownInv /\ CallsInv
      /\ observers \in [Plugins -> SUBSET Observers]
      /\ dev \in [Devices -> Record]
      /\ rows \in [Devices -> {"none", "clean", "dirty"}]
  BY DEF Sound, Base, Typed, TypeOK
<1>2. d \in Devices /\ Home[d] \in Plugins
  BY PresentSame, WorldStays
<1>3. RowsFor(d)
  BY RowsParts
<1>4. CASE Light
  <2>1. PICK gone : \E new : Moves(gone, new) /\ \A c \in gone : c.op \in LightOps
    BY <1>4 DEF Light
  <2>2. PICK new : Moves(gone, new)
    BY <2>1
  <2>3. \A c \in gone : c.op \notin RowOps \/ c.on # d
    BY <2>1 DEF LightOps, RowOps
  <2>4. /\ UNCHANGED <<dev, rows, stale>>
        /\ observers'[Home[d]] \subseteq observers[Home[d]]
    BY <1>2, <1>4 DEF Light
  <2> QED BY <1>2, <1>3, <2>2, <2>3, <2>4, RowsKept
<1>5. CASE Crash
  <2>1. dev' = [e \in Devices |-> Unknown]
    BY <1>5 DEF Crash
  <2>2. ~dev'[d].known
    BY <1>2, <2>1 DEF Unknown
  <2> QED BY <2>2 DEF RowsFor
<1>6. ASSUME NEW e \in Devices, ScanEnds(e) PROVE RowsFor(d)'
  <2>1. CASE d = e
    <3>1. \/ <<d, "rows">> \in stale'
          \/ dev'[d].avail /\ rows'[d] = "clean"
      BY <1>6, <2>1, ScanEndsIs
    <3> QED BY <3>1 DEF RowsFor, RowsSay
  <2>2. CASE d # e
    <3>1. PICK no : no = {} /\ Moves(no, no)
      BY <1>6, ScanEndsIs, NoMoves
    <3>2. \A c \in no : c.op \notin RowOps \/ c.on # d
      BY <3>1
    <3>3. /\ dev'[d].avail = dev[d].avail /\ dev'[d].known = dev[d].known
          /\ rows'[d] = rows[d] /\ observers' = observers
          /\ <<d, "rows">> \in stale => <<d, "rows">> \in stale'
      BY <1>2, <1>6, <2>2, ScanEndsIs
    <3> QED BY <1>2, <1>3, <3>1, <3>2, <3>3, RowsKept
  <2> QED BY <2>1, <2>2
<1>7. ASSUME NEW t \in Threads,
             Add(t) \/ Refresh(t) \/ Remove(t) \/ Inject(t) \/ Check(t)
      PROVE  RowsFor(d)'
  <2>1. PICK e, s, new :
      /\ e \in Devices /\ s \in Record /\ DeviceMoves(t, e, s, new)
    BY <1>1, <1>7, DeviceStepMoves
  <2>2. /\ dev' = [dev EXCEPT ![e] = s] /\ Moves({Next1(t)}, In(new))
        /\ Changed(dev[e], s) => Told(e) \subseteq In(new)
        /\ ~Changed(dev[e], s) => s.avail = dev[e].avail /\ s.known = dev[e].known
        /\ Next1(t).op \in {"add", "refresh", "remove", "injectDevice", "check"}
        /\ UNCHANGED Others
    BY <2>1 DEF DeviceMoves
  <2>3. observers' = observers /\ rows' = rows /\ stale' = stale
    BY <2>2 DEF Others, dbs, history
  <2>4. CASE d = e /\ Changed(dev[e], s)
    <3>1. CASE "MediaIndexer" \in observers[Home[d]]
      <4>1. PICK c : c = Call("index", d, "")
        OBVIOUS
      <4>2. c \in Told(d)
        <5>1. PICK o : o = "MediaIndexer"
          OBVIOUS
        <5>2. c = Call(IF o = "DeviceDb" THEN "record" ELSE "index", d, "")
          BY <4>1, <5>1
        <5> QED BY <3>1, <5>1, <5>2 DEF Told
      <4>3. c \in In(new) /\ c.op \in RowOps /\ c.on = d
        BY <2>2, <2>4, <4>1, <4>2 DEF Call, RowOps
      <4>4. Pending(RowOps, d)'
        BY <2>2, <4>3, PendingNew
      <4> QED BY <4>4 DEF RowsFor
    <3>2. CASE "MediaIndexer" \notin observers[Home[d]]
      BY <2>3, <3>2 DEF RowsFor
    <3> QED BY <3>1, <3>2
  <2>5. CASE d # e \/ ~Changed(dev[e], s)
    <3>1. dev'[d].avail = dev[d].avail /\ dev'[d].known = dev[d].known
      BY <1>1, <1>2, <2>2, <2>5
    <3>2. Next1(t).op \notin RowOps
      BY <2>2 DEF RowOps
    <3> QED BY <1>2, <1>3, <2>2, <2>3, <3>1, <3>2, RowsKeptBy
  <2> QED BY <2>4, <2>5
<1>8. ASSUME NEW t \in Threads, IndexState(t) PROVE RowsFor(d)'
  <2>1. PICK e \in Devices : \E new :
          e = Next1(t).on /\ Then(t, new) /\ ~Idle(t) /\ Moves({Next1(t)}, In(new))
    BY <1>1, <1>8, TidyStepMoves
  <2>2. UNCHANGED <<dev, observers, rows, stale>>
    BY <1>8 DEF IndexState, Others, dbs, history
  <2>3. CASE d = e
    <3>1. PICK more : /\ Then(t, more)
                      /\ more = IF dev[e].avail
                                THEN <<Call("unmarkAllDirty", e, ""), Call("scan", e, "")>>
                                ELSE <<Call("markDirty", e, "")>>
      BY <1>8, <2>1 DEF IndexState
    <3>2. PICK c : c = IF dev[e].avail THEN Call("unmarkAllDirty", e, "")
                       ELSE Call("markDirty", e, "")
      OBVIOUS
    <3>3. c.op \in RowOps /\ c.on = d
      BY <2>3, <3>2 DEF Call, RowOps
    <3>4. more \in Seq(AnyCall) /\ c \in In(more)
      <4>1. more \in Seq(Tidy(e))
        BY <3>1, SomeTidy
      <4>2. In(more) \subseteq AnyCall
        BY <4>1, InIs, TidyCalls
      <4>3. c \in In(more)
        <5>1. CASE dev[e].avail
          <6>1. more = <<c, Call("scan", e, "")>>
            BY <3>1, <3>2, <5>1
          <6> QED BY <6>1, InTwo
        <5>2. CASE ~dev[e].avail
          <6>1. more = <<c>>
            BY <3>1, <3>2, <5>2
          <6> QED BY <6>1, InOne
        <5> QED BY <5>1, <5>2
      <4> QED BY <4>1, <4>2, <4>3, InSeq
    <3>5. Moves({Next1(t)}, In(more))
      BY <1>1, <2>1, <3>1, <3>4, ThenIs
    <3>6. Pending(RowOps, d)'
      BY <3>3, <3>4, <3>5, PendingNew
    <3> QED BY <3>6 DEF RowsFor
  <2>4. CASE d # e
    <3>1. Next1(t).on # d
      BY <2>1, <2>4
    <3>2. PICK new : Moves({Next1(t)}, In(new))
      BY <2>1
    <3> QED BY <1>2, <1>3, <2>2, <3>1, <3>2, RowsKeptBy
  <2> QED BY <2>3, <2>4
<1>9. ASSUME NEW t \in Threads, MarkRows(t) PROVE RowsFor(d)'
  <2>1. PICK e \in Devices : \E new :
          e = Next1(t).on /\ Moves({Next1(t)}, In(new)) /\ ~Idle(t)
    BY <1>1, <1>9, TidyStepMoves
  <2>2. PICK new : Moves({Next1(t)}, In(new))
    BY <2>1
  <2>3. PICK flag \in {"dirty", "clean"} :
          /\ rows' = [rows EXCEPT ![e] = IF @ = "none" THEN @ ELSE flag]
          /\ Written(e, "rows", (flag = "clean") <=> dev[e].avail)
    BY <1>9, <2>1 DEF MarkRows
  <2>4. UNCHANGED <<dev, observers>>
    BY <1>9 DEF MarkRows
  <2>5. CASE d = e
    <3>1. CASE (flag = "clean") <=> dev[e].avail
      <4>1. rows'[d] = "none" \/ rows'[d] = flag
        BY <1>1, <1>2, <2>3, <2>5
      <4>2. RowsSay(d)'
        BY <2>4, <2>5, <3>1, <4>1 DEF RowsSay
      <4> QED BY <4>2 DEF RowsFor
    <3>2. CASE ~((flag = "clean") <=> dev[e].avail)
      <4>1. <<d, "rows">> \in stale'
        BY <2>3, <2>5, <3>2 DEF Written
      <4> QED BY <4>1 DEF RowsFor
    <3> QED BY <3>1, <3>2
  <2>6. CASE d # e
    <3>1. Next1(t).on # d
      BY <2>1, <2>6
    <3>2. rows'[d] = rows[d]
      BY <1>1, <1>2, <2>3, <2>6
    <3>3. <<d, "rows">> # <<e, "rows">>
      BY <2>6
    <3>4. <<d, "rows">> \in stale => <<d, "rows">> \in stale'
      BY <2>3, <3>3 DEF Written
    <3> QED BY <1>2, <1>3, <2>2, <2>4, <3>1, <3>2, <3>4, RowsKeptBy
  <2> QED BY <2>5, <2>6
<1>10. ASSUME NEW t \in Threads,
              RecordState(t) \/ MergePut(t) \/ AskScan(t) \/ PushRequest(t)
       PROVE  RowsFor(d)'
  <2>1. PICK e \in Devices : \E new :
          e = Next1(t).on /\ Moves({Next1(t)}, In(new)) /\ ~Idle(t)
    BY <1>1, <1>10, TidyStepMoves
  <2>2. PICK new : Moves({Next1(t)}, In(new))
    BY <2>1
  <2>3. Next1(t).op \in {"record", "mergePut", "scan", "push"}
    BY <1>10 DEF RecordState, MergePut, AskScan, PushRequest, Doing
  <2>4. Next1(t).op \notin RowOps
    BY <2>3 DEF RowOps
  <2>5. UNCHANGED <<observers, rows>>
    BY <1>10 DEF RecordState, MergePut, AskScan, PushRequest, Others, dbs
  <2>6. dev' = dev \/ dev' = [dev EXCEPT ![e] = Asked(@)]
    BY <1>10, <2>1 DEF RecordState, MergePut, AskScan, PushRequest
  <2>7. dev'[d].avail = dev[d].avail /\ dev'[d].known = dev[d].known
    BY <1>1, <1>2, <2>6 DEF Asked, Record
  <2>8. \/ stale' = stale \/ stale' = stale \ {<<e, "record">>}
        \/ stale' = stale \cup {<<e, "record">>}
    BY <1>10, <2>1 DEF RecordState, MergePut, AskScan, PushRequest, Others,
                       history, Written
  <2>9. <<d, "rows">> # <<e, "record">>
    OBVIOUS
  <2>10. <<d, "rows">> \in stale => <<d, "rows">> \in stale'
    BY <2>8, <2>9
  <2> QED BY <1>2, <1>3, <2>2, <2>4, <2>5, <2>7, <2>10, RowsKeptBy
<1>11. ASSUME NEW t \in Threads, Observe(t) PROVE RowsFor(d)'
  <2>1. /\ ~Idle("main")
        /\ \E p, o, more, tell :
                /\ p \in Plugins /\ o \in Observers /\ more \in Seq(AnyCall)
                /\ tell = IF o = "DeviceDb" THEN "record" ELSE "index"
                /\ Next1("main").op = "observe" /\ Then("main", more)
                /\ CallsOn(tell, Known(p)) \subseteq In(more)
                /\ observers' = [observers EXCEPT ![p] = @ \cup {o}]
    BY <1>1, <1>11, ObserveStep
  <2>2. PICK p, o, more, tell :
                /\ p \in Plugins /\ o \in Observers /\ more \in Seq(AnyCall)
                /\ tell = IF o = "DeviceDb" THEN "record" ELSE "index"
                /\ Next1("main").op = "observe" /\ Then("main", more)
                /\ CallsOn(tell, Known(p)) \subseteq In(more)
                /\ observers' = [observers EXCEPT ![p] = @ \cup {o}]
    BY <2>1
  <2>3. Moves({Next1("main")}, In(more))
    BY <1>1, <2>1, <2>2, MainIsThread, ThenIs
  <2>4. UNCHANGED <<dev, rows, stale>>
    BY <1>11 DEF Observe, dbs, history
  <2>5. CASE Home[d] = p /\ o = "MediaIndexer" /\ dev[d].known
    <3>1. d \in Known(p)
      BY <2>5 DEF Known, Of
    <3>2. PICK c : c = Call("index", d, "")
      OBVIOUS
    <3>3. c \in CallsOn("index", Known(p))
      BY <3>1, <3>2 DEF CallsOn
    <3>4. c \in In(more) /\ c.op \in RowOps /\ c.on = d
      BY <2>2, <2>5, <3>2, <3>3 DEF Call, RowOps
    <3>5. Pending(RowOps, d)'
      BY <2>3, <3>4, PendingNew
    <3> QED BY <3>5 DEF RowsFor
  <2>6. CASE ~dev[d].known
    BY <2>4, <2>6 DEF RowsFor
  <2>7. CASE Home[d] # p \/ o # "MediaIndexer"
    <3>1. "MediaIndexer" \in observers'[Home[d]]
            => "MediaIndexer" \in observers[Home[d]]
      BY <1>1, <1>2, <2>2, <2>7
    <3>2. Next1("main").op \notin RowOps
      BY <2>2 DEF RowOps
    <3> QED BY <1>2, <1>3, <2>3, <2>4, <3>1, <3>2, RowsKeptBy
  <2> QED BY <2>5, <2>6, <2>7
<1> QED BY <1>1, <1>4, <1>5, <1>6, <1>7, <1>8, <1>9, <1>10, <1>11, StepKinds

LEMMA RowsSafe == Spec => []RowsInv
<1>1. Init => RowsInv
  <2> SUFFICES ASSUME Init PROVE RowsInv
    OBVIOUS
  <2>1. dev = [e \in Devices |-> Unknown]
    BY DEF Init
  <2>2. \A d \in Present : ~dev[d].known
    BY <2>1 DEF Present, Unknown
  <2> QED BY <2>2 DEF RowsInv
<1>2. Sound /\ RowsInv /\ [Next]_vars => RowsInv'
  <2> SUFFICES ASSUME Sound, RowsInv, [Next]_vars PROVE RowsInv'
    OBVIOUS
  <2>1. \A d \in Present : RowsFor(d)'
    BY RowsNext
  <2>2. Present' = Present
    BY PresentSame, WorldStays
  <2>3. (RowsInv <=> \A d \in Present : RowsFor(d))'
    BY RowsParts, PTL
  <2> QED BY <2>1, <2>2, <2>3
<1> QED BY <1>1, <1>2, AlwaysSound, PTL DEF Spec

\* Once all is quiet, rows are not flagged dirty while their device is
\* available, nor clean while it is not: deviceStateChanged marks and unmarks
\* them after every change, whichever thread makes it and whether its observer
\* was there already, unless it acts on what it read before another change,
\* or a walk outlives the device's stay.
THEOREM RowsAreRight == Spec => []RowsFollowDevices
<1>1. ASSUME Sound, RowsInv PROVE RowsFollowDevices
  <2>1. SUFFICES ASSUME Quiet, NEW d \in Present, Home[d] \in running,
                        dev[d].known, <<d, "rows">> \notin stale
                 PROVE  RowsSay(d)
    BY DEF RowsFollowDevices, RowsSay
  <2>2. Home[d] \in Plugins
    BY HomeAssumption DEF Present
  <2>3. "MediaIndexer" \in observers[Home[d]] /\ ~Pending(RowOps, d)
    BY <1>1, <2>1, <2>2, QuietIs DEF Observers
  <2>4. RowsFor(d)
    BY <1>1, <2>1, RowsParts
  <2> QED BY <2>1, <2>3, <2>4 DEF RowsFor
<1> QED BY <1>1, AlwaysSound, RowsSafe, PTL

----------------------------------------------------------------------------
(***************************************************************************)
(* The scans: a request follows the call that unmarks the rows, in the     *)
(* calls of every thread.                                                  *)
(***************************************************************************)
FollowInv == \A t \in Threads : ScansFollow(stack[t])
Plain(u) == u \in Seq(AnyCall) /\ \A c \in In(u) : c.op # "unmarkAllDirty"

LEMMA FollowTail ==
    ASSUME NEW s \in Seq(AnyCall), s # <<>>, ScansFollow(s)
    PROVE  ScansFollow(Tail(s))
<1>1. /\ Tail(s) \in Seq(AnyCall) /\ Len(Tail(s)) = Len(s) - 1
      /\ DOMAIN s = 1 .. Len(s) /\ DOMAIN Tail(s) = 1 .. Len(Tail(s))
      /\ Len(s) \in Nat /\ Len(Tail(s)) \in Nat
  OBVIOUS
<1>2. \A k \in 1 .. Len(Tail(s)) : k + 1 \in 1 .. Len(s) /\ Tail(s)[k] = s[k + 1]
  BY <1>1
<1>3. ASSUME NEW k \in DOMAIN Tail(s), Tail(s)[k].op = "unmarkAllDirty"
      PROVE  /\ k + 1 \in DOMAIN Tail(s)
             /\ Tail(s)[k + 1] = Call("scan", Tail(s)[k].on, "")
  <2>1. k \in 1 .. Len(Tail(s)) /\ k + 1 \in DOMAIN s /\ Tail(s)[k] = s[k + 1]
    BY <1>1, <1>2
  <2>2. (k + 1) + 1 \in DOMAIN s /\ s[(k + 1) + 1] = Call("scan", s[k + 1].on, "")
    BY <1>3, <2>1 DEF ScansFollow
  <2>3. k + 1 \in 1 .. Len(Tail(s))
    <3>1. PICK n : n = Len(s) /\ n \in Nat /\ Len(Tail(s)) = n - 1
      BY <1>1
    <3>2. (k + 1) + 1 \in 1 .. n /\ k \in 1 .. n - 1
      BY <1>1, <2>1, <2>2, <3>1
    <3>3. k + 1 \in 1 .. n - 1
      BY <3>1, <3>2
    <3> QED BY <3>1, <3>3
  <2>4. Tail(s)[k + 1] = s[(k + 1) + 1]
    BY <1>2, <2>3
  <2> QED BY <1>1, <2>1, <2>2, <2>3, <2>4
<1> QED BY <1>3 DEF ScansFollow

LEMMA FollowConcat ==
    ASSUME NEW u \in Seq(AnyCall), NEW s \in Seq(AnyCall),
           ScansFollow(u), ScansFollow(s)
    PROVE  ScansFollow(u \o s)
<1>1. PICK r : r = u \o s
  OBVIOUS
<1>2. /\ r \in Seq(AnyCall) /\ Len(r) = Len(u) + Len(s) /\ DOMAIN r = 1 .. Len(r)
      /\ \A k \in 1 .. Len(u) : r[k] = u[k]
      /\ \A k \in 1 .. Len(s) : r[Len(u) + k] = s[k]
      /\ Len(u) \in Nat /\ Len(s) \in Nat
      /\ DOMAIN u = 1 .. Len(u) /\ DOMAIN s = 1 .. Len(s)
  BY <1>1
<1>3. ASSUME NEW k \in DOMAIN r, r[k].op = "unmarkAllDirty"
      PROVE  k + 1 \in DOMAIN r /\ r[k + 1] = Call("scan", r[k].on, "")
  <2>1. CASE k \in 1 .. Len(u)
    <3>1. u[k].op = "unmarkAllDirty" /\ k \in DOMAIN u
      BY <1>2, <1>3, <2>1
    <3>2. k + 1 \in DOMAIN u /\ u[k + 1] = Call("scan", u[k].on, "")
      BY <3>1 DEF ScansFollow
    <3>3. k + 1 \in 1 .. Len(u)
      BY <1>2, <3>2
    <3>4. r[k] = u[k] /\ r[k + 1] = u[k + 1]
      BY <1>2, <2>1, <3>3
    <3>5. k + 1 \in 1 .. Len(r)
      BY <1>2, <3>3
    <3> QED BY <1>2, <3>2, <3>4, <3>5
  <2>2. CASE k \notin 1 .. Len(u)
    <3>1. PICK j : j = k - Len(u)
      OBVIOUS
    <3>2. j \in 1 .. Len(s) /\ k = Len(u) + j
      BY <1>2, <2>2, <3>1
    <3>3. r[k] = s[j]
      BY <1>2, <3>2
    <3>4. j + 1 \in DOMAIN s /\ s[j + 1] = Call("scan", s[j].on, "")
      BY <1>2, <1>3, <3>2, <3>3 DEF ScansFollow
    <3>5. r[Len(u) + (j + 1)] = s[j + 1]
      BY <1>2, <3>4
    <3>6. Len(u) + (j + 1) = k + 1 /\ k + 1 \in DOMAIN r
      <4>1. j + 1 \in 1 .. Len(s)
        BY <1>2, <3>4
      <4>2. Len(u) + (j + 1) = k + 1 /\ k + 1 \in 1 .. Len(r)
        BY <1>2, <3>2, <4>1
      <4> QED BY <1>2, <4>2
    <3> QED BY <3>3, <3>4, <3>5, <3>6
  <2> QED BY <2>1, <2>2
<1> QED BY <1>1, <1>3 DEF ScansFollow

LEMMA FollowPlain == ASSUME NEW u, Plain(u) PROVE ScansFollow(u)
  BY DEF Plain, ScansFollow, In

LEMMA FollowThen ==
    ASSUME CallsInv, FollowInv, NEW t \in Threads, ~Idle(t),
           NEW more \in Seq(AnyCall), ScansFollow(more), Then(t, more)
    PROVE  FollowInv'
<1>1. stack \in [Threads -> Seq(AnyCall)] /\ stack[t] # <<>>
  BY DEF CallsInv, Idle
<1>2. stack[t] \in Seq(AnyCall) /\ ScansFollow(stack[t])
  BY <1>1 DEF FollowInv
<1>3. Tail(stack[t]) \in Seq(AnyCall) /\ ScansFollow(Tail(stack[t]))
  BY <1>1, <1>2, FollowTail, InTail
<1>4. ScansFollow(more \o Tail(stack[t]))
  BY <1>3, FollowConcat
<1>5. stack'[t] = more \o Tail(stack[t]) /\ \A u \in Threads \ {t} : stack'[u] = stack[u]
  BY ThenIs
<1>6. \A u \in Threads : ScansFollow(stack'[u])
  BY <1>4, <1>5 DEF FollowInv
<1> QED BY <1>6 DEF FollowInv, ScansFollow

LEMMA FollowBegin ==
    ASSUME CallsInv, FollowInv, NEW t \in Threads,
           NEW more \in Seq(AnyCall), ScansFollow(more), Begin(t, more)
    PROVE  FollowInv'
<1>1. stack'[t] = more /\ \A u \in Threads \ {t} : stack'[u] = stack[u]
  BY BeginIs
<1>2. \A u \in Threads : ScansFollow(stack'[u])
  BY <1>1 DEF FollowInv
<1> QED BY <1>2 DEF FollowInv, ScansFollow

LEMMA SomePlain ==
    /\ Plain(<<>>)
    /\ \A u \in Seq(PluginCalls) : Plain(u)
    /\ \A u \in Seq(DetectCalls) : Plain(u)
    /\ \A u, op, S : u \in Seq(AnyCall) /\ op # "unmarkAllDirty" /\ In(u) \subseteq CallsOn(op, S) => Plain(u)
<1>1. Plain(<<>>)
  BY InNil DEF Plain
<1>2. \A c \in PluginCalls \cup DetectCalls : c.op # "unmarkAllDirty"
  BY DEF PluginCalls, DetectCalls
<1>3. ASSUME NEW u \in Seq(PluginCalls) PROVE Plain(u)
  <2>1. In(u) \subseteq PluginCalls /\ u \in Seq(AnyCall)
    BY InIs, Monotone
  <2> QED BY <1>2, <2>1 DEF Plain
<1>4. ASSUME NEW u \in Seq(DetectCalls) PROVE Plain(u)
  <2>1. In(u) \subseteq DetectCalls /\ u \in Seq(AnyCall)
    BY InIs, Monotone
  <2> QED BY <1>2, <2>1 DEF Plain
<1>5. ASSUME NEW u \in Seq(AnyCall), NEW op, NEW S, op # "unmarkAllDirty",
             In(u) \subseteq CallsOn(op, S)
      PROVE  Plain(u)
  BY <1>5, CallsOnIs DEF Plain
<1> QED BY <1>1, <1>3, <1>4, <1>5

\* The calls that tell observers are not the ones that unmark.
LEMMA TellPlain ==
    ASSUME NEW d \in Devices, NEW who
    PROVE  /\ Plain(Tell(d, who))
           /\ Plain(<<Call("modify", d, "")>>)
<1>1. PICK a, b, m : a = Call("record", d, "") /\ b = Call("index", d, "")
                     /\ m = Call("modify", d, "")
  OBVIOUS
<1>2. /\ a.op = "record" /\ b.op = "index" /\ m.op = "modify"
      /\ a \in AnyCall /\ b \in AnyCall /\ m \in AnyCall
  <2>1. a \in Tidy(d) /\ b \in Tidy(d) /\ m \in Tidy(d)
    BY <1>1 DEF Tidy
  <2> QED BY <1>1, <2>1, TidyCalls DEF Call
<1>3. PICK u, v : /\ u = (IF "DeviceDb" \in who THEN <<a>> ELSE <<>>)
                  /\ v = (IF "MediaIndexer" \in who THEN <<b>> ELSE <<>>)
  OBVIOUS
<1>4. Plain(<<a>>) /\ Plain(<<b>>) /\ Plain(<<m>>)
  <2>1. <<a>> \in Seq(AnyCall) /\ <<b>> \in Seq(AnyCall) /\ <<m>> \in Seq(AnyCall)
    BY <1>2
  <2> QED BY <1>2, <2>1, InOne DEF Plain
<1>5. Plain(u) /\ Plain(v)
  BY <1>3, <1>4, SomePlain
<1>6. Plain(u \o v)
  BY <1>5, InConcat DEF Plain
<1>7. Tell(d, who) = u \o v
  BY <1>1, <1>3 DEF Tell
<1> QED BY <1>1, <1>4, <1>6, <1>7

LEMMA BecomePlain ==
    ASSUME CallsInv, FollowInv, NEW t \in Threads, ~Idle(t), NEW d \in Devices,
           NEW s, NEW extra, Plain(extra), BecomeAnd(t, d, s, extra)
    PROVE  FollowInv'
<1>1. PICK who : who = observers[Home[d]]
  OBVIOUS
<1>2. PICK u : u = IF Changed(dev[d], s) THEN Tell(d, who) ELSE <<>>
  OBVIOUS
<1>3. Plain(u)
  BY <1>2, TellPlain, SomePlain
<1>4. Plain(u \o extra)
  BY <1>3, InConcat DEF Plain
<1>5. Then(t, u \o extra)
  BY <1>1, <1>2 DEF BecomeAnd
<1> QED BY <1>4, <1>5, FollowPlain, FollowThen DEF Plain

LEMMA FollowDevice ==
    ASSUME Base, FollowInv, NEW t \in Threads,
           Add(t) \/ Refresh(t) \/ Remove(t) \/ Inject(t) \/ Check(t)
    PROVE  FollowInv'
<1>1. CallsInv /\ observers \in [Plugins -> SUBSET Observers]
  BY DEF Base, Typed, TypeOK
<1>2. PICK d : d = Next1(t).on
  OBVIOUS
<1>3. ~Idle(t) /\ d \in Devices
  BY <1>1, <1>2, DeviceStep
<1>4. PICK none : none = <<>>
  OBVIOUS
<1>5. Plain(none) /\ Plain(Named(d))
  BY <1>3, <1>4, SomePlain, TellPlain DEF Named
<1>6. \E s, extra : Plain(extra) /\ BecomeAnd(t, d, s, extra)
  <2>1. CASE Add(t)
    <3>1. \E s : BecomeAnd(t, d, s, Named(d))
      BY <1>2, <2>1 DEF Add
    <3> QED BY <1>5, <3>1
  <2>2. CASE Refresh(t)
    <3>1. \E s : BecomeAnd(t, d, s, IF Home[d] = "mtp" THEN Named(d) ELSE none)
      BY <1>2, <1>4, <2>2 DEF Refresh
    <3> QED BY <1>5, <3>1
  <2>3. CASE Remove(t) \/ Inject(t) \/ Check(t)
    <3>1. \E s : BecomeAnd(t, d, s, none)
      BY <1>2, <1>4, <2>3 DEF Remove, Inject, Check, Become
    <3> QED BY <1>5, <3>1
  <2> QED BY <2>1, <2>2, <2>3
<1> QED BY <1>1, <1>3, <1>6, BecomePlain

LEMMA FollowObserver ==
    ASSUME Base, FollowInv, NEW t \in Threads,
           \/ RecordState(t) \/ MergePut(t) \/ IndexState(t)
           \/ MarkRows(t) \/ AskScan(t) \/ PushRequest(t) \/ Modify(t)
    PROVE  FollowInv'
<1>1. CallsInv
  BY DEF Base, Typed
<1>2. PICK d : d = Next1(t).on
  OBVIOUS
<1>3. ~Idle(t) /\ d \in Devices
  BY <1>1, <1>2, TidyActions
<1>4. ASSUME NEW c \in Tidy(d), c.op # "unmarkAllDirty" PROVE Plain(<<c>>)
  <2>1. c \in AnyCall
    BY <1>3, TidyCalls
  <2>2. <<c>> \in Seq(AnyCall)
    BY <2>1
  <2> QED BY <1>4, <2>2, InOne DEF Plain
<1>5. ASSUME NEW more, Plain(more), Then(t, more) PROVE FollowInv'
  BY <1>1, <1>3, <1>5, FollowPlain, FollowThen DEF Plain
<1>6. CASE RecordState(t)
  <2>1. PICK with \in {"here", "gone"} : Then(t, <<Call("mergePut", d, with)>>)
    BY <1>2, <1>6 DEF RecordState
  <2>2. PICK c : c = Call("mergePut", d, with)
    OBVIOUS
  <2>3. c \in Tidy(d) /\ c.op # "unmarkAllDirty"
    BY <2>2 DEF Tidy, Call
  <2> QED BY <1>4, <1>5, <2>1, <2>2, <2>3
<1>7. CASE MergePut(t) \/ MarkRows(t) \/ PushRequest(t)
  <2>1. Then(t, <<>>)
    BY <1>7 DEF MergePut, MarkRows, PushRequest
  <2> QED BY <1>5, <2>1, SomePlain
<1>8. CASE AskScan(t)
  <2>1. PICK c : c = Call("push", d, "")
    OBVIOUS
  <2>2. c \in Tidy(d) /\ c.op # "unmarkAllDirty"
    BY <2>1 DEF Tidy, Call
  <2>3. Then(t, <<c>>) \/ Then(t, <<>>)
    BY <1>2, <1>8, <2>1 DEF AskScan
  <2> QED BY <1>4, <1>5, <2>2, <2>3, SomePlain
<1>9. CASE Modify(t)
  <2>1. \E who : Then(t, Tell(d, who))
    BY <1>2, <1>9 DEF Modify
  <2> QED BY <1>3, <1>5, <2>1, TellPlain
<1>10. CASE IndexState(t)
  <2>1. PICK a, b, c : /\ a = Call("unmarkAllDirty", d, "")
                       /\ b = Call("scan", d, "") /\ c = Call("markDirty", d, "")
    OBVIOUS
  <2>2. /\ a \in Tidy(d) /\ b \in Tidy(d) /\ c \in Tidy(d)
        /\ a.on = d /\ b.op = "scan" /\ c.op = "markDirty"
    BY <2>1 DEF Tidy, Call
  <2>3. Then(t, <<a, b>>) \/ Then(t, <<c>>)
    BY <1>2, <1>10, <2>1 DEF IndexState
  <2>4. CASE Then(t, <<c>>)
    BY <1>4, <1>5, <2>2, <2>4
  <2>5. CASE Then(t, <<a, b>>)
    <3>1. a \in AnyCall /\ b \in AnyCall
      BY <1>3, <2>2, TidyCalls
    <3>2. PICK more : more = <<a, b>>
      OBVIOUS
    <3>3. /\ more \in Seq(AnyCall) /\ DOMAIN more = 1 .. 2
          /\ more[1] = a /\ more[2] = b
      BY <3>1, <3>2
    <3>4. more[2] = Call("scan", more[1].on, "")
      BY <2>1, <2>2, <3>3
    <3>5. \A k \in 1 .. 2 : more[k].op = "unmarkAllDirty" => k = 1
      BY <2>2, <3>3
    <3>6. ScansFollow(more)
      <4>1. \A k \in DOMAIN more : more[k].op = "unmarkAllDirty" =>
              k + 1 = 2 /\ more[k] = more[1]
        BY <3>3, <3>5
      <4>2. 2 \in DOMAIN more
        BY <3>3
      <4> QED BY <3>4, <4>1, <4>2 DEF ScansFollow
    <3> QED BY <1>1, <1>3, <2>5, <3>2, <3>3, <3>6, FollowThen
  <2> QED BY <2>3, <2>4, <2>5
<1> QED BY <1>6, <1>7, <1>8, <1>9, <1>10

LEMMA FollowMain ==
    ASSUME Base, FollowInv, NEW t \in Threads,
           \/ CheckDevices(t) \/ RemoveAll(t) \/ Ignore(t) \/ Forget(t)
           \/ Run(t) \/ Halt(t) \/ SetDetect(t) \/ Await(t) \/ SetEnable(t)
           \/ Erase(t) \/ Observe(t) \/ (t = "meta" /\ GetDeviceMeta)
    PROVE  FollowInv'
<1>1. CallsInv
  BY DEF Base, Typed
<1>2. ASSUME NEW u \in Threads, ~Idle(u), NEW more, Plain(more), Then(u, more)
      PROVE  FollowInv'
  BY <1>1, <1>2, FollowPlain, FollowThen DEF Plain
<1>3. CASE CheckDevices(t)
  <2>1. PICK p \in Plugins :
             /\ ~Idle(t) /\ Then(t, Each(Known(p), "check", ""))
             /\ Each(Known(p), "check", "") \in Seq(AnyCall)
    BY <1>1, <1>3, CheckDevicesStep
  <2>2. PICK none : none = ""
    OBVIOUS
  <2>3. PICK more : more = Each(Known(p), "check", none)
    OBVIOUS
  <2>4. Known(p) \subseteq Devices
    BY DevicesOf
  <2>5. more \in Seq(AnyCall) /\ In(more) = CallsOn("check", Known(p))
    BY <2>2, <2>3, <2>4, EachCalls DEF LoopOps
  <2>6. Plain(more)
    BY <2>5, SomePlain
  <2> QED BY <1>2, <2>1, <2>2, <2>3, <2>6
<1>4. CASE RemoveAll(t)
  <2>1. ~Idle("main") /\ \E p \in Plugins, more \in Seq(AnyCall) :
                /\ Then("main", more)
                /\ In(more) = CallsOn("remove", Known(p))
    BY <1>4, RemoveAllStep
  <2>2. PICK p \in Plugins, more \in Seq(AnyCall) :
                /\ Then("main", more)
                /\ In(more) = CallsOn("remove", Known(p))
    BY <2>1
  <2>3. Plain(more)
    BY <2>2, SomePlain
  <2> QED BY <1>2, <2>1, <2>2, <2>3, MainIsThread
<1>5. CASE Ignore(t)
  <2>1. ~Idle("main") /\ \E more \in Seq(PluginCalls) : Then("main", more)
    BY <1>5, IgnoreStep
  <2> QED BY <1>2, <2>1, SomePlain, MainIsThread
<1>6. CASE SetDetect(t)
  <2>1. ~Idle("main") /\ \E more \in Seq(PluginCalls) : Then("main", more)
    BY <1>6, SetDetectStep
  <2> QED BY <1>2, <2>1, SomePlain, MainIsThread
<1>7. CASE Forget(t) \/ Await(t) \/ SetEnable(t) \/ Erase(t)
  <2>1. ~Idle("main") /\ Then("main", <<>>)
    BY <1>7, ForgetStep, SmallSteps
  <2> QED BY <1>2, <2>1, SomePlain, MainIsThread
<1>8. CASE Run(t)
  <2>1. ~Idle("main") /\ \E p \in Plugins, more \in Seq(AnyCall) :
          Then("main", more) /\ In(more) = Starts(p)
    BY <1>8, RunStep
  <2>2. PICK p \in Plugins, more \in Seq(AnyCall) :
          Then("main", more) /\ In(more) = Starts(p)
    BY <2>1
  <2>3. \A c \in Starts(p) : c.op = "add"
    BY DEF Starts, Call
  <2>4. Plain(more)
    BY <2>2, <2>3 DEF Plain
  <2> QED BY <1>2, <2>1, <2>2, <2>4, MainIsThread
<1>9. CASE Halt(t)
  <2>1. ~Idle("main") /\ \E p \in Plugins, more \in Seq(AnyCall) :
          /\ Then("main", more)
          /\ In(more) = IF p = "storage" THEN CallsOn("remove", Of("storage"))
                        ELSE {}
    BY <1>9, HaltStep
  <2>2. PICK p \in Plugins, more \in Seq(AnyCall) :
          /\ Then("main", more)
          /\ In(more) = IF p = "storage" THEN CallsOn("remove", Of("storage"))
                        ELSE {}
    BY <2>1
  <2>3. In(more) \subseteq CallsOn("remove", Of("storage"))
    BY <2>2
  <2>4. Plain(more)
    BY <2>3, SomePlain
  <2> QED BY <1>2, <2>1, <2>2, <2>4, MainIsThread
<1>10. CASE Observe(t)
  <2>1. ~Idle("main") /\ \E p, o, more, tell :
                /\ p \in Plugins /\ o \in Observers /\ more \in Seq(AnyCall)
                /\ tell = IF o = "DeviceDb" THEN "record" ELSE "index"
                /\ Then("main", more)
                /\ In(more) \subseteq CallsOn(tell, Known(p))
                                  \cup CallsOn("run", {p})
    BY <1>10, ObserveStep
  <2>2. PICK p, o, more, tell :
                /\ p \in Plugins /\ o \in Observers /\ more \in Seq(AnyCall)
                /\ tell = IF o = "DeviceDb" THEN "record" ELSE "index"
                /\ Then("main", more)
                /\ In(more) \subseteq CallsOn(tell, Known(p))
                                  \cup CallsOn("run", {p})
    BY <2>1
  <2>3. \A c \in In(more) : c.op \in {"record", "index", "run"}
    <3>1. \A c \in In(more) : c.op = tell \/ c.op = "run"
      BY <2>2, CallsOnIs
    <3>2. tell \in {"record", "index"}
      BY <2>2
    <3> QED BY <3>1, <3>2
  <2>4. Plain(more)
    BY <2>2, <2>3 DEF Plain
  <2> QED BY <1>2, <2>1, <2>2, <2>4, MainIsThread
<1>11. CASE t = "meta" /\ GetDeviceMeta
  <2>1. ~Idle("meta") /\ \E d \in Devices, more \in Seq(AnyCall) :
          Then("meta", more) /\ In(more) \subseteq {Call("add", d, attached[d])}
    BY <1>11, GetDeviceMetaStep
  <2>2. PICK d \in Devices, more \in Seq(AnyCall) :
          Then("meta", more) /\ In(more) \subseteq {Call("add", d, attached[d])}
    BY <2>1
  <2>3. \A c \in In(more) : c.op = "add"
    BY <2>2 DEF Call
  <2>4. Plain(more)
    BY <2>3 DEF Plain
  <2> QED BY <1>2, <1>11, <2>1, <2>2, <2>4
<1> QED BY <1>3, <1>4, <1>5, <1>6, <1>7, <1>8, <1>9, <1>10, <1>11

LEMMA FollowFind ==
    ASSUME Base, FollowInv, NEW t \in Threads, Find(t) \/ RequestMeta(t)
    PROVE  FollowInv'
<1>1. CallsInv /\ stack \in [Threads -> Seq(AnyCall)] /\ "db" \in Threads
      /\ "meta" \in Threads
  BY DEF Base, Typed, CallsInv, Threads
<1>2. ~Idle(t) /\ stack[t] \in Seq(AnyCall) /\ stack[t] # <<>>
  BY <1>1 DEF Find, RequestMeta, Doing, Idle
<1>3. Tail(stack[t]) \in Seq(AnyCall) /\ ScansFollow(Tail(stack[t]))
  BY <1>2, FollowTail, InTail DEF FollowInv
<1>4. CASE Find(t)
  <2>1. t = "main"
    BY <1>4, FindStep
  <2>2. PICK none, old : /\ none = "" /\ old \subseteq Devices
                         /\ stack' = [stack EXCEPT ![t] = Tail(@),
                               !["db"] = @ \o Each(old, "injectDevice", none)]
    BY <1>4, DevicesOf DEF Find
  <2>3. PICK more : more = Each(old, "injectDevice", none)
    OBVIOUS
  <2>4. more \in Seq(AnyCall) /\ In(more) = CallsOn("injectDevice", old)
    BY <2>2, <2>3, EachCalls DEF LoopOps
  <2>5. ScansFollow(more)
    BY <2>4, SomePlain, FollowPlain
  <2>6. stack["db"] \in Seq(AnyCall) /\ ScansFollow(stack["db"])
    BY <1>1 DEF FollowInv
  <2>7. ScansFollow(stack["db"] \o more)
    BY <2>4, <2>5, <2>6, FollowConcat
  <2>8. /\ stack'[t] = Tail(stack[t]) /\ stack'["db"] = stack["db"] \o more
        /\ \A u \in Threads \ {t, "db"} : stack'[u] = stack[u]
    BY <1>1, <2>1, <2>2, <2>3
  <2>9. \A u \in Threads : ScansFollow(stack'[u])
    BY <1>3, <2>7, <2>8 DEF FollowInv
  <2> QED BY <2>9 DEF FollowInv, ScansFollow
<1>5. CASE RequestMeta(t)
  <2>1. PICK c : /\ c.op = "getDeviceMeta"
                 /\ stack' = [stack EXCEPT ![t] = Tail(@), !["meta"] = <<c>>]
    <3>1. PICK c : c = Call("getDeviceMeta", Next1(t).on, "")
      OBVIOUS
    <3> QED BY <1>5, <3>1 DEF RequestMeta, Call
  <2>2. t # "meta"
    BY <1>2, <1>5 DEF RequestMeta, Idle
  <2>3. /\ stack'[t] = Tail(stack[t]) /\ stack'["meta"] = <<c>>
        /\ \A u \in Threads \ {t, "meta"} : stack'[u] = stack[u]
    BY <1>1, <2>1, <2>2
  <2>4. PICK one : one = <<c>>
    OBVIOUS
  <2>5. DOMAIN one = {1} /\ one[1] = c
    BY <2>4
  <2>6. ScansFollow(one)
    BY <2>1, <2>5 DEF ScansFollow
  <2>7. \A u \in Threads : ScansFollow(stack'[u])
    BY <1>3, <2>3, <2>4, <2>6 DEF FollowInv
  <2> QED BY <2>7 DEF FollowInv, ScansFollow
<1> QED BY <1>4, <1>5

LEMMA FollowStart ==
    ASSUME Base, FollowInv,
           \/ DbConnected \/ BusMethod \/ PdmMessage \/ PollRound
           \/ \E p \in Plugins : SettingsFound(p)
           \/ \E t \in Pool : SearchTimeout(t)
           \/ \E t \in Pool, d \in Of("upnp") : Event(t, d)
    PROVE  FollowInv'
<1>1. CallsInv
  BY DEF Base, Typed
<1>2. ASSUME NEW t \in Threads, NEW more, Plain(more), Begin(t, more)
      PROVE  FollowInv'
  BY <1>1, <1>2, FollowPlain, FollowBegin DEF Plain
<1>3. CASE stack' = stack
  BY <1>3 DEF FollowInv, ScansFollow
<1>4. CASE DbConnected \/ \E p \in Plugins : SettingsFound(p)
  <2>1. PICK more \in Seq(DetectCalls) : Begin("main", more)
    BY <1>4, DbConnectedStep, SettingsFoundStep
  <2> QED BY <1>2, <2>1, SomePlain, MainIsThread
<1>5. CASE BusMethod
  <2>1. \/ stack' = stack
        \/ \E more \in Seq(AnyCall) :
             Begin("main", more) /\ In(more) \subseteq PluginCalls \cup DetectCalls
    BY <1>5, BusMethodStep
  <2>2. \A c \in PluginCalls \cup DetectCalls : c.op # "unmarkAllDirty"
    BY DEF PluginCalls, DetectCalls
  <2>3. stack' = stack \/ \E more : Plain(more) /\ Begin("main", more)
    BY <2>1, <2>2 DEF Plain
  <2> QED BY <1>2, <1>3, <2>3, MainIsThread
<1>6. CASE PdmMessage
  <2>1. PICK more \in Seq(AnyCall) :
          Begin("main", more) /\ Handled(Head(inbox), more)
    BY <1>6, PdmMessageStep
  <2>2. \A c \in In(more) : c.op \in {"add", "remove"}
    <3>1. CASE Head(inbox).list
      <4>1. PICK at : at = Head(inbox).at
        OBVIOUS
      <4>2. \E gone : In(more) = Reported(NewlyMounted(at), at)
                  \cup CallsOn("remove", Running({mounted[m] : m \in gone}))
        BY <2>1, <3>1, <4>1 DEF Handled, ListHandled
      <4>3. \A S : \A c \in Reported(S, at) : c.op = "add"
        BY DEF Reported, Call
      <4> QED BY <4>2, <4>3, CallsOnIs
    <3>2. CASE ~Head(inbox).list
      BY <2>1, <3>2 DEF Handled
    <3> QED BY <3>1, <3>2
  <2>3. Plain(more)
    BY <2>2 DEF Plain
  <2> QED BY <1>2, <2>1, <2>3, MainIsThread
<1>7. ASSUME NEW t \in Threads, NEW more \in Seq(AnyCall), Begin(t, more),
             \A c \in In(more) : c.op \in Finds
      PROVE  FollowInv'
  <2>1. Plain(more)
    BY <1>7 DEF Plain, Finds
  <2> QED BY <1>2, <1>7, <2>1
<1>8. CASE PollRound
  <2>1. "poll" \in Threads
    BY DEF Threads
  <2>2. PICK more \in Seq(AnyCall) :
          Begin("poll", more) /\ \A c \in In(more) : c.op \in Finds
    BY <1>8, PollStep
  <2> QED BY <1>7, <2>1, <2>2
<1>9. CASE \E t \in Pool : SearchTimeout(t)
  <2>1. PICK t \in Threads : \E more \in Seq(AnyCall) :
          Begin(t, more) /\ \A c \in In(more) : c.op \in Finds
    BY <1>9, SearchStep
  <2> QED BY <1>7, <2>1
<1>10. CASE \E t \in Pool, d \in Of("upnp") : Event(t, d)
  <2>1. PICK t \in Threads : stack' = stack \/ \E more \in Seq(AnyCall) :
          Begin(t, more) /\ \A c \in In(more) : c.op \in Finds
    BY <1>10, EventStep DEF Event
  <2> QED BY <1>3, <1>7, <2>1
<1> QED BY <1>4, <1>5, <1>6, <1>8, <1>9, <1>10

LEMMA FollowNext ==
    ASSUME Base, FollowInv, [Next]_vars PROVE FollowInv'
<1>1. CASE \E t \in Threads : Thread(t)
  <2>1. PICK t \in Threads : Thread(t)
    BY <1>1
  <2> QED BY <2>1, FollowDevice, FollowObserver, FollowMain, FollowFind
          DEF Thread, Plugging, Observing, Detecting
<1>2. CASE Crash
  <2>1. stack' = [t \in Threads |-> <<>>]
    BY <1>2 DEF Crash
  <2>2. \A t \in Threads : DOMAIN stack'[t] = {}
    BY <2>1
  <2> QED BY <2>2 DEF FollowInv, ScansFollow
<1>3. CASE \/ \E d \in Devices : ScanStarts(d) \/ ScanEnds(d)
           \/ Browse \/ ServerTrouble \/ Change \/ Swap \/ UNCHANGED vars
  <2>1. stack' = stack
    BY <1>3 DEF ScanStarts, ScanEnds, Browse, ServerTrouble, Change, Swap,
                vars, core
  <2> QED BY <2>1 DEF FollowInv, ScansFollow
<1> QED BY <1>1, <1>2, <1>3, FollowStart DEF Next

ScanOps == {"index", "unmarkAllDirty", "scan", "push"}
ScanFor(d) ==
    /\ dev[d].avail /\ "MediaIndexer" \in observers[Home[d]]
    /\ <<d, "rows">> \notin stale
    => rows[d] = "clean" \/ dev[d].asked \/ Pending(ScanOps, d)

LEMMA ScanParts == ScanInv <=> FollowInv /\ \A d \in Present : ScanFor(d)
<1>1. (\A d \in Present : ScanFor(d)) <=>
         \A d \in Present :
            /\ dev[d].avail /\ "MediaIndexer" \in observers[Home[d]]
            /\ <<d, "rows">> \notin stale
            => \/ rows[d] = "clean" \/ dev[d].asked
               \/ Pending({"index", "unmarkAllDirty", "scan", "push"}, d)
  BY DEF ScanFor, ScanOps
<1> QED BY <1>1 DEF ScanInv, FollowInv

LEMMA ScanKept ==
    ASSUME NEW d \in Devices, ScanFor(d),
           NEW gone, NEW new, Moves(gone, new),
           \A c \in gone : c.op \notin ScanOps \/ c.on # d,
           dev'[d].avail = dev[d].avail, dev[d].asked => dev'[d].asked,
           "MediaIndexer" \in observers'[Home[d]]
               => "MediaIndexer" \in observers[Home[d]],
           rows'[d] = rows[d],
           <<d, "rows">> \in stale => <<d, "rows">> \in stale'
    PROVE  ScanFor(d)'
<1>1. Pending(ScanOps, d) => Pending(ScanOps, d)'
  BY PendingKept
<1> QED BY <1>1 DEF ScanFor

LEMMA ScanKeptBy ==
    ASSUME NEW d \in Devices, ScanFor(d),
           NEW a, NEW new, Moves({a}, new), a.op \notin ScanOps \/ a.on # d,
           dev'[d].avail = dev[d].avail, dev[d].asked => dev'[d].asked,
           "MediaIndexer" \in observers'[Home[d]]
               => "MediaIndexer" \in observers[Home[d]],
           rows'[d] = rows[d],
           <<d, "rows">> \in stale => <<d, "rows">> \in stale'
    PROVE  ScanFor(d)'
<1>1. PICK gone : gone = {a}
  OBVIOUS
<1>2. \A c \in gone : c.op \notin ScanOps \/ c.on # d
  BY <1>1
<1>3. Moves(gone, new)
  BY <1>1
<1> QED BY <1>2, <1>3, ScanKept

\* A call that stays where it is, or is new, keeps the promise of a scan.
LEMMA ScanPromised ==
    ASSUME NEW d, NEW c, c \in AllCalls', c.op \in ScanOps, c.on = d
    PROVE  ScanFor(d)'
<1>1. Pending(ScanOps, d)'
  BY DEF Pending
<1> QED BY <1>1 DEF ScanFor

LEMMA SecondOfTail ==
    ASSUME NEW S, NEW s \in Seq(S), 1 + 1 \in DOMAIN s
    PROVE  1 \in DOMAIN Tail(s) /\ Tail(s)[1] = s[1 + 1]
<1>1. Len(s) \in Nat /\ Len(s) >= 2
  OBVIOUS
<1>2. s # <<>>
  BY <1>1
<1>3. Tail(s) \in Seq(S) /\ Len(Tail(s)) = Len(s) - 1
  BY <1>2
<1>4. 1 \in 1 .. Len(Tail(s))
  BY <1>1, <1>3
<1>5. Tail(s)[1] = s[1 + 1]
  BY <1>2, <1>4
<1> QED BY <1>3, <1>4, <1>5

LEMMA ScanNext ==
    ASSUME Sound, ScanInv, [Next]_vars, NEW d \in Present
    PROVE  ScanFor(d)'
<1>1. /\ Base /\ KnownInv /\ CallsInv /\ FollowInv
      /\ observers \in [Plugins -> SUBSET Observers]
      /\ dev \in [Devices -> Record]
      /\ rows \in [Devices -> {"none", "clean", "dirty"}]
  BY ScanParts DEF Sound, Base, Typed, TypeOK
<1>2. d \in Devices /\ Home[d] \in Plugins
  BY PresentSame, WorldStays
<1>3. ScanFor(d)
  BY ScanParts
<1>4. CASE Light
  <2>1. PICK gone : \E new : Moves(gone, new) /\ \A c \in gone : c.op \in LightOps
    BY <1>4 DEF Light
  <2>2. PICK new : Moves(gone, new)
    BY <2>1
  <2>3. \A c \in gone : c.op \notin ScanOps \/ c.on # d
    BY <2>1 DEF LightOps, ScanOps
  <2>4. /\ UNCHANGED <<dev, rows, stale>>
        /\ observers'[Home[d]] \subseteq observers[Home[d]]
    BY <1>2, <1>4 DEF Light
  <2> QED BY <1>2, <1>3, <2>2, <2>3, <2>4, ScanKept
<1>5. CASE Crash
  <2>1. dev' = [e \in Devices |-> Unknown]
    BY <1>5 DEF Crash
  <2>2. ~dev'[d].avail
    BY <1>2, <2>1 DEF Unknown
  <2> QED BY <2>2 DEF ScanFor
<1>6. ASSUME NEW e \in Devices, ScanEnds(e) PROVE ScanFor(d)'
  <2>1. CASE d = e
    <3>1. <<d, "rows">> \in stale' \/ rows'[d] = "clean"
      BY <1>6, <2>1, ScanEndsIs
    <3> QED BY <3>1 DEF ScanFor
  <2>2. CASE d # e
    <3>1. PICK no : no = {} /\ Moves(no, no)
      BY <1>6, ScanEndsIs, NoMoves
    <3>2. \A c \in no : c.op \notin ScanOps \/ c.on # d
      BY <3>1
    <3>3. /\ dev'[d] = dev[d]
          /\ rows'[d] = rows[d] /\ observers' = observers
          /\ <<d, "rows">> \in stale => <<d, "rows">> \in stale'
      BY <1>2, <1>6, <2>2, ScanEndsIs
    <3> QED BY <1>2, <1>3, <3>1, <3>2, <3>3, ScanKept
  <2> QED BY <2>1, <2>2
<1>7. ASSUME NEW t \in Threads,
             Add(t) \/ Refresh(t) \/ Remove(t) \/ Inject(t) \/ Check(t)
      PROVE  ScanFor(d)'
  <2>1. PICK e, s, new :
      /\ e \in Devices /\ s \in Record /\ DeviceMoves(t, e, s, new)
    BY <1>1, <1>7, DeviceStepMoves
  <2>2. /\ dev' = [dev EXCEPT ![e] = s] /\ Moves({Next1(t)}, In(new))
        /\ Changed(dev[e], s) => Told(e) \subseteq In(new)
        /\ ~Changed(dev[e], s) => s.avail = dev[e].avail /\ s.known = dev[e].known
        /\ Next1(t).op \in {"add", "refresh", "remove", "injectDevice", "check"}
        /\ UNCHANGED Others /\ Made(Next1(t), dev[e], Lives(e), s)
    BY <2>1 DEF DeviceMoves
  <2>3. observers' = observers /\ rows' = rows /\ stale' = stale
    BY <2>2 DEF Others, dbs, history
  <2>4. CASE d = e /\ Changed(dev[e], s)
    <3>1. CASE "MediaIndexer" \in observers[Home[d]]
      <4>1. PICK c : c = Call("index", d, "")
        OBVIOUS
      <4>2. c \in Told(d)
        <5>1. PICK o : o = "MediaIndexer"
          OBVIOUS
        <5>2. c = Call(IF o = "DeviceDb" THEN "record" ELSE "index", d, "")
          BY <4>1, <5>1
        <5> QED BY <3>1, <5>1, <5>2 DEF Told
      <4>3. c \in In(new) /\ c.op \in ScanOps /\ c.on = d
        BY <2>2, <2>4, <4>1, <4>2 DEF Call, ScanOps
      <4>4. c \in AllCalls'
        BY <2>2, <4>3 DEF Moves
      <4> QED BY <4>3, <4>4, ScanPromised
    <3>2. CASE "MediaIndexer" \notin observers[Home[d]]
      BY <2>3, <3>2 DEF ScanFor
    <3> QED BY <3>1, <3>2
  <2>5. CASE d # e \/ ~Changed(dev[e], s)
    <3>1. s.asked = dev[e].asked
      <4>1. dev[e] \in Record /\ (~dev[e].known => ~dev[e].avail /\ dev[e].alive = 0)
        BY <1>1, <2>1 DEF KnownInv
      <4> QED BY <2>2, <4>1, LivesType, MadeIs
    <3>2. dev'[d].avail = dev[d].avail /\ dev'[d].asked = dev[d].asked
      BY <1>1, <1>2, <2>2, <2>5, <3>1
    <3>3. Next1(t).op \notin ScanOps
      BY <2>2 DEF ScanOps
    <3> QED BY <1>2, <1>3, <2>2, <2>3, <3>2, <3>3, ScanKeptBy
  <2> QED BY <2>4, <2>5
<1>8. ASSUME NEW t \in Threads, IndexState(t) PROVE ScanFor(d)'
  <2>1. PICK e \in Devices : \E new :
          e = Next1(t).on /\ Then(t, new) /\ ~Idle(t) /\ Moves({Next1(t)}, In(new))
    BY <1>1, <1>8, TidyStepMoves
  <2>2. UNCHANGED <<dev, observers, rows, stale>>
    BY <1>8 DEF IndexState, Others, dbs, history
  <2>3. CASE d = e /\ dev[d].avail
    <3>1. PICK c : c = Call("unmarkAllDirty", d, "")
      OBVIOUS
    <3>2. PICK more : more = <<c, Call("scan", d, "")>>
      OBVIOUS
    <3>3. Then(t, more)
      BY <1>8, <2>1, <2>3, <3>1, <3>2 DEF IndexState
    <3>4. c.op \in ScanOps /\ c.on = d /\ c \in In(more)
      BY <3>1, <3>2, InTwo DEF Call, ScanOps
    <3>5. more \in Seq(AnyCall)
      <4>1. more \in Seq(Tidy(d))
        BY <1>2, <3>1, <3>2, SomeTidy
      <4>2. In(more) \subseteq AnyCall
        BY <1>2, <4>1, InIs, TidyCalls
      <4> QED BY <4>1, <4>2, InSeq
    <3>6. Moves({Next1(t)}, In(more))
      BY <1>1, <2>1, <3>3, <3>5, ThenIs
    <3>7. c \in AllCalls'
      BY <3>4, <3>6 DEF Moves
    <3> QED BY <3>4, <3>7, ScanPromised
  <2>4. CASE d # e
    <3>1. Next1(t).on # d
      BY <2>1, <2>4
    <3>2. PICK new : Moves({Next1(t)}, In(new))
      BY <2>1
    <3> QED BY <1>2, <1>3, <2>2, <3>1, <3>2, ScanKeptBy
  <2>5. CASE ~dev[d].avail
    BY <2>2, <2>5 DEF ScanFor
  <2> QED BY <2>3, <2>4, <2>5
<1>9. ASSUME NEW t \in Threads, MarkRows(t) PROVE ScanFor(d)'
  <2>1. PICK e \in Devices : \E new :
          e = Next1(t).on /\ Moves({Next1(t)}, In(new)) /\ ~Idle(t)
    BY <1>1, <1>9, TidyStepMoves
  <2>2. PICK new : Moves({Next1(t)}, In(new))
    BY <2>1
  <2>3. PICK flag \in {"dirty", "clean"} :
          /\ flag = (IF Next1(t).op = "markDirty" THEN "dirty" ELSE "clean")
          /\ rows' = [rows EXCEPT ![e] = IF @ = "none" THEN @ ELSE flag]
          /\ Written(e, "rows", (flag = "clean") <=> dev[e].avail)
    BY <1>9, <2>1 DEF MarkRows
  <2>4. UNCHANGED <<dev, observers>>
    BY <1>9 DEF MarkRows
  <2>5. CASE d = e /\ Next1(t).op = "unmarkAllDirty"
    <3>1. stack[t] \in Seq(AnyCall) /\ ScansFollow(stack[t]) /\ stack[t] # <<>>
      BY <1>1, <2>1 DEF CallsInv, FollowInv, Idle
    <3>2. Next1(t) = stack[t][1] /\ 1 \in DOMAIN stack[t]
      BY <3>1 DEF Next1
    <3>3. 1 + 1 \in DOMAIN stack[t] /\ stack[t][1 + 1] = Call("scan", d, "")
      BY <2>1, <2>5, <3>1, <3>2 DEF ScansFollow
    <3>4. PICK s : s = Tail(stack[t])
      OBVIOUS
    <3>5. 1 \in DOMAIN s /\ s[1] = Call("scan", d, "")
      BY <3>1, <3>3, <3>4, SecondOfTail
    <3>6. Call("scan", d, "") \in In(s)
      BY <3>5 DEF In
    <3>7. <<>> \in Seq(AnyCall) /\ Then(t, <<>>)
      BY <1>9 DEF MarkRows
    <3>8. CallsOf(t)' = In(<<>>) \cup In(s)
      BY <1>1, <2>1, <3>4, <3>7, ThenIs
    <3>9. Call("scan", d, "") \in AllCalls'
      BY <3>6, <3>8 DEF AllCalls
    <3>10. PICK c : c = Call("scan", d, "")
      OBVIOUS
    <3>11. c \in AllCalls' /\ c.op \in ScanOps /\ c.on = d
      BY <3>9, <3>10 DEF Call, ScanOps
    <3> QED BY <3>11, ScanPromised
  <2>6. CASE d = e /\ Next1(t).op # "unmarkAllDirty"
    <3>1. flag = "dirty"
      BY <1>9, <2>3, <2>6 DEF MarkRows, Doing
    <3>2. CASE dev[d].avail
      <4>1. <<d, "rows">> \in stale'
        BY <2>3, <2>6, <3>1, <3>2 DEF Written
      <4> QED BY <4>1 DEF ScanFor
    <3>3. CASE ~dev[d].avail
      BY <2>4, <3>3 DEF ScanFor
    <3> QED BY <3>2, <3>3
  <2>7. CASE d # e
    <3>1. Next1(t).on # d
      BY <2>1, <2>7
    <3>2. rows'[d] = rows[d]
      BY <1>1, <1>2, <2>3, <2>7
    <3>3. <<d, "rows">> # <<e, "rows">>
      BY <2>7
    <3>4. <<d, "rows">> \in stale => <<d, "rows">> \in stale'
      BY <2>3, <3>3 DEF Written
    <3> QED BY <1>2, <1>3, <2>2, <2>4, <3>1, <3>2, <3>4, ScanKeptBy
  <2> QED BY <2>5, <2>6, <2>7
<1>10. ASSUME NEW t \in Threads, RecordState(t) \/ MergePut(t)
       PROVE  ScanFor(d)'
  <2>1. PICK e \in Devices : \E new :
          e = Next1(t).on /\ Moves({Next1(t)}, In(new)) /\ ~Idle(t)
    BY <1>1, <1>10, TidyStepMoves
  <2>2. PICK new : Moves({Next1(t)}, In(new))
    BY <2>1
  <2>3. Next1(t).op \notin ScanOps
    BY <1>10 DEF RecordState, MergePut, Doing, ScanOps
  <2>4. UNCHANGED <<dev, observers, rows>>
    BY <1>10 DEF RecordState, MergePut, Others, dbs
  <2>5. \/ stale' = stale \/ stale' = stale \ {<<e, "record">>}
        \/ stale' = stale \cup {<<e, "record">>}
    BY <1>10, <2>1 DEF RecordState, MergePut, Others, history, Written
  <2>6. <<d, "rows">> # <<e, "record">>
    OBVIOUS
  <2>7. <<d, "rows">> \in stale => <<d, "rows">> \in stale'
    BY <2>5, <2>6
  <2> QED BY <1>2, <1>3, <2>2, <2>3, <2>4, <2>7, ScanKeptBy
<1>11. ASSUME NEW t \in Threads, AskScan(t) PROVE ScanFor(d)'
  <2>1. PICK e \in Devices : \E new :
          e = Next1(t).on /\ Then(t, new) /\ ~Idle(t) /\ Moves({Next1(t)}, In(new))
    BY <1>1, <1>11, TidyStepMoves
  <2>2. UNCHANGED <<dev, observers, rows, stale>>
    BY <1>11 DEF AskScan, Others, dbs, history
  <2>3. CASE d = e /\ dev[d].avail
    <3>1. PICK c : c = Call("push", d, "")
      OBVIOUS
    <3>2. PICK more : more = <<c>>
      OBVIOUS
    <3>3. Then(t, more)
      BY <1>11, <2>1, <2>3, <3>1, <3>2 DEF AskScan
    <3>4. c.op \in ScanOps /\ c.on = d /\ c \in In(more)
      BY <3>1, <3>2, InOne DEF Call, ScanOps
    <3>5. more \in Seq(AnyCall)
      <4>1. c \in Tidy(d)
        BY <3>1 DEF Tidy
      <4>2. c \in AnyCall
        BY <1>2, <4>1, TidyCalls
      <4> QED BY <3>2, <4>2
    <3>6. Moves({Next1(t)}, In(more))
      BY <1>1, <2>1, <3>3, <3>5, ThenIs
    <3>7. c \in AllCalls'
      BY <3>4, <3>6 DEF Moves
    <3> QED BY <3>4, <3>7, ScanPromised
  <2>4. CASE d # e
    <3>1. Next1(t).on # d
      BY <2>1, <2>4
    <3>2. PICK new : Moves({Next1(t)}, In(new))
      BY <2>1
    <3> QED BY <1>2, <1>3, <2>2, <3>1, <3>2, ScanKeptBy
  <2>5. CASE ~dev[d].avail
    BY <2>2, <2>5 DEF ScanFor
  <2> QED BY <2>3, <2>4, <2>5
<1>12. ASSUME NEW t \in Threads, PushRequest(t) PROVE ScanFor(d)'
  <2>1. PICK e \in Devices : \E new :
          e = Next1(t).on /\ ~Idle(t) /\ Moves({Next1(t)}, In(new))
    BY <1>1, <1>12, TidyStepMoves
  <2>2. dev' = [dev EXCEPT ![e] = Asked(@)]
    BY <1>12, <2>1 DEF PushRequest
  <2>3. UNCHANGED <<observers, rows, stale>>
    BY <1>12 DEF PushRequest, Others, dbs, history
  <2>4. CASE d = e
    <3>1. dev'[d].asked
      BY <1>1, <1>2, <2>2, <2>4 DEF Asked, Record
    <3> QED BY <3>1 DEF ScanFor
  <2>5. CASE d # e
    <3>1. Next1(t).on # d
      BY <2>1, <2>5
    <3>2. PICK new : Moves({Next1(t)}, In(new))
      BY <2>1
    <3>3. dev'[d] = dev[d]
      BY <1>1, <1>2, <2>2, <2>5
    <3> QED BY <1>2, <1>3, <2>3, <3>1, <3>2, <3>3, ScanKeptBy
  <2> QED BY <2>4, <2>5
<1>13. ASSUME NEW t \in Threads, Observe(t) PROVE ScanFor(d)'
  <2>1. /\ ~Idle("main")
        /\ \E p, o, more, tell :
                /\ p \in Plugins /\ o \in Observers /\ more \in Seq(AnyCall)
                /\ tell = IF o = "DeviceDb" THEN "record" ELSE "index"
                /\ Next1("main").op = "observe" /\ Then("main", more)
                /\ CallsOn(tell, Known(p)) \subseteq In(more)
                /\ observers' = [observers EXCEPT ![p] = @ \cup {o}]
    BY <1>1, <1>13, ObserveStep
  <2>2. PICK p, o, more, tell :
                /\ p \in Plugins /\ o \in Observers /\ more \in Seq(AnyCall)
                /\ tell = IF o = "DeviceDb" THEN "record" ELSE "index"
                /\ Next1("main").op = "observe" /\ Then("main", more)
                /\ CallsOn(tell, Known(p)) \subseteq In(more)
                /\ observers' = [observers EXCEPT ![p] = @ \cup {o}]
    BY <2>1
  <2>3. Moves({Next1("main")}, In(more))
    BY <1>1, <2>1, <2>2, MainIsThread, ThenIs
  <2>4. UNCHANGED <<dev, rows, stale>>
    BY <1>13 DEF Observe, dbs, history
  <2>5. CASE Home[d] = p /\ o = "MediaIndexer" /\ dev[d].known
    <3>1. d \in Known(p)
      BY <2>5 DEF Known, Of
    <3>2. PICK c : c = Call("index", d, "")
      OBVIOUS
    <3>3. c \in CallsOn("index", Known(p))
      BY <3>1, <3>2 DEF CallsOn
    <3>4. c \in In(more) /\ c.op \in ScanOps /\ c.on = d
      BY <2>2, <2>5, <3>2, <3>3 DEF Call, ScanOps
    <3>5. c \in AllCalls'
      BY <2>3, <3>4 DEF Moves
    <3> QED BY <3>4, <3>5, ScanPromised
  <2>6. CASE ~dev[d].known
    BY <1>1, <1>2, <2>4, <2>6 DEF ScanFor, KnownInv
  <2>7. CASE Home[d] # p \/ o # "MediaIndexer"
    <3>1. "MediaIndexer" \in observers'[Home[d]]
            => "MediaIndexer" \in observers[Home[d]]
      BY <1>1, <1>2, <2>2, <2>7
    <3>2. Next1("main").op \notin ScanOps
      BY <2>2 DEF ScanOps
    <3> QED BY <1>2, <1>3, <2>3, <2>4, <3>1, <3>2, ScanKeptBy
  <2> QED BY <2>5, <2>6, <2>7
<1> QED BY <1>1, <1>4, <1>5, <1>6, <1>7, <1>8, <1>9, <1>10, <1>11, <1>12,
           <1>13, StepKinds

LEMMA ScanSafe == Spec => []ScanInv
<1>1. Init => ScanInv
  <2> SUFFICES ASSUME Init PROVE ScanInv
    OBVIOUS
  <2>1. dev = [e \in Devices |-> Unknown] /\ stack = [t \in Threads |-> <<>>]
    BY DEF Init
  <2>2. \A d \in Present : ~dev[d].avail
    BY <2>1 DEF Present, Unknown
  <2>3. \A t \in Threads : DOMAIN stack[t] = {}
    BY <2>1
  <2> QED BY <2>2, <2>3 DEF ScanInv, ScansFollow
<1>2. Sound /\ ScanInv /\ [Next]_vars => ScanInv'
  <2> SUFFICES ASSUME Sound, ScanInv, [Next]_vars PROVE ScanInv'
    OBVIOUS
  <2>1. \A d \in Present : ScanFor(d)'
    BY ScanNext
  <2>2. Present' = Present
    BY PresentSame, WorldStays
  <2>3. FollowInv'
    BY FollowNext, ScanParts DEF Sound
  <2>4. (ScanInv <=> FollowInv /\ \A d \in Present : ScanFor(d))'
    BY ScanParts, PTL
  <2> QED BY <2>1, <2>2, <2>3, <2>4
<1> QED BY <1>1, <1>2, AlwaysSound, PTL DEF Spec

\* Once all is quiet, a device that became available has been walked: between
\* the threads that announce it, deviceStateChanged, Device::scan with its
\* check, the wait for a walk under way and the scan loop, no request is lost.
THEOREM ScansAreMade == Spec => []AvailableIsScanned
<1>1. ASSUME Sound, ScanInv PROVE AvailableIsScanned
  <2>1. SUFFICES ASSUME Quiet, NEW d \in Present, Home[d] \in running,
                        dev[d].avail, dev[d].loop, <<d, "rows">> \notin stale
                 PROVE  rows[d] = "clean"
    BY DEF AvailableIsScanned
  <2>2. Home[d] \in Plugins /\ d \in Devices
    BY HomeAssumption DEF Present
  <2>3. /\ "MediaIndexer" \in observers[Home[d]] /\ ~Pending(ScanOps, d)
        /\ ~dev[d].asked
    BY <1>1, <2>1, <2>2, QuietIs DEF Observers
  <2>4. ScanFor(d)
    BY <1>1, <2>1, ScanParts
  <2> QED BY <2>1, <2>3, <2>4 DEF ScanFor
<1> QED BY <1>1, AlwaysSound, ScanSafe, PTL

----------------------------------------------------------------------------
(***************************************************************************)
(* Where drives are: PdmListener's map, what its messages make the main    *)
(* loop do, and the devices with a configured path.                        *)
(***************************************************************************)
Placed == {d \in Present : Home[d] \in OnPdm \cup {"storage"}}
Adding(d) == Pending({"add"}, d)
Removing(d) == Pending({"remove"}, d)
Clearing(p) == Pending({"removeAll"}, p)

MapFits(d) ==
    d \notin excused /\ Home[d] \in running =>
        IF InMap(d) THEN ~Removing(d) /\ (dev[d].avail \/ Adding(d))
        ELSE ~Adding(d) /\ (~dev[d].avail \/ Removing(d))
PathFits(d) ==
    "storage" \in running => ~Removing(d) /\ (dev[d].avail \/ Adding(d))
HaltFits(d) ==
    /\ Adding(d) => Home[d] \in running
    /\ Home[d] \notin running =>
         ~dev[d].avail \/ Removing(d) \/ Clearing(Home[d])
Fits(d) ==
    /\ Home[d] \in OnPdm => MapFits(d)
    /\ Home[d] = "storage" => PathFits(d)
    /\ HaltFits(d)

SubscribedInv == \A p \in OnPdm : p \in running => subscribed
LastInv ==
    subscribed /\ inbox # <<>> =>
        \A d \in PdmDevices : inbox[Len(inbox)].at[d] = attached[d]
MapInv ==
    subscribed /\ inbox = <<>> =>
        \A d \in PdmDevices \ excused : InMap(d) <=> attached[d] # NoMount
PathInv == \A d \in Of("storage") : attached[d] # NoMount
DrivesInv ==
    /\ SubscribedInv /\ LastInv /\ MapInv /\ PathInv
    /\ \A d \in Placed : Fits(d)

\* The invariants that are checked, in the parts that are proved.
LEMMA DrivesParts == PdmInv /\ StorageInv /\ HaltedInv <=> DrivesInv
<1>1. PdmInv <=> /\ SubscribedInv /\ LastInv /\ MapInv
                 /\ \A d \in PdmDevices : MapFits(d)
  BY DEF PdmInv, SubscribedInv, LastInv, MapInv, MapFits, Adding, Removing
<1>2. StorageInv <=> PathInv /\ \A d \in Of("storage") : PathFits(d)
  BY DEF StorageInv, PathInv, PathFits, Adding, Removing
<1>3. HaltedInv <=> \A d \in Placed : HaltFits(d)
  <2>1. HaltedInv <=> \A d \in Present : Home[d] \in OnPdm \cup {"storage"}
                                         => HaltFits(d)
    BY DEF HaltedInv, HaltFits, Adding, Removing, Clearing
  <2> QED BY <2>1 DEF Placed
<1>4. /\ \A d : d \in PdmDevices <=> d \in Placed /\ Home[d] \in OnPdm
      /\ \A d : d \in Of("storage") <=> d \in Placed /\ Home[d] = "storage"
  BY DEF PdmDevices, Of, Placed
<1> QED BY <1>1, <1>2, <1>3, <1>4 DEF DrivesInv, Fits

\* These devices are not discovered by other threads.
LEMMA PlacedIs ==
    ASSUME NEW d \in Placed
    PROVE  /\ d \in Devices /\ d \in Present /\ Home[d] \in Plugins
           /\ Home[d] \notin Discovered
           /\ Home[d] \in OnPdm <=> Home[d] # "storage"
           /\ Home[d] = "storage" <=> d \in Of("storage")
           /\ Home[d] \in OnPdm <=> d \in PdmDevices
<1>1. d \in Devices /\ d \in Present /\ Home[d] \in Plugins
  BY HomeAssumption DEF Placed, Present
<1>2. Home[d] \in OnPdm => Home[d] \in {"msc", "mtp"} /\ "pdm" \in build
  BY DEF OnPdm
<1>3. Home[d] \notin Discovered
  <2>1. CASE Home[d] = "storage"
    BY <2>1 DEF Discovered, Polled
  <2>2. CASE Home[d] \in OnPdm
    BY <1>2, <2>2 DEF Discovered, Polled
  <2> QED BY <2>1, <2>2 DEF Placed
<1>4. Home[d] \in OnPdm <=> Home[d] # "storage"
  BY <1>2 DEF Placed
<1> QED BY <1>1, <1>3, <1>4 DEF Of, PdmDevices

\* Only the main loop adds and removes them ...
LEMMA PlacedOnMain ==
    ASSUME Base, NEW d \in Placed, NEW c \in AllCalls,
           c.op \in {"add", "remove"}, c.on = d
    PROVE  c \in CallsOf("main")
<1>1. PICK t \in Threads : c \in CallsOf(t)
  BY DEF AllCalls
<1>2. CASE t # "main"
  <2>1. OthersDo(c)
    BY <1>1, <1>2 DEF Base, Typed, CallsInv
  <2>2. Home[d] \in Discovered
    BY <2>1 DEF OthersDo
  <2> QED BY <2>2, PlacedIs
<1> QED BY <1>1, <1>2

\* ... and it has done so before it goes on with anything else.
LEMMA NoWork ==
    ASSUME Base, Idle("main") \/ Next1("main").op \notin WorkOps, NEW d \in Placed
    PROVE  ~Adding(d) /\ ~Removing(d)
<1>1. CallsInv /\ MainSplits
  BY DEF Base, Typed
<1>2. \A c \in CallsOf("main") : c.op \notin {"add", "remove"}
  <2>1. CASE Idle("main")
    BY <2>1 DEF Idle, CallsOf
  <2>2. CASE ~Idle("main")
    <3>1. Next1("main").op \notin WorkOps
      BY <2>2
    <3>2. stack["main"] \in Seq(AnyCall) /\ stack["main"] # <<>>
      BY <1>1, <2>2, MainIsThread DEF CallsInv, Idle
    <3>3. CallsOf("main") = {Next1("main")} \cup In(Tail(stack["main"]))
      <4>1. In(stack["main"]) = {Head(stack["main"])} \cup In(Tail(stack["main"]))
        BY <3>2, InTail
      <4> QED BY <4>1 DEF CallsOf, In, Next1
    <3>4. \A c \in PluginCalls \cup DetectCalls : c.op \notin {"add", "remove"}
      BY DEF PluginCalls, DetectCalls
    <3>5. In(Tail(stack["main"])) \subseteq PluginCalls \cup DetectCalls
      <4>1. CASE Tail(stack["main"]) \in Seq(DetectCalls)
        BY <4>1, InIs
      <4>2. CASE \E tail \in Seq(PluginCalls), rest \in Seq(DetectCalls) :
                   Tail(stack["main"]) = tail \o rest
        <5>1. PICK tail \in Seq(PluginCalls), rest \in Seq(DetectCalls) :
                   Tail(stack["main"]) = tail \o rest
          BY <4>2
        <5>2. In(tail) \subseteq PluginCalls /\ In(rest) \subseteq DetectCalls
          BY <5>1, InIs
        <5>3. tail \in Seq(AnyCall) /\ rest \in Seq(AnyCall)
          BY <5>1, Monotone
        <5>4. In(tail \o rest) = In(tail) \cup In(rest)
          BY <5>3, InConcat
        <5> QED BY <5>1, <5>2, <5>4
      <4> QED BY <1>1, <2>2, <3>1, <4>1, <4>2, MainFirst
    <3> QED BY <3>1, <3>3, <3>4, <3>5 DEF WorkOps
  <2> QED BY <2>1, <2>2
<1>3. \A c \in AllCalls : c.op \in {"add", "remove"} => c.on # d
  BY <1>2, PlacedOnMain
<1> QED BY <1>3 DEF Adding, Removing, Pending

\* A device that a step does not touch.
LEMMA FitsKept ==
    ASSUME NEW d, Fits(d),
           Adding(d)' <=> Adding(d), Removing(d)' <=> Removing(d),
           Clearing(Home[d]) => Clearing(Home[d])',
           dev'[d].avail = dev[d].avail,
           Home[d] \in running' <=> Home[d] \in running,
           mounted' = mounted, excused' = excused, world' = world
    PROVE  Fits(d)'
<1>1. /\ InMap(d)' <=> InMap(d)
      /\ Home[d] \in OnPdm' <=> Home[d] \in OnPdm
  BY DEF InMap, OnPdm, build
<1>2. MapFits(d) => MapFits(d)'
  BY <1>1 DEF MapFits
<1>3. Home[d] = "storage" /\ PathFits(d) => PathFits(d)'
  BY DEF PathFits
<1>4. HaltFits(d) => HaltFits(d)'
  BY DEF HaltFits
<1> QED BY <1>1, <1>2, <1>3, <1>4 DEF Fits

LEMMA PendingSame ==
    ASSUME NEW gone, NEW new, Moves(gone, new), NEW d, NEW p,
           \A c \in gone : /\ c.op \in {"add", "remove"} => c.on # d
                           /\ c.op = "removeAll" => c.on # p,
           \A c \in new : c.op \in {"add", "remove"} => c.on # d
    PROVE  /\ Adding(d)' <=> Adding(d)
           /\ Removing(d)' <=> Removing(d)
           /\ Clearing(p) => Clearing(p)'
<1>1. Adding(d)' <=> Adding(d)
  <2>1. Adding(d) <=> \E c \in AllCalls : c.op = "add" /\ c.on = d
    BY DEF Adding, Pending
  <2>2. Adding(d)' <=> \E c \in AllCalls' : c.op = "add" /\ c.on = d
    BY DEF Adding, Pending
  <2> QED BY <2>1, <2>2 DEF Moves
<1>2. Removing(d)' <=> Removing(d)
  <2>1. Removing(d) <=> \E c \in AllCalls : c.op = "remove" /\ c.on = d
    BY DEF Removing, Pending
  <2>2. Removing(d)' <=> \E c \in AllCalls' : c.op = "remove" /\ c.on = d
    BY DEF Removing, Pending
  <2> QED BY <2>1, <2>2 DEF Moves
<1>3. Clearing(p) => Clearing(p)'
  <2>1. Clearing(p) <=> \E c \in AllCalls : c.op = "removeAll" /\ c.on = p
    BY DEF Clearing, Pending
  <2>2. Clearing(p)' <=> \E c \in AllCalls' : c.op = "removeAll" /\ c.on = p
    BY DEF Clearing, Pending
  <2> QED BY <2>1, <2>2 DEF Moves
<1> QED BY <1>1, <1>2, <1>3

\* Steps that neither add nor remove a device, nor touch its availability.
LEMMA AsideFits ==
    ASSUME NEW gone, NEW new, Moves(gone, new), NEW d \in Placed,
           \A c \in gone : /\ c.op \in {"add", "remove"} => c.on # d
                           /\ c.op = "removeAll" => c.on # Home[d],
           \A c \in new : c.op \in {"add", "remove"} => c.on # d,
           dev'[d].avail = dev[d].avail,
           Home[d] \in running' <=> Home[d] \in running,
           UNCHANGED <<mounted, excused, world>>, Fits(d)
    PROVE  Fits(d)'
<1>1. PICK p : p = Home[d]
  OBVIOUS
<1>2. \A c \in gone : /\ c.op \in {"add", "remove"} => c.on # d
                      /\ c.op = "removeAll" => c.on # p
  BY <1>1
<1>3. /\ Adding(d)' <=> Adding(d)
      /\ Removing(d)' <=> Removing(d)
      /\ Clearing(p) => Clearing(p)'
  BY <1>2, PendingSame
<1>4. Clearing(Home[d]) => Clearing(Home[d])'
  BY <1>1, <1>3
<1> QED BY <1>3, <1>4, FitsKept

LEMMA AsideThen ==
    ASSUME CallsInv, NEW t \in Threads, ~Idle(t), NEW more \in Seq(AnyCall),
           Then(t, more), NEW d \in Placed,
           Next1(t).op \notin {"add", "remove", "removeAll"},
           \A c \in In(more) : c.op \in {"add", "remove"} => c.on # d,
           dev'[d].avail = dev[d].avail,
           Home[d] \in running' <=> Home[d] \in running,
           UNCHANGED <<mounted, excused, world>>, Fits(d)
    PROVE  Fits(d)'
<1>1. PICK gone : gone = {Next1(t)}
  OBVIOUS
<1>2. Moves(gone, In(more))
  BY <1>1, ThenIs
<1>3. \A c \in gone : /\ c.op \in {"add", "remove"} => c.on # d
                      /\ c.op = "removeAll" => c.on # Home[d]
  BY <1>1
<1> QED BY <1>2, <1>3, AsideFits

LEMMA AsideBegin ==
    ASSUME CallsInv, NEW t \in Threads, NEW more \in Seq(AnyCall),
           Begin(t, more) \/ stack' = stack, NEW d \in Placed,
           \A c \in In(more) : c.op \in {"add", "remove"} => c.on # d,
           dev'[d].avail = dev[d].avail,
           Home[d] \in running' <=> Home[d] \in running,
           UNCHANGED <<mounted, excused, world>>, Fits(d)
    PROVE  Fits(d)'
<1>1. PICK gone : gone = {}
  OBVIOUS
<1>2. CASE Begin(t, more)
  <2>1. Moves(gone, In(more))
    BY <1>1, <1>2, BeginIs
  <2> QED BY <1>1, <2>1, AsideFits
<1>3. CASE stack' = stack
  <2>1. Moves(gone, {})
    BY <1>1, <1>3, NoMoves
  <2>2. PICK new : new = {}
    OBVIOUS
  <2> QED BY <1>1, <2>1, <2>2, AsideFits
<1> QED BY <1>2, <1>3

LEMMA TidyFits ==
    ASSUME Base, NEW t \in Threads,
           \/ Modify(t) \/ RecordState(t) \/ MergePut(t) \/ IndexState(t)
           \/ MarkRows(t) \/ AskScan(t) \/ PushRequest(t),
           NEW d \in Placed, Fits(d)
    PROVE  Fits(d)'
<1>1. CallsInv /\ dev \in [Devices -> Record]
  BY DEF Base, Typed, TypeOK
<1>2. PICK e : e = Next1(t).on
  OBVIOUS
<1>3. /\ ~Idle(t) /\ e \in Devices /\ TidyStep(t, e)
      /\ Next1(t).op \notin {"add", "remove", "removeAll"}
  BY <1>1, <1>2, TidyActions
<1>4. PICK more \in Seq(Tidy(e)) : Then(t, more)
  BY <1>3 DEF TidyStep
<1>5. more \in Seq(AnyCall) /\ \A c \in In(more) : c.op \notin {"add", "remove"}
  <2>1. In(more) \subseteq Tidy(e)
    BY <1>4, InIs
  <2>2. In(more) \subseteq AnyCall
    BY <1>3, <2>1, TidyCalls
  <2> QED BY <1>3, <1>4, <2>1, <2>2, InSeq, TidyCalls
<1>6. UNCHANGED <<running, mounted, excused, world>>
  BY DEF Modify, RecordState, MergePut, IndexState, MarkRows, AskScan,
         PushRequest, Others, pdm, env, history
<1>7. dev'[d].avail = dev[d].avail
  <2>1. CASE PushRequest(t)
    <3>1. dev' = [dev EXCEPT ![e] = Asked(@)]
      BY <1>2, <2>1 DEF PushRequest
    <3> QED BY <1>1, <1>3, <3>1, PlacedIs DEF Asked, Record
  <2>2. CASE ~PushRequest(t)
    BY <2>2 DEF Modify, RecordState, MergePut, IndexState, MarkRows, AskScan
  <2> QED BY <2>1, <2>2
<1> QED BY <1>1, <1>3, <1>4, <1>5, <1>6, <1>7, AsideThen

LEMMA PlanFits ==
    ASSUME Base, NEW t \in Threads,
           \/ CheckDevices(t) \/ Ignore(t) \/ Forget(t) \/ SetDetect(t)
           \/ Await(t) \/ SetEnable(t) \/ Erase(t) \/ Observe(t)
           \/ (t = "meta" /\ GetDeviceMeta),
           NEW d \in Placed, Fits(d)
    PROVE  Fits(d)'
<1>1. CallsInv
  BY DEF Base, Typed
<1>2. UNCHANGED <<running, mounted, excused, world, dev>>
  BY DEF CheckDevices, Ignore, Forget, SetDetect, Await, SetEnable, Erase,
         Observe, GetDeviceMeta, Others, pdm, env, history
<1>3. ASSUME NEW u \in Threads, ~Idle(u), NEW more \in Seq(AnyCall),
             Then(u, more), Next1(u).op \notin {"add", "remove", "removeAll"},
             \A c \in In(more) : c.op \in {"add", "remove"} => c.on # d
      PROVE  Fits(d)'
  BY <1>1, <1>2, <1>3, AsideThen
<1>4. \A c \in PluginCalls : c.op \notin {"add", "remove"}
  BY DEF PluginCalls
<1>5. In(<<>>) = {} /\ <<>> \in Seq(AnyCall)
  BY InNil
<1>6. CASE CheckDevices(t)
  <2>1. PICK p \in Plugins :
           /\ ~Idle(t) /\ Next1(t).op = "checkDevices"
           /\ Then(t, Each(Known(p), "check", ""))
           /\ Each(Known(p), "check", "") \in Seq(AnyCall)
    BY <1>1, <1>6, CheckDevicesStep
  <2>2. PICK none : none = ""
    OBVIOUS
  <2>3. PICK more : more = Each(Known(p), "check", none)
    OBVIOUS
  <2>7. PICK op : op = "check"
    OBVIOUS
  <2>4. In(more) = CallsOn(op, Known(p))
    <3>1. op \in LoopOps /\ Known(p) \subseteq Devices
      BY <2>7, DevicesOf DEF LoopOps
    <3>2. more = Each(Known(p), op, none)
      BY <2>3, <2>7
    <3> QED BY <2>2, <3>1, <3>2, EachCalls
  <2>5. \A c \in In(more) : c.op = "check"
    <3>1. \A c \in CallsOn(op, Known(p)) : c.op = op
      BY CallsOnIs
    <3> QED BY <2>4, <2>7, <3>1
  <2>6. more \in Seq(AnyCall) /\ Then(t, more)
    BY <2>1, <2>2, <2>3
  <2> QED BY <1>3, <2>1, <2>5, <2>6
<1>7. CASE Ignore(t) \/ SetDetect(t)
  <2>1. PICK more \in Seq(PluginCalls) :
           /\ t = "main" /\ ~Idle("main") /\ Then("main", more)
           /\ Next1("main").op \in {"ignore", "setDetect"}
    BY <1>7, IgnoreStep, SetDetectStep
  <2>2. In(more) \subseteq PluginCalls /\ more \in Seq(AnyCall)
    BY <2>1, InIs, Monotone
  <2> QED BY <1>3, <1>4, <2>1, <2>2
<1>8. CASE Forget(t) \/ Await(t) \/ SetEnable(t) \/ Erase(t)
  <2>1. /\ t = "main" /\ ~Idle("main") /\ Then("main", <<>>)
        /\ Next1("main").op \in {"forget", "await", "setEnable", "erase"}
    BY <1>8, ForgetStep, SmallSteps
  <2> QED BY <1>3, <1>5, <2>1
<1>9. CASE Observe(t)
  <2>1. PICK p, o, more, tell :
           /\ p \in Plugins /\ o \in Observers /\ more \in Seq(AnyCall)
           /\ t = "main" /\ ~Idle("main")
           /\ tell = IF o = "DeviceDb" THEN "record" ELSE "index"
           /\ Next1("main").op = "observe" /\ Then("main", more)
           /\ In(more) \subseteq CallsOn(tell, Known(p))
                             \cup CallsOn("run", {p})
    BY <1>9, ObserveStep
  <2>2. \A c \in In(more) : c.op = tell \/ c.op = "run"
    BY <2>1, CallsOnIs
  <2>3. tell \notin {"add", "remove"}
    BY <2>1
  <2> QED BY <1>3, <2>1, <2>2, <2>3
<1>10. CASE t = "meta" /\ GetDeviceMeta
  <2>1. PICK e \in Devices, more \in Seq(AnyCall) :
           /\ ~Idle("meta") /\ Next1("meta").op = "getDeviceMeta"
           /\ Then("meta", more) /\ Home[e] \in Discovered
           /\ In(more) \subseteq {Call("add", e, attached[e])}
    BY <1>10, GetDeviceMetaStep
  <2>2. e # d
    BY <2>1, PlacedIs
  <2>3. \A c \in In(more) : c.on # d
    BY <2>1, <2>2, CallIs
  <2> QED BY <1>3, <1>10, <2>1, <2>3
<1> QED BY <1>6, <1>7, <1>8, <1>9, <1>10

\* Queries and descriptions that are asked for.
LEMMA AskFits ==
    ASSUME Base, NEW t \in Threads, Find(t) \/ RequestMeta(t),
           NEW d \in Placed, Fits(d)
    PROVE  Fits(d)'
<1>1. UNCHANGED <<running, mounted, excused, world, dev>>
  BY DEF Find, RequestMeta, Others, pdm, env, history
<1>2. PICK a, op : /\ Moves({a}, {c \in AllCalls' : c.op = op})
                   /\ a.op \in {"find", "request"}
                   /\ op \in {"injectDevice", "getDeviceMeta"}
  <2>1. CASE Find(t)
    <3>1. /\ Moves({Next1("main")}, {c \in AllCalls' : c.op = "injectDevice"})
          /\ Next1("main").op = "find"
      BY <2>1, FindStep
    <3> QED BY <3>1
  <2>2. CASE RequestMeta(t)
    <3>1. /\ Moves({Next1(t)}, {c \in AllCalls' : c.op = "getDeviceMeta"})
          /\ Next1(t).op = "request"
      BY <2>2, RequestStep
    <3> QED BY <3>1
  <2> QED BY <2>1, <2>2
<1>3. PICK gone : gone = {a}
  OBVIOUS
<1>4. PICK new : new = {c \in AllCalls' : c.op = op}
  OBVIOUS
<1>5. Moves(gone, new)
  BY <1>2, <1>3, <1>4
<1>6. \A c \in gone : c.op \notin {"add", "remove", "removeAll"}
  BY <1>2, <1>3
<1>7. \A c \in new : c.op \notin {"add", "remove"}
  BY <1>2, <1>4
<1> QED BY <1>1, <1>5, <1>6, <1>7, AsideFits

\* Handlers that begin, and what happens outside.
LEMMA StartFits ==
    ASSUME Base, [Next]_vars,
           \/ DbConnected \/ BusMethod \/ PollRound
           \/ \E p \in Plugins : SettingsFound(p)
           \/ \E t \in Pool : SearchTimeout(t)
           \/ \E t \in Pool, d \in Of("upnp") : Event(t, d)
           \/ Still,
           NEW d \in Placed, Fits(d)
    PROVE  Fits(d)'
<1>1. CallsInv /\ dev \in [Devices -> Record]
  BY DEF Base, Typed, TypeOK
<1>2. UNCHANGED <<running, mounted, excused>> /\ dev'[d].avail = dev[d].avail
  <2>1. CASE \E e \in Devices : ScanEnds(e)
    <3>1. PICK e \in Devices : ScanEnds(e)
      BY <2>1
    <3>2. dev' = [dev EXCEPT ![e].asked = FALSE]
      BY <3>1 DEF ScanEnds
    <3>3. dev'[d].avail = dev[d].avail
      BY <1>1, <3>2, PlacedIs DEF Record
    <3> QED BY <3>1, <3>3 DEF ScanEnds, pdm
  <2>2. CASE Change \/ Swap \/ UNCHANGED vars
    BY <2>2 DEF Change, Swap, vars, core, pdm, history
  <2>3. CASE DbConnected \/ BusMethod \/ PollRound
    BY <2>3 DEF DbConnected, BusMethod, PollRound, PluginPutGet, DetectRunStop,
         Get, Put, Others, pdm, history
  <2>4. CASE \E p \in Plugins : SettingsFound(p)
    BY <2>4 DEF SettingsFound, pdm, history
  <2>5. CASE \/ \E t \in Pool : SearchTimeout(t)
             \/ \E t \in Pool, e \in Of("upnp") : Event(t, e)
    BY <2>5 DEF SearchTimeout, Event, ServiceFound, ServiceLost, Others, pdm,
         history
  <2>6. CASE \/ \E e \in Devices : ScanStarts(e)
             \/ Browse \/ ServerTrouble
    BY <2>6 DEF ScanStarts, Browse, ServerTrouble, core, pdm, history
  <2> QED BY <2>1, <2>2, <2>3, <2>4, <2>5, <2>6 DEF Still
<1>3. world' = world
  BY WorldStays
<1>4. \A c \in PluginCalls \cup DetectCalls : c.op \notin {"add", "remove"}
  BY DEF PluginCalls, DetectCalls
<1>5. PICK t \in Threads, more \in Seq(AnyCall) :
        /\ Begin(t, more) \/ stack' = stack
        /\ \A c \in In(more) : c.op \in {"add", "remove"} => c.on # d
  <2>1. <<>> \in Seq(AnyCall) /\ In(<<>>) = {}
    BY InNil
  <2>2. CASE stack' = stack
    BY <2>1, <2>2, MainIsThread
  <2>3. CASE DbConnected \/ \E p \in Plugins : SettingsFound(p)
    <3>1. PICK more \in Seq(DetectCalls) : Begin("main", more)
      BY <2>3, DbConnectedStep, SettingsFoundStep
    <3>2. In(more) \subseteq DetectCalls /\ more \in Seq(AnyCall)
      BY <3>1, InIs, Monotone
    <3> QED BY <1>4, <3>1, <3>2, MainIsThread
  <2>4. CASE BusMethod /\ stack' # stack
    <3>1. PICK more \in Seq(AnyCall) :
            Begin("main", more) /\ In(more) \subseteq PluginCalls \cup DetectCalls
      BY <2>4, BusMethodStep
    <3> QED BY <1>4, <3>1, MainIsThread
  <2>5. CASE \/ PollRound \/ \E u \in Pool : SearchTimeout(u)
             \/ stack' # stack /\ \E u \in Pool, e \in Of("upnp") : Event(u, e)
    <3>1. PICK u \in Threads, more \in Seq(AnyCall) :
            /\ Begin(u, more)
            /\ \A c \in In(more) : c.op \in Finds /\ OthersDo(c)
      <4>1. "poll" \in Threads
        BY DEF Threads
      <4> QED BY <2>5, <4>1, PollStep, SearchStep, EventStep DEF Event
    <3>2. \A c \in In(more) : c.op \in {"add", "remove"} => Home[c.on] \in Discovered
      BY <3>1 DEF OthersDo, DeviceCalls, PluginCalls
    <3> QED BY <3>1, <3>2, PlacedIs
  <2>6. CASE Still
    BY <2>2, <2>6, StillStep
  <2> QED BY <2>2, <2>3, <2>4, <2>5, <2>6
<1> QED BY <1>1, <1>2, <1>3, <1>5, AsideBegin

\* A device that has just been added, and one that has been removed.
LEMMA AddedFits ==
    ASSUME NEW d, Fits(d), Adding(d), Removing(d)' => Removing(d),
           dev'[d].avail, UNCHANGED <<running, mounted, excused, world>>
    PROVE  Fits(d)'
<1>1. /\ InMap(d)' <=> InMap(d)
      /\ Home[d] \in OnPdm' <=> Home[d] \in OnPdm
  BY DEF InMap, OnPdm, build
<1>2. Home[d] \in running
  BY DEF Fits, HaltFits
<1>3. MapFits(d) => MapFits(d)'
  BY <1>1 DEF MapFits
<1>4. PathFits(d) => PathFits(d)'
  BY DEF PathFits
<1>5. HaltFits(d)'
  BY <1>2 DEF HaltFits
<1> QED BY <1>1, <1>3, <1>4, <1>5 DEF Fits

LEMMA RemovedFits ==
    ASSUME NEW d, Fits(d), Removing(d), Adding(d)' => Adding(d),
           ~dev'[d].avail, UNCHANGED <<running, mounted, excused, world>>
    PROVE  Fits(d)'
<1>1. /\ InMap(d)' <=> InMap(d)
      /\ Home[d] \in OnPdm' <=> Home[d] \in OnPdm
  BY DEF InMap, OnPdm, build
<1>2. MapFits(d) => MapFits(d)'
  BY <1>1 DEF MapFits
<1>3. Home[d] = "storage" /\ PathFits(d) => PathFits(d)'
  BY DEF PathFits
<1>4. HaltFits(d) => HaltFits(d)'
  BY DEF HaltFits
<1> QED BY <1>1, <1>2, <1>3, <1>4 DEF Fits

\* A call that makes something of a device: of this one, it is to add it, to
\* remove it or to inject it, and it keeps what it promises.
LEMMA DeviceFits ==
    ASSUME Base, KnownInv, NEW t \in Threads,
           Add(t) \/ Refresh(t) \/ Remove(t) \/ Inject(t) \/ Check(t),
           NEW d \in Placed, Fits(d)
    PROVE  Fits(d)'
<1>1. CallsInv /\ MainSplits /\ dev \in [Devices -> Record]
  BY DEF Base, Typed, TypeOK
<1>2. PICK e, s, new :
    /\ e \in Devices /\ s \in Record /\ DeviceMoves(t, e, s, new)
  BY DeviceStepMoves
<1>3. UNCHANGED <<running, mounted, excused, world>>
  BY <1>2 DEF DeviceMoves, Others, pdm, env, history
<1>4. \A c \in In(new) : c.op \notin {"add", "remove", "removeAll"}
  BY <1>2, TidyCalls DEF DeviceMoves
<1>5. PICK gone : gone = {Next1(t)}
  OBVIOUS
<1>6. Moves(gone, In(new)) /\ e = Next1(t).on
  BY <1>2, <1>5 DEF DeviceMoves
<1>7. CASE e # d
  <2>1. dev'[d].avail = dev[d].avail
    BY <1>1, <1>2, <1>7, PlacedIs DEF DeviceMoves
  <2>2. \A c \in gone : /\ c.op \in {"add", "remove"} => c.on # d
                        /\ c.op = "removeAll" => c.on # Home[d]
    BY <1>2, <1>5, <1>6, <1>7 DEF DeviceMoves
  <2> QED BY <1>3, <1>4, <1>6, <2>1, <2>2, AsideFits
<1>8. CASE e = d
  <2>1. Next1(t).op \in {"add", "remove", "injectDevice"}
    <3>1. CASE t = "main"
      BY <1>1, <1>2, <3>1, NotOnMain DEF DeviceMoves
    <3>2. CASE t # "main"
      <4>1. OthersDo(Next1(t))
        BY <1>1, <1>2, <3>2, FirstCall DEF DeviceMoves
      <4>2. Next1(t).op \in {"refresh", "check"} => Home[d] \in Discovered
        BY <1>6, <1>8, <4>1 DEF OthersDo, PluginCalls
      <4> QED BY <1>2, <4>2, PlacedIs DEF DeviceMoves
    <3> QED BY <3>1, <3>2
  <2>2. dev'[d].avail = s.avail
    BY <1>1, <1>2, <1>8 DEF DeviceMoves
  <2>3. /\ Next1(t).op = "add" => s.avail
        /\ Next1(t).op = "remove" => ~s.avail
        /\ Next1(t).op = "injectDevice" => s.avail = dev[d].avail
    <3>1. dev[d] \in Record /\ (~dev[d].known => ~dev[d].avail /\ dev[d].alive = 0)
      BY <1>1, PlacedIs DEF KnownInv
    <3>2. Made(Next1(t), dev[d], Lives(d), s)
      BY <1>2, <1>8 DEF DeviceMoves
    <3> QED BY <3>1, <3>2, LivesType, MadeIs
  <2>4. Next1(t) \in AllCalls /\ Next1(t).on = d
    BY <1>1, <1>2, <1>6, <1>8, FirstCall DEF DeviceMoves
  <2>5. CASE Next1(t).op = "injectDevice"
    <3>1. dev'[d].avail = dev[d].avail
      BY <2>2, <2>3, <2>5
    <3>2. \A c \in gone : c.op \notin {"add", "remove", "removeAll"}
      BY <1>5, <2>5
    <3> QED BY <1>3, <1>4, <1>6, <3>1, <3>2, AsideFits
  <2>6. CASE Next1(t).op = "add"
    <3>1. Adding(d) /\ dev'[d].avail
      BY <2>2, <2>3, <2>4, <2>6 DEF Adding, Pending
    <3>2. Removing(d)' => Removing(d)
      BY <1>4, <1>6 DEF Removing, Pending, Moves
    <3> QED BY <1>3, <3>1, <3>2, AddedFits
  <2>7. CASE Next1(t).op = "remove"
    <3>1. Removing(d) /\ ~dev'[d].avail
      BY <2>2, <2>3, <2>4, <2>7 DEF Removing, Pending
    <3>2. Adding(d)' => Adding(d)
      BY <1>4, <1>6 DEF Adding, Pending, Moves
    <3> QED BY <1>3, <3>1, <3>2, RemovedFits
  <2> QED BY <2>1, <2>5, <2>6, <2>7
<1> QED BY <1>7, <1>8

LEMMA InFour ==
    ASSUME NEW w, NEW x, NEW y, NEW z PROVE In(<<w, x, y, z>>) = {w, x, y, z}
BY DEF In

LEMMA FieldsOf ==
    ASSUME NEW c, NEW op, NEW on, NEW with, c = Call(op, on, with)
    PROVE  c.op = op /\ c.on = on
BY DEF Call

\* What becomes of a plugin's devices when its detection stops and starts.
LEMMA RemoveAllFits ==
    ASSUME Base, KnownInv, NEW t \in Threads, RemoveAll(t),
           NEW d \in Placed, Fits(d)
    PROVE  Fits(d)'
<1>1. CallsInv
  BY DEF Base, Typed
<1>2. PICK p \in Plugins, more \in Seq(AnyCall) :
        /\ t = "main" /\ ~Idle("main") /\ Next1("main") = Call("removeAll", p, "")
        /\ Then("main", more) /\ In(more) = CallsOn("remove", Known(p))
        /\ p \notin running
  BY RemoveAllStep
<1>3. UNCHANGED <<dev, running, mounted, excused, world>>
  BY DEF RemoveAll, Others, pdm, env, history
<1>4. PICK op : op = "remove"
  OBVIOUS
<1>5. In(more) = CallsOn(op, Known(p))
  BY <1>2, <1>4
<1>6. /\ \A e \in Known(p) : Call(op, e, "") \in In(more)
      /\ \A c \in In(more) : c.op = "remove" /\ c.on \in Known(p)
  <2>1. /\ \A e \in Known(p) : Call(op, e, "") \in CallsOn(op, Known(p))
        /\ \A c \in CallsOn(op, Known(p)) : c.op = op /\ c.on \in Known(p)
    BY CallsOnIs
  <2> QED BY <1>4, <1>5, <2>1
<1>7. PICK gone : gone = {Next1("main")}
  OBVIOUS
<1>8. Moves(gone, In(more))
  BY <1>1, <1>2, <1>7, ThenIs, MainIsThread
<1>9. \A c \in gone : c.op = "removeAll" /\ c.on = p
  <2>1. Next1("main").op = "removeAll" /\ Next1("main").on = p
    BY <1>2, FieldsOf
  <2> QED BY <1>7, <2>1
<1>10. CASE Home[d] # p
  <2>1. \A c \in In(more) : c.on # d
    BY <1>6, <1>10, DevicesOf
  <2> QED BY <1>3, <1>8, <1>9, <1>10, <2>1, AsideFits
<1>11. CASE Home[d] = p
  <2>1. Home[d] \notin running'
    BY <1>2, <1>3, <1>11
  <2>2. ~Adding(d)'
    <3>1. ~Adding(d)
      BY <1>2, <1>11 DEF Fits, HaltFits
    <3> QED BY <1>6, <1>8, <3>1 DEF Adding, Pending, Moves
  <2>3. dev'[d].avail => Removing(d)'
    <3>1. SUFFICES ASSUME dev[d].avail PROVE Removing(d)'
      BY <1>3
    <3>2. d \in Known(p)
      BY <1>11, <3>1, PlacedIs DEF Known, Of, KnownInv
    <3>3. Call(op, d, "") \in AllCalls'
      BY <1>6, <1>8, <3>2 DEF Moves
    <3>4. Call(op, d, "").op = "remove" /\ Call(op, d, "").on = d
      BY <1>4 DEF Call
    <3> QED BY <3>3, <3>4 DEF Removing, Pending
  <2> QED BY <2>1, <2>2, <2>3 DEF Fits, MapFits, PathFits, HaltFits
<1> QED BY <1>10, <1>11

LEMMA StoppedFits ==
    ASSUME Base, NEW t \in Threads, Halt(t), NEW d \in Placed, Fits(d)
    PROVE  Fits(d)'
<1>1. CallsInv
  BY DEF Base, Typed
<1>2. PICK p \in Plugins, more \in Seq(AnyCall) :
        /\ t = "main" /\ ~Idle("main") /\ Next1("main") = Call("halt", p, "")
        /\ Then("main", more) /\ running' = running \ {p}
        /\ In(more) = IF p = "storage"
                      THEN CallsOn("remove", Of("storage")) ELSE {}
  BY HaltStep
<1>3. UNCHANGED <<dev, mounted, excused, world>>
  BY DEF Halt, pdm, env, history
<1>4. \A c \in In(more) : c.op = "remove" /\ c.on \in Of(p)
  <2>1. PICK op : op = "remove"
    OBVIOUS
  <2>2. p = "storage" => In(more) = CallsOn(op, Of(p))
    BY <1>2, <2>1
  <2>3. \A c \in CallsOn(op, Of(p)) : c.op = op /\ c.on \in Of(p)
    BY CallsOnIs
  <2> QED BY <1>2, <2>1, <2>2, <2>3
<1>5. Next1("main").op = "halt" /\ Next1("main").on = p
  BY <1>2, FieldsOf
<1>6. CASE Home[d] # p
  <2>1. \A c \in In(more) : c.on # d
    BY <1>4, <1>6, DevicesOf
  <2>2. Home[d] \in running' <=> Home[d] \in running
    BY <1>2, <1>6
  <2> QED BY <1>1, <1>2, <1>3, <1>5, <2>1, <2>2, MainIsThread, AsideThen
<1>7. CASE Home[d] = p
  <2>1. Home[d] \notin running'
    BY <1>2, <1>7
  <2>2. /\ CallsOf("main")' = In(more) \cup In(Tail(stack["main"]))
        /\ Moves({Next1("main")}, In(more))
    BY <1>1, <1>2, MainIsThread, ThenIs
  <2>3. ~Adding(d)'
    <3>1. ~Adding(d)
      BY <1>5, NoWork DEF WorkOps
    <3> QED BY <1>4, <2>2, <3>1 DEF Adding, Pending, Moves
  <2>4. Call("removeAll", p, "") \in In(Tail(stack["main"]))
    <3>1. PICK ops : ops = {"halt"}
      OBVIOUS
    <3>2. PICK tail \in Seq(PluginCalls), rest \in Seq(DetectCalls) :
            /\ Tail(stack["main"]) = tail \o rest
            /\ Doing1(p, Next1("main"), tail)
      BY <1>2, <1>5, <3>1, MainPlan
    <3>3. PICK o \in Observers : Halting(p, o, Next1("main"), tail)
      <4>1. PICK o \in Observers : \/ Halting(p, o, Next1("main"), tail)
                                  \/ Emptying(p, o, Next1("main"), tail)
        BY <1>5, <3>2, StopPlan
      <4>2. ~Emptying(p, o, Next1("main"), tail)
        <5>1. Next1("main") = Call("removeAll", p, "") => Next1("main").op = "removeAll"
          BY FieldsOf
        <5> QED BY <1>5, <5>1 DEF Emptying
      <4> QED BY <4>1, <4>2
    <3>4. tail = <<Call("removeAll", p, ""), Going(p, o, "forget")>> \o Rest1(p, o)
      BY <3>3 DEF Halting
    <3>5. PICK a, b : a = Call("removeAll", p, "") /\ b = Going(p, o, "forget")
      OBVIOUS
    <3>10. PICK u : u = Rest1(p, o)
      OBVIOUS
    <3>6. a \in PluginCalls /\ b \in PluginCalls /\ u \in Seq(PluginCalls)
      BY <3>10, <3>5, PlanCalls, RestSeq DEF Going
    <3>7. <<a, b>> \in Seq(PluginCalls) /\ In(<<a, b>>) = {a, b}
      BY <3>6, InTwo
    <3>8. a \in In(tail)
      <4>1. PICK v : v = <<a, b>>
        OBVIOUS
      <4>2. tail = v \o u /\ v \in Seq(PluginCalls) /\ In(v) = {a, b}
        BY <3>4, <3>5, <3>7, <3>10, <4>1
      <4>3. In(v \o u) = In(v) \cup In(u)
        BY <3>6, <4>2, InConcat
      <4> QED BY <4>2, <4>3
    <3>9. In(tail \o rest) = In(tail) \cup In(rest)
      <4>1. tail \in Seq(AnyCall) /\ rest \in Seq(AnyCall)
        BY <3>2, Monotone
      <4> QED BY <4>1, InConcat
    <3> QED BY <3>2, <3>5, <3>8, <3>9
  <2>5. Clearing(Home[d])'
    <3>1. Call("removeAll", p, "") \in AllCalls'
      BY <2>2, <2>4, MainIsThread DEF AllCalls
    <3>2. Call("removeAll", p, "").op = "removeAll" /\ Call("removeAll", p, "").on = p
      BY DEF Call
    <3> QED BY <1>7, <3>1, <3>2 DEF Clearing, Pending
  <2> QED BY <2>1, <2>3, <2>5 DEF Fits, MapFits, PathFits, HaltFits
<1> QED BY <1>6, <1>7

\* A plugin whose detection starts is not about to lose its devices.
LEMMA NotClearing ==
    ASSUME Base, ~Idle("main"), Next1("main").op = "run", NEW p
    PROVE  ~Clearing(p)
<1>1. CallsInv
  BY DEF Base, Typed
<1>2. SUFFICES ASSUME NEW t \in Threads, NEW c \in CallsOf(t), c.op = "removeAll"
               PROVE  FALSE
  BY DEF Clearing, Pending, AllCalls
<1>3. CASE t # "main"
  <2>1. OthersDo(c)
    BY <1>1, <1>3
       DEF CallsInv
  <2> QED BY <1>2, <2>1 DEF OthersDo, DeviceCalls
<1>4. CASE t = "main"
  <2>1. PICK ops : ops = {"run"}
    OBVIOUS
  <2>2. PICK q : q = Next1("main").on
    OBVIOUS
  <2>3. PICK tail \in Seq(PluginCalls), rest \in Seq(DetectCalls) :
          /\ q \in Plugins /\ Tail(stack["main"]) = tail \o rest
          /\ Doing1(q, Next1("main"), tail)
    BY <2>1, <2>2, MainIsThread, MainPlan
  <2>4. tail = <<Call("find", q, ""), Call("await", q, ""),
                 Call("setEnable", q, "on"), Joins(q)>>
    BY <2>3, PlanByOp
  <2>5. \A b \in In(tail) : b.op # "removeAll"
    <3>1. \A b \in In(tail) : \/ b = Call("find", q, "") \/ b = Call("await", q, "")
                              \/ b = Call("setEnable", q, "on")
                              \/ b = Call("observe", q, "MediaIndexer")
      <4>1. PICK w, x, y, z :
              /\ w = Call("find", q, "") /\ x = Call("await", q, "")
              /\ y = Call("setEnable", q, "on") /\ z = Joins(q)
        OBVIOUS
      <4>2. In(<<w, x, y, z>>) = {w, x, y, z}
        BY InFour
      <4>3. In(tail) = {w, x, y, z}
        BY <2>4, <4>1, <4>2
      <4> QED BY <4>1, <4>3 DEF Joins
    <3>2. ASSUME NEW b \in In(tail) PROVE b.op \in {"find", "await", "setEnable", "observe"}
      <4>1. CASE b = Call("find", q, "")
        BY <4>1, FieldsOf
      <4>2. CASE b = Call("await", q, "")
        BY <4>2, FieldsOf
      <4>3. CASE b = Call("setEnable", q, "on")
        BY <4>3, FieldsOf
      <4>4. CASE b = Call("observe", q, "MediaIndexer")
        BY <4>4, FieldsOf
      <4> QED BY <3>1, <4>1, <4>2, <4>3, <4>4
    <3> QED BY <3>2
  <2>6. In(Tail(stack["main"])) = In(tail) \cup In(rest)
    <3>1. tail \in Seq(AnyCall) /\ rest \in Seq(AnyCall)
      BY <2>3, Monotone
    <3> QED BY <2>3, <3>1, InConcat, ZenonT(30)
  <2>7. \A b \in In(rest) : b.op # "removeAll"
    <3>1. In(rest) \subseteq DetectCalls
      BY <2>3, InIs
    <3> QED BY <3>1 DEF DetectCalls
  <2>8. CallsOf("main") = {Next1("main")} \cup In(Tail(stack["main"]))
    <3>1. stack["main"] \in Seq(AnyCall) /\ stack["main"] # <<>>
      BY <1>1, MainIsThread DEF CallsInv, Idle
    <3>2. In(stack["main"]) = {Head(stack["main"])} \cup In(Tail(stack["main"]))
      BY <3>1, InTail
    <3> QED BY <3>2 DEF CallsOf, In, Next1
  <2> QED BY <1>2, <1>4, <2>5, <2>6, <2>7, <2>8
<1> QED BY <1>3, <1>4

LEMMA StartsAre ==
    ASSUME TypeOK, NEW p, NEW c \in Starts(p)
    PROVE  c.op = "add" /\ Home[c.on] = p
<1>1. CASE p \in OnPdm
  <2>1. PICK m \in MountsOf(p) : c = Call("add", mounted[m], m)
    BY <1>1 DEF Starts
  <2> QED BY <2>1, CallIs DEF MountsOf
<1>2. CASE p \notin OnPdm /\ p = "storage"
  <2>1. PICK d \in Of(p) : c = Call("add", d, PathOf(d))
    BY <1>2 DEF Starts
  <2> QED BY <2>1, CallIs, DevicesOf
<1>3. CASE p \notin OnPdm /\ p # "storage"
  BY <1>3 DEF Starts
<1> QED BY <1>1, <1>2, <1>3

LEMMA StartedFits ==
    ASSUME Base, NEW t \in Threads, Run(t), NEW d \in Placed, Fits(d)
    PROVE  Fits(d)'
<1>1. CallsInv /\ TypeOK
  BY DEF Base, Typed
<1>2. PICK p \in Plugins, more \in Seq(AnyCall) :
        /\ t = "main" /\ ~Idle("main") /\ Next1("main").op = "run"
        /\ Next1("main").on = p /\ Has(p, {"DeviceDb"}, FALSE)
        /\ Then("main", more) /\ running' = running \cup {p}
        /\ In(more) = Starts(p)
  BY RunStep
<1>3. UNCHANGED <<dev, mounted, excused, world>>
  BY DEF Run, env, history
<1>4. \A c \in In(more) : c.op = "add" /\ Home[c.on] = p
  BY <1>1, <1>2, StartsAre
<1>5. CASE Home[d] # p
  <2>1. \A c \in In(more) : c.on # d
    BY <1>4, <1>5
  <2>2. Home[d] \in running' <=> Home[d] \in running
    BY <1>2, <1>5
  <2> QED BY <1>1, <1>2, <1>3, <2>1, <2>2, MainIsThread, AsideThen
<1>6. CASE Home[d] = p
  <2>1. Moves({Next1("main")}, In(more))
    BY <1>1, <1>2, MainIsThread, ThenIs
  <2>2. ~Adding(d) /\ ~Removing(d)
    BY <1>2, NoWork DEF WorkOps
  <2>3. ~Removing(d)'
    BY <1>4, <2>1, <2>2 DEF Removing, Pending, Moves
  <2>4. Home[d] \notin running
    BY <1>2, <1>6 DEF Has
  <2>5. ~dev'[d].avail
    <3>1. ~Clearing(Home[d])
      BY <1>2, NotClearing
    <3> QED BY <1>3, <2>2, <2>4, <3>1 DEF Fits, HaltFits
  <2>6. Adding(d)' <=> \E c \in Starts(p) : c.on = d
    <3>1. Adding(d)' => \E c \in Starts(p) : c.on = d
      BY <1>2, <2>1, <2>2 DEF Adding, Pending, Moves
    <3>2. (\E c \in Starts(p) : c.on = d) => Adding(d)'
      BY <1>2, <1>4, <2>1 DEF Adding, Pending, Moves
    <3> QED BY <3>1, <3>2
  <2>7. Home[d] \in running'
    BY <1>2, <1>6
  <2>8. Home[d] \in OnPdm => MapFits(d)'
    <3>1. SUFFICES ASSUME p \in OnPdm PROVE MapFits(d)'
      BY <1>6
    <3>2. \A e : (\E c \in Starts(p) : c.on = e)
                 <=> \E m \in MountsOf(p) : mounted[m] = e
      <4>1. Starts(p) = {Call("add", mounted[m], m) : m \in MountsOf(p)}
        BY <3>1 DEF Starts
      <4> QED BY <4>1, CallIs
    <3>3. (\E m \in MountsOf(p) : mounted[m] = d) <=> InMap(d)
      BY <1>6 DEF MountsOf, InMap
    <3>4. InMap(d)' <=> InMap(d)
      BY <1>3 DEF InMap
    <3>5. Adding(d)' <=> InMap(d)'
      BY <2>6, <3>2, <3>3, <3>4
    <3> QED BY <2>3, <2>5, <3>5 DEF MapFits
  <2>9. Home[d] = "storage" => PathFits(d)'
    <3>1. SUFFICES ASSUME p = "storage" PROVE Adding(d)'
      BY <1>6, <2>3 DEF PathFits
    <3>2. d \in Of(p) /\ p \notin OnPdm
      BY <1>6, <3>1, PlacedIs
    <3>3. Starts(p) = {Call("add", e, PathOf(e)) : e \in Of(p)}
      BY <3>1, <3>2 DEF Starts
    <3>4. Call("add", d, PathOf(d)) \in Starts(p)
      BY <3>2, <3>3
    <3> QED BY <2>6, <3>4, CallIs
  <2>10. HaltFits(d)'
    BY <2>7 DEF HaltFits
  <2>11. Home[d] \in OnPdm' <=> Home[d] \in OnPdm
    BY <1>3 DEF OnPdm, build
  <2> QED BY <2>8, <2>9, <2>10, <2>11 DEF Fits
<1> QED BY <1>5, <1>6

LEMMA CrashFits ==
    ASSUME Base, Crash, NEW d \in Placed
    PROVE  Fits(d)'
<1>1. AllCalls' = {} /\ running' = {}
  BY CrashStep DEF Crash
<1>2. ~dev'[d].avail
  BY PlacedIs DEF Crash, Unknown
<1>3. ~Adding(d)'
  BY <1>1 DEF Adding, Pending
<1> QED BY <1>1, <1>2, <1>3 DEF Fits, MapFits, PathFits, HaltFits

\* A message of PDM: the map afterwards, and the drives that it may lose.
LEMMA InMapAfter ==
    ASSUME TypeOK, MountedOK, NEW at \in At, NEW gone, Mapped(at, gone),
           \A d \in Devices : at[d] # NoMount => d \in Present /\ Home[d] \in OnPdm,
           Alone(at), gone \subseteq DOMAIN mounted, NEW d
    PROVE  InMap(d)' <=> \/ d \in NewlyMounted(at)
                         \/ \E m \in DOMAIN mounted : m \notin gone /\ mounted[m] = d
<1>1. \A m : m \in DOMAIN mounted' <=>
               /\ m \notin gone
               /\ \/ m \in DOMAIN mounted
                  \/ \E e \in NewlyMounted(at) : at[e] = m
  BY MapHandled
<1>2. \A m \in DOMAIN mounted' : m \in DOMAIN mounted => mounted'[m] = mounted[m]
  BY MapHandled
<1>3. \A m \in DOMAIN mounted' : \A e \in NewlyMounted(at) :
        at[e] = m => mounted'[m] = e
  BY MapHandled
<1>4. \A e \in NewlyMounted(at) : at[e] \notin DOMAIN mounted
  BY DEF NewlyMounted
<1>5. InMap(d)' <=> \E m \in DOMAIN mounted' : mounted'[m] = d
  BY DEF InMap
<1>6. ASSUME d \in NewlyMounted(at) PROVE InMap(d)'
  <2>1. at[d] \in DOMAIN mounted'
    BY <1>1, <1>4, <1>6
  <2> QED BY <1>3, <1>5, <1>6, <2>1
<1>7. ASSUME NEW m \in DOMAIN mounted, m \notin gone, mounted[m] = d
      PROVE  InMap(d)'
  BY <1>1, <1>2, <1>5, <1>7
<1>8. ASSUME NEW m \in DOMAIN mounted', mounted'[m] = d
      PROVE  \/ d \in NewlyMounted(at)
             \/ \E n \in DOMAIN mounted : n \notin gone /\ mounted[n] = d
  <2>1. CASE m \in DOMAIN mounted
    BY <1>1, <1>2, <1>8, <2>1
  <2>2. CASE m \notin DOMAIN mounted
    <3>1. PICK e \in NewlyMounted(at) : at[e] = m
      BY <1>1, <1>8, <2>2
    <3> QED BY <1>3, <1>8, <3>1
  <2> QED BY <2>1, <2>2
<1> QED BY <1>5, <1>6, <1>7, <1>8

LEMMA NotExcused ==
    ASSUME NEW at, NEW gone, excused' = Excused(at, gone), NEW d, d \notin excused'
    PROVE  /\ d \in excused => d \in NewlyMounted(at) \/ d \in {mounted[m] : m \in gone}
           /\ ~(d \in Listed(at) /\ d \in {mounted[m] : m \in gone})
           /\ \A m \in Dirty(at) \ gone : mounted[m] # d
           /\ \A e \in Listed(at) \ NewlyMounted(at) :
                mounted[at[e]] # e => e # d /\ mounted[at[e]] # d
BY DEF Excused

\* A drive that is not lost is in the map exactly if the message lists it.
LEMMA MapReflects ==
    ASSUME TypeOK, MountedOK, NEW at \in At, NEW gone, Mapped(at, gone),
           \A d \in Devices : at[d] # NoMount => d \in Present /\ Home[d] \in OnPdm,
           Alone(at), gone \subseteq DOMAIN mounted, gone \subseteq Dirty(at),
           excused' = Excused(at, gone), NEW d \in Devices, d \notin excused'
    PROVE  InMap(d)' <=> d \in Listed(at)
<1>1. InMap(d)' <=> \/ d \in NewlyMounted(at)
                    \/ \E m \in DOMAIN mounted : m \notin gone /\ mounted[m] = d
  BY InMapAfter
<1>2. /\ \A e : e \in NewlyMounted(at) => e \in Listed(at)
      /\ \A e \in Listed(at) \ NewlyMounted(at) : at[e] \in DOMAIN mounted
  BY DEF NewlyMounted
<1>3. \A m \in DOMAIN mounted : m \in Dirty(at) \/ \E e \in Listed(at) : at[e] = m
  BY DEF Dirty
<1>4. \A e \in Listed(at) : at[e] \notin Dirty(at)
  BY DEF Dirty
<1>5. ASSUME d \in Listed(at), d \notin NewlyMounted(at) PROVE InMap(d)'
  <2>1. mounted[at[d]] = d
    BY <1>5, NotExcused
  <2>2. at[d] \in DOMAIN mounted /\ at[d] \notin gone
    BY <1>2, <1>4, <1>5
  <2> QED BY <1>1, <2>1, <2>2
<1>6. ASSUME NEW m \in DOMAIN mounted, m \notin gone, mounted[m] = d
      PROVE  d \in Listed(at)
  <2>1. m \notin Dirty(at)
    BY <1>6, NotExcused
  <2>2. PICK e \in Listed(at) : at[e] = m
    BY <1>3, <1>6, <2>1
  <2>3. e \notin NewlyMounted(at)
    BY <1>6, <2>2 DEF NewlyMounted
  <2>4. e = d
    <3>1. mounted[at[e]] # e => mounted[at[e]] # d
      BY <2>2, <2>3, NotExcused
    <3> QED BY <1>6, <2>2, <3>1
  <2> QED BY <2>2, <2>4
<1> QED BY <1>1, <1>2, <1>5, <1>6

\* What the message makes the main loop do for a device.
LEMMA ListCalls ==
    ASSUME NEW more, NEW at, NEW gone, Moves({}, In(more)),
           In(more) = Reported(NewlyMounted(at), at)
                      \cup CallsOn("remove", Running({mounted[m] : m \in gone})),
           NEW d, ~Adding(d), ~Removing(d)
    PROVE  /\ Adding(d)' <=> d \in NewlyMounted(at) /\ Home[d] \in running
           /\ Removing(d)' <=> /\ d \in {mounted[m] : m \in gone}
                               /\ Home[d] \in running
           /\ \A p : Clearing(p) => Clearing(p)'
<1>1. PICK left : left = Running({mounted[m] : m \in gone})
  OBVIOUS
<1>2. PICK op : op = "remove"
  OBVIOUS
<1>3. /\ \A e \in left : Call(op, e, "") \in CallsOn(op, left)
      /\ \A c \in CallsOn(op, left) : c.op = op /\ c.on \in left
  BY CallsOnIs
<1>4. In(more) = Reported(NewlyMounted(at), at) \cup CallsOn(op, left)
  BY <1>1, <1>2
<1>5. \A e \in NewlyMounted(at) : Home[e] \in running =>
        Call("add", e, at[e]) \in In(more)
  BY <1>4 DEF Reported, Running
<1>6. \A c \in Reported(NewlyMounted(at), at) :
        \E e \in NewlyMounted(at) : Home[e] \in running /\ c = Call("add", e, at[e])
  BY DEF Reported, Running
<1>7. \A c \in Reported(NewlyMounted(at), at) :
        c.op = "add" /\ c.on \in NewlyMounted(at) /\ Home[c.on] \in running
  BY <1>6, FieldsOf
<1>8. \A e : e \in left <=> e \in {mounted[m] : m \in gone} /\ Home[e] \in running
  BY <1>1 DEF Running
<1>9. Adding(d)' <=> \E c \in In(more) : c.op = "add" /\ c.on = d
  <2>1. Adding(d) <=> \E c \in AllCalls : c.op = "add" /\ c.on = d
    BY DEF Adding, Pending
  <2>2. Adding(d)' <=> \E c \in AllCalls' : c.op = "add" /\ c.on = d
    BY DEF Adding, Pending
  <2> QED BY <2>1, <2>2 DEF Moves
<1>10. Removing(d)' <=> \E c \in In(more) : c.op = "remove" /\ c.on = d
  <2>1. Removing(d) <=> \E c \in AllCalls : c.op = "remove" /\ c.on = d
    BY DEF Removing, Pending
  <2>2. Removing(d)' <=> \E c \in AllCalls' : c.op = "remove" /\ c.on = d
    BY DEF Removing, Pending
  <2> QED BY <2>1, <2>2 DEF Moves
<1>11. Adding(d)' <=> d \in NewlyMounted(at) /\ Home[d] \in running
  <2>1. ASSUME d \in NewlyMounted(at), Home[d] \in running PROVE Adding(d)'
    <3>1. Call("add", d, at[d]) \in In(more)
      BY <1>5, <2>1
    <3>2. Call("add", d, at[d]).op = "add" /\ Call("add", d, at[d]).on = d
      BY DEF Call
    <3> QED BY <1>9, <3>1, <3>2
  <2> QED BY <1>2, <1>3, <1>4, <1>7, <1>9, <2>1
<1>12. Removing(d)' <=> d \in left
  <2>1. ASSUME d \in left PROVE Removing(d)'
    <3>1. Call(op, d, "") \in In(more)
      BY <1>3, <1>4, <2>1
    <3>2. Call(op, d, "").op = "remove" /\ Call(op, d, "").on = d
      BY <1>2 DEF Call
    <3> QED BY <1>10, <3>1, <3>2
  <2> QED BY <1>2, <1>3, <1>4, <1>7, <1>10, <2>1
<1>13. \A p : Clearing(p) => Clearing(p)'
  <2>1. \A p : Clearing(p) <=> \E c \in AllCalls : c.op = "removeAll" /\ c.on = p
    BY DEF Clearing, Pending
  <2>2. \A p : Clearing(p)' <=> \E c \in AllCalls' : c.op = "removeAll" /\ c.on = p
    BY DEF Clearing, Pending
  <2> QED BY <2>1, <2>2 DEF Moves
<1> QED BY <1>8, <1>11, <1>12, <1>13

\* The parts of a message of PDM, opened once.
MessageWas(msg, more) ==
    /\ inbox # <<>> /\ msg = Head(inbox) /\ inbox' = Tail(inbox)
    /\ Message(msg) /\ msg.at \in At /\ Alone(msg.at)
    /\ Begin("main", more) /\ more \in Seq(AnyCall) /\ Moves({}, In(more))
    /\ Handled(msg, more) /\ Idle("main")
    /\ UNCHANGED <<dev, running, subscribed, attached, world>>

LEMMA MessageOpens ==
    ASSUME Base, PdmMessage
    PROVE  \E msg, more : MessageWas(msg, more)
<1>1. CallsInv /\ PlacesInv
  BY DEF Base, Typed
<1>2. InboxOK
  BY <1>1, PlacesParts
<1>3. PICK msg : msg = Head(inbox)
  OBVIOUS
<1>4. inbox # <<>> /\ inbox' = Tail(inbox)
  BY PdmMessageStep
<1>5. PICK more \in Seq(AnyCall) : Begin("main", more) /\ Handled(msg, more)
  BY <1>3, PdmMessageStep
<1>6. Moves({}, In(more))
  BY <1>1, <1>5, BeginIs, MainIsThread
<1>7. Idle("main")
  BY <1>5 DEF Begin
<1>8. Message(msg)
  <2>1. 1 \in DOMAIN inbox /\ msg = inbox[1]
    BY <1>2, <1>3, <1>4 DEF InboxOK
  <2> QED BY <1>2, <2>1 DEF InboxOK
<1>9. msg.at \in At /\ Alone(msg.at)
  BY <1>8 DEF Message
<1>10. UNCHANGED <<dev, running, subscribed, attached, world>>
  BY DEF PdmMessage, env
<1> QED BY <1>3, <1>4, <1>5, <1>6, <1>7, <1>8, <1>9, <1>10 DEF MessageWas

\* With a list, the map reflects it; without one it is empty, and everything
\* that was in it is lost.
LEMMA MessageMaps ==
    ASSUME Base, NEW msg, NEW more, MessageWas(msg, more), NEW d \in Devices,
           d \notin excused'
    PROVE  InMap(d)' <=> msg.at[d] # NoMount
<1>1. TypeOK /\ MountedOK
  BY PlacesParts DEF Base, Typed
<1>2. PICK at : at = msg.at
  OBVIOUS
<1>3. /\ at \in At /\ Alone(at)
      /\ \A e \in Devices : at[e] # NoMount => e \in Present /\ Home[e] \in OnPdm
      /\ ~msg.list => at[d] = NoMount
  BY <1>2 DEF MessageWas, Message
<1>4. CASE msg.list
  <2>1. PICK gone : ListHandled(at, gone, more)
    BY <1>2, <1>4 DEF MessageWas, Handled
  <2>2. /\ gone \subseteq DOMAIN mounted /\ gone \subseteq Dirty(at)
        /\ Mapped(at, gone) /\ excused' = Excused(at, gone)
    BY <2>1 DEF ListHandled, Cleaned
  <2>3. InMap(d)' <=> d \in Listed(at)
    BY <1>1, <1>3, <2>2, MapReflects
  <2> QED BY <1>2, <2>3 DEF Listed
<1>5. CASE ~msg.list
  <2>1. mounted' = [m \in {} |-> NoMount]
    BY <1>5 DEF MessageWas, Handled
  <2>2. ~InMap(d)'
    BY <2>1 DEF InMap
  <2> QED BY <1>2, <1>3, <1>5, <2>2
<1> QED BY <1>4, <1>5

LEMMA MessageFits ==
    ASSUME Base, NEW msg, NEW more, MessageWas(msg, more), NEW d \in Placed,
           Fits(d)
    PROVE  Fits(d)'
<1>1. TypeOK /\ MountedOK
  BY PlacesParts DEF Base, Typed
<1>2. PICK at : at = msg.at
  OBVIOUS
<1>3. /\ at \in At /\ Alone(at)
      /\ \A e \in Devices : at[e] # NoMount => e \in Present /\ Home[e] \in OnPdm
  BY <1>2 DEF MessageWas, Message
<1>4. ~Adding(d) /\ ~Removing(d)
  BY NoWork DEF MessageWas
<1>5. /\ dev' = dev /\ running' = running /\ world' = world
      /\ Home[d] \in OnPdm' <=> Home[d] \in OnPdm
  BY DEF MessageWas, OnPdm, build
<1>6. Moves({}, In(more))
  BY DEF MessageWas
<1>7. CASE msg.list
  <2>1. PICK gone : ListHandled(at, gone, more)
    BY <1>2, <1>7 DEF MessageWas, Handled
  <2>2. /\ gone \subseteq DOMAIN mounted /\ gone \subseteq Dirty(at)
        /\ Mapped(at, gone) /\ excused' = Excused(at, gone)
        /\ In(more) = Reported(NewlyMounted(at), at)
                      \cup CallsOn("remove", Running({mounted[m] : m \in gone}))
    BY <2>1 DEF ListHandled, Cleaned
  <2>3. /\ Adding(d)' <=> d \in NewlyMounted(at) /\ Home[d] \in running
        /\ Removing(d)' <=> /\ d \in {mounted[m] : m \in gone}
                            /\ Home[d] \in running
        /\ \A p : Clearing(p) => Clearing(p)'
    BY <1>4, <1>6, <2>2, ListCalls
  <2>4. HaltFits(d)'
    BY <1>4, <1>5, <2>3 DEF Fits, HaltFits
  <2>5. Home[d] = "storage" => PathFits(d)'
    <3>1. SUFFICES ASSUME Home[d] = "storage" PROVE ~Removing(d)' /\ (dev[d].avail \/ "storage" \notin running)
      BY <1>5 DEF PathFits
    <3>2. Home[d] \notin OnPdm
      BY <3>1, PlacedIs
    <3>3. d \notin {mounted[m] : m \in gone}
      BY <1>1, <2>2, <3>2 DEF MountedOK
    <3> QED BY <1>4, <2>3, <3>1, <3>3 DEF Fits, PathFits
  <2>6. Home[d] \in OnPdm => MapFits(d)'
    <3>1. SUFFICES ASSUME Home[d] \in OnPdm, d \notin excused', Home[d] \in running
                   PROVE  IF InMap(d)' THEN ~Removing(d)' /\ (dev[d].avail \/ Adding(d)')
                          ELSE ~Adding(d)' /\ (~dev[d].avail \/ Removing(d)')
      BY <1>5 DEF MapFits
    <3>2. d \in Devices
      BY PlacedIs
    <3>3. InMap(d)' <=> d \in Listed(at)
      BY <1>1, <1>3, <2>2, <3>1, <3>2, MapReflects
    <3>4. d \in NewlyMounted(at) => d \in Listed(at)
      BY DEF NewlyMounted
    <3>5. /\ d \in excused => d \in NewlyMounted(at) \/ d \in {mounted[m] : m \in gone}
          /\ ~(d \in Listed(at) /\ d \in {mounted[m] : m \in gone})
      BY <2>2, <3>1, NotExcused
    <3>6. CASE d \in NewlyMounted(at) \/ d \in {mounted[m] : m \in gone}
      BY <2>3, <3>1, <3>3, <3>4, <3>5, <3>6
    <3>7. CASE ~(d \in NewlyMounted(at) \/ d \in {mounted[m] : m \in gone})
      <4>1. InMap(d)' <=> InMap(d)
        <5>1. InMap(d)' <=> \E m \in DOMAIN mounted : m \notin gone /\ mounted[m] = d
          BY <1>1, <1>3, <2>2, <3>7, InMapAfter
        <5> QED BY <3>7, <5>1 DEF InMap
      <4>2. IF InMap(d) THEN dev[d].avail ELSE ~dev[d].avail
        BY <1>4, <3>1, <3>5, <3>7 DEF Fits, MapFits
      <4> QED BY <2>3, <3>7, <4>1, <4>2
    <3> QED BY <3>6, <3>7
  <2> QED BY <1>5, <2>4, <2>5, <2>6 DEF Fits
<1>8. CASE ~msg.list
  <2>1. /\ In(more) = {} /\ mounted' = [m \in {} |-> NoMount]
        /\ excused' = excused \cup {mounted[m] : m \in DOMAIN mounted}
    BY <1>8 DEF MessageWas, Handled
  <2>2. AllCalls' = AllCalls
    BY <1>6, <2>1 DEF Moves
  <2>3. /\ ~Adding(d)' /\ ~Removing(d)'
        /\ Clearing(Home[d]) => Clearing(Home[d])'
    BY <1>4, <2>2 DEF Adding, Removing, Clearing, Pending
  <2>4. HaltFits(d)'
    BY <1>4, <1>5, <2>3 DEF Fits, HaltFits
  <2>5. Home[d] = "storage" => PathFits(d)'
    BY <1>4, <1>5, <2>3 DEF Fits, PathFits
  <2>6. Home[d] \in OnPdm => MapFits(d)'
    <3>1. SUFFICES ASSUME Home[d] \in OnPdm, d \notin excused', Home[d] \in running
                   PROVE  ~InMap(d)' /\ ~dev[d].avail
      BY <1>5, <2>3 DEF MapFits
    <3>2. d \notin excused /\ ~InMap(d)
      BY <2>1, <3>1 DEF InMap
    <3>3. ~InMap(d)'
      BY <2>1 DEF InMap
    <3> QED BY <1>4, <3>1, <3>2, <3>3 DEF Fits, MapFits
  <2> QED BY <1>5, <2>4, <2>5, <2>6 DEF Fits
<1> QED BY <1>7, <1>8

\* Every device that a step may concern.
LEMMA FitsNext ==
    ASSUME Base, KnownInv, [Next]_vars, NEW d \in Placed, Fits(d)
    PROVE  Fits(d)'
<1>1. CASE \E t \in Threads : Thread(t)
  <2>1. PICK t \in Threads : Thread(t)
    BY <1>1
  <2> QED BY <2>1, TidyFits, PlanFits, AskFits, DeviceFits, RemoveAllFits,
             StoppedFits, StartedFits
          DEF Thread, Plugging, Observing, Detecting
<1>2. CASE PdmMessage
  BY <1>2, MessageOpens, MessageFits
<1>3. CASE Crash
  BY <1>3, CrashFits
<1>4. CASE ~(PdmMessage \/ Crash \/ \E t \in Threads : Thread(t))
  BY <1>4, StartFits DEF Next, Still
<1> QED BY <1>1, <1>2, <1>3, <1>4

\* Messages that are added at the end, and taken from the front.
LEMMA LastOfAppend ==
    ASSUME NEW S, NEW s \in Seq(S), NEW m \in S
    PROVE  Append(s, m) # <<>> /\ Append(s, m)[Len(Append(s, m))] = m
OBVIOUS

LEMMA LastOfTail ==
    ASSUME NEW S, NEW s \in Seq(S), s # <<>>
    PROVE  /\ Tail(s) # <<>> => Tail(s)[Len(Tail(s))] = s[Len(s)]
           /\ Tail(s) = <<>> => s[Len(s)] = Head(s)
OBVIOUS

\* What of the listener and of detection changes in which steps.
LEMMA ListenerStep ==
    ASSUME Base, [Next]_vars, ~Crash, \A t \in Threads : ~Run(t)
    PROVE  /\ subscribed' = subscribed /\ running' \subseteq running
           /\ ~PdmMessage => excused' = excused
<1>1. CASE \E t \in Threads : Thread(t)
  <2>1. PICK t \in Threads : Thread(t)
    BY <1>1
  <2>2. CASE Halt(t)
    <3>1. \E p \in Plugins : running' = running \ {p}
      BY <2>2, HaltStep
    <3> QED BY <2>2, <3>1 DEF Halt, pdm, history
  <2>3. CASE Plugging(t)
    BY <2>3 DEF Plugging, Add, Refresh, Modify, Remove, Inject, Check,
         CheckDevices, RemoveAll, Others, pdm, history
  <2>4. CASE Observing(t)
    BY <2>4 DEF Observing, RecordState, MergePut, IndexState, MarkRows,
         AskScan, PushRequest, Others, pdm, history
  <2>5. CASE Detecting(t) /\ ~Halt(t)
    BY <2>5 DEF Detecting, Observe, Ignore, Forget, SetDetect, Find, Await,
         SetEnable, Erase, RequestMeta, Others, pdm, history
  <2>6. CASE t = "meta" /\ GetDeviceMeta
    BY <2>6 DEF GetDeviceMeta, pdm, history
  <2> QED BY <2>1, <2>2, <2>3, <2>4, <2>5, <2>6 DEF Thread
<1>2. CASE \E d \in Devices : ScanStarts(d) \/ ScanEnds(d)
  BY <1>2 DEF ScanStarts, ScanEnds, core, pdm, history
<1>3. CASE Browse \/ ServerTrouble \/ Change \/ Swap \/ UNCHANGED vars
  BY <1>3 DEF Browse, ServerTrouble, Change, Swap, core, vars, pdm, history
<1>4. CASE DbConnected \/ BusMethod \/ PollRound
  BY <1>4 DEF DbConnected, BusMethod, PollRound, PluginPutGet, DetectRunStop,
       Get, Put, Others, pdm, history
<1>5. CASE PdmMessage
  BY <1>5 DEF PdmMessage
<1>6. CASE \E p \in Plugins : SettingsFound(p)
  BY <1>6 DEF SettingsFound, pdm, history
<1>7. CASE \/ \E t \in Pool : SearchTimeout(t)
           \/ \E t \in Pool, d \in Of("upnp") : Event(t, d)
  BY <1>7 DEF SearchTimeout, Event, ServiceFound, ServiceLost, Others, pdm,
       history
<1> QED BY <1>1, <1>2, <1>3, <1>4, <1>5, <1>6, <1>7 DEF Next

LEMMA PlacedSame ==
    ASSUME world' = world
    PROVE  /\ Placed' = Placed /\ PdmDevices' = PdmDevices /\ OnPdm' = OnPdm
           /\ Of("storage")' = Of("storage")
<1>1. Present' = Present /\ OnPdm' = OnPdm
  BY PresentSame DEF OnPdm, build
<1> QED BY <1>1 DEF Placed, PdmDevices, Of

\* The message that PDM sends says where the drives are.
LEMMA SnapshotSays ==
    ASSUME NEW place \in At, NEW list, NEW d \in PdmDevices
    PROVE  Snapshot(place, list).at[d] = place[d]
BY DEF Snapshot, PdmDevices, Present

\* The first subscription.
LEMMA RunListens ==
    ASSUME Base, NEW t \in Threads, Run(t)
    PROVE  /\ \A p \in OnPdm : p \in running' => p \in running \/ subscribed'
           /\ subscribed => subscribed'
           /\ UNCHANGED <<attached, mounted, excused>>
           /\ \/ UNCHANGED <<inbox, subscribed>>
              \/ inbox' = Append(inbox, Snapshot(attached, TRUE))
BY DEF Run, env, history

\* A message that is sent with a change.
LEMMA ChangeListens ==
    ASSUME Base, Change \/ Swap, subscribed
    PROVE  /\ \/ /\ inbox' = inbox
                 /\ \A d \in PdmDevices : attached'[d] = attached[d]
              \/ \E list \in BOOLEAN :
                   inbox' = Append(inbox, Snapshot(attached', list))
<1>1. attached \in At
  BY PlacesParts DEF Base, Typed, AttachedOK
<1>2. CASE Change
  <2>1. PICK d, m :
          /\ d \in Present
          /\ attached' = [attached EXCEPT ![d] = m]
          /\ IF Home[d] \in OnPdm
             THEN \E list \in BOOLEAN :
                    inbox' = Append(inbox, Snapshot(attached', list))
             ELSE UNCHANGED inbox
    BY <1>2 DEF Change
  <2>2. CASE Home[d] \notin OnPdm
    <3>1. \A e \in PdmDevices : attached'[e] = attached[e]
      BY <1>1, <2>1, <2>2 DEF PdmDevices, At, Present
    <3> QED BY <2>1, <2>2, <3>1
  <2> QED BY <2>1, <2>2
<1>3. CASE Swap
  BY <1>3 DEF Swap
<1> QED BY <1>2, <1>3

LEMMA SubscribedNext ==
    ASSUME Base, SubscribedInv, [Next]_vars PROVE SubscribedInv'
<1>1. OnPdm' = OnPdm
  BY WorldStays, PlacedSame
<1>2. CASE Crash
  BY <1>2 DEF Crash, SubscribedInv
<1>3. CASE \E t \in Threads : Run(t)
  BY <1>1, <1>3, RunListens DEF SubscribedInv
<1>4. CASE ~Crash /\ \A t \in Threads : ~Run(t)
  BY <1>1, <1>4, ListenerStep DEF SubscribedInv
<1> QED BY <1>2, <1>3, <1>4

LEMMA LastNext ==
    ASSUME Base, LastInv, [Next]_vars PROVE LastInv'
<1>1. /\ inbox \in Seq([list : BOOLEAN, at : At])
      /\ inbox' \in Seq([list : BOOLEAN, at : At])
      /\ attached \in At /\ attached' \in At
  BY PlacesParts, InboxNext, AttachedNext DEF Base, Typed, InboxOK, AttachedOK
<1>2. PdmDevices' = PdmDevices
  BY WorldStays, PlacedSame
<1>3. SUFFICES ASSUME subscribed', inbox' # <<>>, NEW d \in PdmDevices
               PROVE  inbox'[Len(inbox')].at[d] = attached'[d]
  BY <1>2 DEF LastInv
<1>4. ASSUME NEW place \in At, NEW list \in BOOLEAN,
             inbox' = Append(inbox, Snapshot(place, list)), place = attached'
      PROVE  inbox'[Len(inbox')].at[d] = attached'[d]
  <2>1. PICK m : m = Snapshot(place, list)
    OBVIOUS
  <2>2. m \in [list : BOOLEAN, at : At]
    BY <2>1 DEF Snapshot, At
  <2>3. inbox'[Len(inbox')] = m
    BY <1>1, <1>4, <2>1, <2>2, LastOfAppend
  <2> QED BY <1>4, <2>1, <2>3, SnapshotSays
<1>5. ASSUME subscribed, inbox' = inbox, attached'[d] = attached[d]
      PROVE  inbox'[Len(inbox')].at[d] = attached'[d]
  BY <1>3, <1>5 DEF LastInv
<1>6. CASE Crash
  BY <1>3, <1>6 DEF Crash
<1>7. CASE \E t \in Threads : Run(t)
  BY <1>1, <1>3, <1>4, <1>5, <1>7, RunListens
<1>8. CASE (Change \/ Swap) /\ \A t \in Threads : ~Run(t)
  <2>1. subscribed
    BY <1>3, <1>8, ListenerStep DEF Change, Swap
  <2> QED BY <1>1, <1>3, <1>4, <1>5, <1>8, <2>1, ChangeListens
<1>9. CASE PdmMessage /\ \A t \in Threads : ~Run(t)
  <2>1. inbox # <<>> /\ inbox' = Tail(inbox) /\ attached' = attached /\ subscribed
    BY <1>3, <1>9 DEF PdmMessage, env
  <2>2. inbox'[Len(inbox')] = inbox[Len(inbox)]
    BY <1>1, <1>3, <2>1, LastOfTail
  <2> QED BY <2>1, <2>2 DEF LastInv
<1>10. CASE ~(Crash \/ Change \/ Swap \/ PdmMessage \/ \E t \in Threads : Run(t))
  <2>1. inbox' = inbox /\ attached' = attached
    BY <1>10, PlacesOfStep
  <2>2. subscribed
    BY <1>3, <1>10, ListenerStep
  <2> QED BY <1>5, <2>1, <2>2
<1> QED BY <1>6, <1>7, <1>8, <1>9, <1>10

LEMMA MapNext ==
    ASSUME Base, LastInv, MapInv, [Next]_vars PROVE MapInv'
<1>1. /\ inbox \in Seq([list : BOOLEAN, at : At])
      /\ attached \in At /\ attached' \in At
  BY PlacesParts, AttachedNext DEF Base, Typed, InboxOK, AttachedOK
<1>2. PdmDevices' = PdmDevices
  BY WorldStays, PlacedSame
<1>3. SUFFICES ASSUME subscribed', inbox' = <<>>, NEW d \in PdmDevices,
                      d \notin excused'
               PROVE  InMap(d)' <=> attached'[d] # NoMount
  BY <1>2 DEF MapInv
<1>4. ASSUME subscribed, inbox' = inbox, attached'[d] = attached[d],
             mounted' = mounted, excused' = excused
      PROVE  InMap(d)' <=> attached'[d] # NoMount
  BY <1>3, <1>4 DEF MapInv, InMap
<1>5. \A place, list : inbox' # Append(inbox, Snapshot(place, list))
  BY <1>1, <1>3
<1>6. CASE Crash
  BY <1>3, <1>6 DEF Crash
<1>7. CASE \E t \in Threads : Run(t)
  BY <1>3, <1>4, <1>5, <1>7, RunListens
<1>8. CASE (Change \/ Swap) /\ \A t \in Threads : ~Run(t)
  <2>1. subscribed
    BY <1>3, <1>8 DEF Change, Swap
  <2>2. mounted' = mounted /\ excused' = excused
    BY <1>8 DEF Change, Swap, history
  <2> QED BY <1>4, <1>5, <1>8, <2>1, <2>2, ChangeListens
<1>9. CASE PdmMessage
  <2>1. PICK msg, more : MessageWas(msg, more)
    BY <1>9, MessageOpens
  <2>2. d \in Devices
    BY DEF PdmDevices, Present
  <2>3. InMap(d)' <=> msg.at[d] # NoMount
    BY <1>3, <2>1, <2>2, MessageMaps
  <2>4. msg = inbox[Len(inbox)]
    BY <1>1, <1>3, <2>1, LastOfTail DEF MessageWas
  <2>5. msg.at[d] = attached[d]
    BY <1>3, <2>1, <2>4 DEF MessageWas, LastInv
  <2>6. attached' = attached
    BY <2>1 DEF MessageWas
  <2> QED BY <2>3, <2>5, <2>6
<1>10. CASE ~(Crash \/ Change \/ Swap \/ PdmMessage \/ \E t \in Threads : Run(t))
  <2>1. inbox' = inbox /\ attached' = attached /\ mounted' = mounted
    BY <1>10, PlacesOfStep
  <2>2. subscribed /\ excused' = excused
    BY <1>3, <1>10, ListenerStep
  <2> QED BY <1>4, <2>1, <2>2
<1> QED BY <1>6, <1>7, <1>8, <1>9, <1>10

LEMMA PathNext ==
    ASSUME Base, PathInv, [Next]_vars PROVE PathInv'
<1>1. Of("storage")' = Of("storage")
  BY WorldStays, PlacedSame
<1>2. attached \in At
  BY PlacesParts DEF Base, Typed, AttachedOK
<1>3. \A d \in Of("storage") : d \in Devices /\ Home[d] = "storage" /\ d \in Present
  BY DevicesOf DEF Of, Present
<1>4. "storage" \notin OnPdm
  BY DEF OnPdm
<1>5. \A d \in Of("storage") : attached'[d] = attached[d]
  <2>1. CASE Change
    <3>1. PICK e, m :
        e \in Present /\ Home[e] # "storage" /\ attached' = [attached EXCEPT ![e] = m]
      BY <2>1 DEF Change
    <3> QED BY <1>2, <1>3, <3>1 DEF At
  <2>2. CASE Swap
    <3>1. PICK d, e \in Present :
            /\ {Home[d], Home[e]} \subseteq OnPdm
            /\ \E m : attached' = [attached EXCEPT ![d] = NoMount, ![e] = m]
      BY <2>2 DEF Swap
    <3>2. PICK m : attached' = [attached EXCEPT ![d] = NoMount, ![e] = m]
      BY <3>1
    <3>3. Home[d] # "storage" /\ Home[e] # "storage"
      BY <1>4, <3>1
    <3> QED BY <1>2, <1>3, <3>2, <3>3 DEF At
  <2>3. CASE ~Change /\ ~Swap
    BY <2>3, PlacesOfStep
  <2> QED BY <2>1, <2>2, <2>3
<1> QED BY <1>1, <1>5 DEF PathInv

LEMMA DrivesNext ==
    ASSUME Base, KnownInv, DrivesInv, [Next]_vars PROVE DrivesInv'
<1>1. SubscribedInv' /\ LastInv' /\ MapInv' /\ PathInv'
  BY SubscribedNext, LastNext, MapNext, PathNext DEF DrivesInv
<1>2. Placed' = Placed
  BY WorldStays, PlacedSame
<1>3. ASSUME NEW d \in Placed PROVE Fits(d)'
  BY <1>3, FitsNext DEF DrivesInv
<1> QED BY <1>1, <1>2, <1>3 DEF DrivesInv

LEMMA DrivesInit == ASSUME Init PROVE DrivesInv
<1>1. Base
  BY SoundInit DEF Sound
<1>2. AllCalls = {}
  BY DEF Init, AllCalls, CallsOf
<1>3. running = {} /\ subscribed = FALSE /\ \A d \in Devices : ~dev[d].avail
  BY DEF Init, Unknown
<1>4. SubscribedInv /\ LastInv /\ MapInv
  BY <1>3 DEF SubscribedInv, LastInv, MapInv
<1>5. PathInv
  <2>1. SUFFICES ASSUME NEW d \in Of("storage") PROVE attached[d] # NoMount
    BY DEF PathInv
  <2>2. d \in Devices /\ Home[d] = "storage"
    BY DevicesOf DEF Of, Present
  <2>3. attached[d] = PathOf(d)
    BY <2>2 DEF Init
  <2> QED BY <2>2, <2>3, PathIs, NoMountAssumption
<1>6. ASSUME NEW d \in Placed PROVE Fits(d)
  <2>1. d \in Devices
    BY PlacedIs
  <2>2. ~Adding(d)
    BY <1>2 DEF Adding, Pending
  <2> QED BY <1>3, <2>1, <2>2 DEF Fits, MapFits, PathFits, HaltFits
<1> QED BY <1>4, <1>5, <1>6 DEF DrivesInv

\* The three invariants that the claim rests on hold for any devices, moves,
\* messages, restarts and setDetects.
LEMMA DrivesSafe == Spec => [](PdmInv /\ StorageInv /\ HaltedInv)
<1>1. Init => DrivesInv
  BY DrivesInit
<1>2. Sound /\ DrivesInv /\ [Next]_vars => DrivesInv'
  BY DrivesNext DEF Sound
<1> QED BY <1>1, <1>2, AlwaysSound, DrivesParts, PTL DEF Spec

\* Once all is quiet, every drive that PdmListener has not lost, and every
\* configured path, is available exactly when it is attached: whatever moves,
\* swaps, messages without a list, switched plugins and restarts there were,
\* no addition or removal is lost between PDM's messages, PdmListener's map,
\* setDetect and the plugins (pdmlistener.cpp:163, mediaindexer.cpp:149).
THEOREM DrivesAreRight == Spec => []AttachedIsAvailable
<1>1. ASSUME Sound, DrivesInv PROVE AttachedIsAvailable
  <2>1. SUFFICES ASSUME Quiet, NEW d \in Present, d \notin excused,
                        Home[d] \in running, Home[d] \in OnPdm \cup {"storage"}
                 PROVE  dev[d].avail <=> attached[d] # NoMount
    BY DEF AttachedIsAvailable
  <2>2. d \in Placed /\ ~Adding(d) /\ ~Removing(d) /\ inbox = <<>>
    BY <1>1, <2>1, QuietIs DEF Placed, Adding, Removing
  <2>3. CASE Home[d] \in OnPdm
    <3>1. dev[d].avail <=> InMap(d)
      BY <1>1, <2>1, <2>2, <2>3 DEF DrivesInv, Fits, MapFits
    <3>2. subscribed
      BY <1>1, <2>1, <2>3 DEF DrivesInv, SubscribedInv
    <3>3. InMap(d) <=> attached[d] # NoMount
      BY <1>1, <2>1, <2>2, <2>3, <3>2 DEF DrivesInv, MapInv, PdmDevices
    <3> QED BY <3>1, <3>3
  <2>4. CASE Home[d] = "storage"
    <3>1. dev[d].avail
      BY <1>1, <2>1, <2>2, <2>4 DEF DrivesInv, Fits, PathFits
    <3>2. attached[d] # NoMount
      BY <1>1, <2>2, <2>4, PlacedIs DEF DrivesInv, PathInv
    <3> QED BY <3>1, <3>2
  <2> QED BY <2>1, <2>3, <2>4
<1> QED BY <1>1, AlwaysSound, DrivesSafe, DrivesParts, PTL

----------------------------------------------------------------------------
(***************************************************************************)
(* Walks over a server: sequences of calls in which none is twice.         *)
(***************************************************************************)
Once(s) == \A i, j \in DOMAIN s : s[i].op = s[j].op /\ s[i].id = s[j].id => i = j
Apart(S, T) == \A c \in S, e \in T : ~(c.op = e.op /\ c.id = e.id)

LEMMA OnceConcat ==
    ASSUME NEW S, NEW s \in Seq(S), NEW t \in Seq(S), Once(s), Once(t),
           Apart(In(s), In(t))
    PROVE  Once(s \o t)
<1>1. PICK m, n : m = Len(s) /\ n = Len(t)
  OBVIOUS
<1>2. /\ m \in Nat /\ n \in Nat /\ DOMAIN s = 1 .. m /\ DOMAIN t = 1 .. n
  BY <1>1, LenProperties
<1>3. PICK u : u = s \o t
  OBVIOUS
<1>4. /\ DOMAIN u = 1 .. m + n
      /\ \A i \in 1 .. m + n : u[i] = IF i <= m THEN s[i] ELSE t[i - m]
  BY <1>1, <1>3, ConcatProperties, LenProperties
<1>5. \A i \in 1 .. m : s[i] \in In(s)
  BY <1>2 DEF In
<1>6. \A i \in 1 .. n : t[i] \in In(t)
  BY <1>2 DEF In
<1>7. SUFFICES ASSUME NEW i \in 1 .. m + n, NEW j \in 1 .. m + n,
                      u[i].op = u[j].op, u[i].id = u[j].id
               PROVE  i = j
  BY <1>3, <1>4 DEF Once
<1>8. CASE i <= m /\ j <= m
  <2>1. i \in 1 .. m /\ j \in 1 .. m
    BY <1>2, <1>8
  <2> QED BY <1>2, <1>4, <1>7, <1>8, <2>1 DEF Once
<1>9. CASE ~(i <= m) /\ ~(j <= m)
  <2>1. i - m \in 1 .. n /\ j - m \in 1 .. n
    BY <1>2, <1>9
  <2>2. i - m = j - m
    BY <1>2, <1>4, <1>7, <1>9, <2>1 DEF Once
  <2> QED BY <1>2, <2>2
<1>10. CASE i <= m /\ ~(j <= m)
  <2>1. i \in 1 .. m /\ j - m \in 1 .. n
    BY <1>2, <1>10
  <2> QED BY <1>4, <1>5, <1>6, <1>7, <1>10, <2>1 DEF Apart
<1>11. CASE ~(i <= m) /\ j <= m
  <2>1. i - m \in 1 .. n /\ j \in 1 .. m
    BY <1>2, <1>11
  <2> QED BY <1>4, <1>5, <1>6, <1>7, <1>11, <2>1 DEF Apart
<1> QED BY <1>8, <1>9, <1>10, <1>11

LEMMA OnceTail ==
    ASSUME NEW S, NEW s \in Seq(S), s # <<>>, Once(s)
    PROVE  Once(Tail(s)) /\ Apart({Head(s)}, In(Tail(s)))
<1>1. PICK t, n : t = Tail(s) /\ n = Len(t)
  OBVIOUS
<1>2. /\ t \in Seq(S) /\ Len(s) = n + 1 /\ n \in Nat /\ Len(s) \in Nat
      /\ \A i \in 1 .. n : t[i] = s[i + 1]
      /\ DOMAIN t = 1 .. n /\ DOMAIN s = 1 .. n + 1 /\ Head(s) = s[1]
  <2>1. /\ t \in Seq(S) /\ n = Len(s) - 1 /\ \A i \in 1 .. n : t[i] = s[i + 1]
    BY <1>1, HeadTailProperties
  <2>2. Len(s) \in Nat /\ n \in Nat /\ DOMAIN t = 1 .. n /\ DOMAIN s = 1 .. Len(s)
    BY <1>1, <2>1, LenProperties
  <2>3. Head(s) = s[1]
    BY InTail
  <2> QED BY <2>1, <2>2, <2>3
<1>3. Once(t)
  <2>1. SUFFICES ASSUME NEW i \in 1 .. n, NEW j \in 1 .. n,
                        t[i].op = t[j].op, t[i].id = t[j].id
                 PROVE  i = j
    BY <1>2 DEF Once
  <2>2. i + 1 \in 1 .. n + 1 /\ j + 1 \in 1 .. n + 1
    BY <1>2
  <2>3. s[i + 1].op = s[j + 1].op /\ s[i + 1].id = s[j + 1].id
    BY <1>2, <2>1
  <2>4. i + 1 = j + 1
    BY <1>2, <2>2, <2>3 DEF Once
  <2> QED BY <2>4
<1>4. ASSUME NEW i \in 1 .. n PROVE ~(s[1].op = t[i].op /\ s[1].id = t[i].id)
  <2>1. i + 1 \in 1 .. n + 1 /\ 1 \in 1 .. n + 1 /\ i + 1 # 1
    BY <1>2
  <2> QED BY <1>2, <2>1 DEF Once
<1>5. Apart({Head(s)}, In(t))
  BY <1>2, <1>4 DEF Apart, In
<1> QED BY <1>1, <1>3, <1>5

\* The number of places up to one of them tells which one it is.
LEMMA CountTellsPlace ==
    ASSUME NEW n \in Nat, NEW of, of \subseteq 1 .. n, NEW i \in of, NEW j \in of,
           Cardinality(of \cap 1 .. i) = Cardinality(of \cap 1 .. j)
    PROVE  i = j
<1>1. IsFiniteSet(of)
  <2>1. IsFiniteSet(1 .. n)
    BY FS_Interval
  <2> QED BY <2>1, FS_Subset
<1>2. \A k \in of : IsFiniteSet(of \cap 1 .. k)
  BY <1>1, FS_Subset
<1>3. i \in 1 .. n /\ j \in 1 .. n
  OBVIOUS
<1>4. ASSUME NEW a \in of, NEW b \in of, a < b, a \in 1 .. n, b \in 1 .. n,
             Cardinality(of \cap 1 .. a) = Cardinality(of \cap 1 .. b)
      PROVE  FALSE
  <2>1. of \cap 1 .. a \subseteq of \cap 1 .. b /\ b \in of \cap 1 .. b
        /\ b \notin of \cap 1 .. a
    BY <1>4
  <2>2. of \cap 1 .. a = of \cap 1 .. b
    BY <1>2, <1>4, <2>1, FS_Subset
  <2> QED BY <2>1, <2>2
<1> QED BY <1>3, <1>4

\* Chosen has each place that is chosen once.
Picks(chunk, S, m, at) ==
    /\ m \in Nat
    /\ Chosen(chunk, S) = [k \in 1 .. m |-> chunk[at[k]]]
    /\ \A k \in 1 .. m : at[k] \in PlacesOf(chunk, S)
    /\ \A k, l \in 1 .. m : at[k] = at[l] => k = l
    /\ \A i \in PlacesOf(chunk, S) : \E k \in 1 .. m : at[k] = i

LEMMA ChosenPlaces ==
    ASSUME NEW chunk \in Seq(Objects), NEW S
    PROVE  \E m, at : Picks(chunk, S, m, at)
<1>1. PICK of, n : of = PlacesOf(chunk, S) /\ n = Len(chunk)
  OBVIOUS
<1>2. n \in Nat /\ of \subseteq 1 .. n
  BY <1>1, LenProperties DEF PlacesOf
<1>3. IsFiniteSet(of) /\ Cardinality(of) \in Nat
  <2>1. IsFiniteSet(1 .. n)
    BY <1>2, FS_Interval
  <2>2. IsFiniteSet(of)
    BY <1>2, <2>1, FS_Subset
  <2> QED BY <2>2, FS_CardinalityType
<1>4. PICK m : m = Cardinality(of)
  OBVIOUS
<1>5. PICK at : at = [k \in 1 .. m |-> CHOOSE i \in of : Cardinality(of \cap 1 .. i) = k]
  OBVIOUS
<1>6. ASSUME NEW k \in 1 .. m
      PROVE  at[k] \in of /\ Cardinality(of \cap 1 .. at[k]) = k
  <2>1. \E i \in of : Cardinality(of \cap 1 .. i) = k
    BY <1>2, <1>4, KthPlace
  <2>2. at[k] = CHOOSE i \in of : Cardinality(of \cap 1 .. i) = k
    BY <1>5
  <2> QED BY <2>1, <2>2
<1>7. Chosen(chunk, S) = [k \in 1 .. m |-> chunk[at[k]]]
  BY <1>1, <1>4, <1>5 DEF Chosen
<1>8. \A k, l \in 1 .. m : at[k] = at[l] => k = l
  BY <1>6
<1>9. ASSUME NEW i \in of PROVE \E k \in 1 .. m : at[k] = i
  <2>1. PICK k : k = Cardinality(of \cap 1 .. i)
    OBVIOUS
  <2>2. IsFiniteSet(of \cap 1 .. i) /\ k \in Nat /\ k <= m
    BY <1>3, <1>4, <2>1, FS_Subset, FS_CardinalityType
  <2>3. i \in of \cap 1 .. i
    BY <1>2
  <2>4. k # 0
    BY <2>1, <2>2, <2>3, FS_EmptySet
  <2>5. k \in 1 .. m
    BY <1>3, <1>4, <2>2, <2>4
  <2>6. at[k] = i
    BY <1>2, <1>6, <2>1, <2>5, CountTellsPlace
  <2> QED BY <2>5, <2>6
<1>10. m \in Nat /\ \A k \in 1 .. m : at[k] \in of
  BY <1>3, <1>4, <1>6
<1>11. Picks(chunk, S, m, at)
  BY <1>1, <1>7, <1>8, <1>9, <1>10 DEF Picks
<1> QED BY <1>11

\* What is in a chosen part, and that it is there once.
LEMMA ChosenOnce ==
    ASSUME NEW chunk \in Seq(Objects), NEW S,
           \A i, j \in DOMAIN chunk : chunk[i] = chunk[j] /\ chunk[i] \in S => i = j
    PROVE  /\ Chosen(chunk, S) \in Seq(Objects)
           /\ In(Chosen(chunk, S)) = S \cap In(chunk)
           /\ \A k, l \in DOMAIN Chosen(chunk, S) :
                Chosen(chunk, S)[k] = Chosen(chunk, S)[l] => k = l
<1>1. PICK m, at :
        /\ m \in Nat /\ Chosen(chunk, S) = [k \in 1 .. m |-> chunk[at[k]]]
        /\ \A k \in 1 .. m : at[k] \in PlacesOf(chunk, S)
        /\ \A k, l \in 1 .. m : at[k] = at[l] => k = l
        /\ \A i \in PlacesOf(chunk, S) : \E k \in 1 .. m : at[k] = i
  <2>1. PICK m, at : Picks(chunk, S, m, at)
    BY ChosenPlaces
  <2> QED BY <2>1 DEF Picks
<1>2. PICK c : c = Chosen(chunk, S)
  OBVIOUS
<1>3. DOMAIN c = 1 .. m /\ \A k \in 1 .. m : c[k] = chunk[at[k]]
  BY <1>1, <1>2
<1>4. \A k \in 1 .. m : at[k] \in DOMAIN chunk /\ c[k] \in S
  BY <1>1, <1>3 DEF PlacesOf
<1>5. \A k, l \in 1 .. m : c[k] = c[l] => k = l
  BY <1>1, <1>3, <1>4
<1>6. ASSUME NEW x PROVE x \in In(c) <=> x \in S \cap In(chunk)
  <2>1. ASSUME x \in In(c) PROVE x \in S \cap In(chunk)
    BY <1>3, <1>4, <2>1 DEF In
  <2>2. ASSUME x \in S \cap In(chunk) PROVE x \in In(c)
    <3>1. PICK i \in DOMAIN chunk : chunk[i] = x
      BY <2>2 DEF In
    <3>2. i \in PlacesOf(chunk, S)
      BY <2>2, <3>1 DEF PlacesOf
    <3>3. PICK k \in 1 .. m : at[k] = i
      BY <1>1, <3>2
    <3> QED BY <1>3, <3>1, <3>3 DEF In
  <2> QED BY <2>1, <2>2
<1>7. In(c) = S \cap In(chunk)
  BY <1>6
<1> QED BY <1>2, <1>3, <1>5, <1>7, ChosenIs

Parts(chunk) ==
    {DiveIn(o, Len(content[o])) : o \in Followed \cap In(chunk)}
    \cup {HandleItem(o) : o \in Playable \cap In(chunk)}

\* parseBrowseResponse: one call for each container that is followed and each
\* item that is played.
LEMMA ParsedParts ==
    ASSUME BrowseType, NEW chunk \in Seq(Objects),
           \A i, j \in DOMAIN chunk :
             chunk[i] = chunk[j] /\ chunk[i] \in Followed \cup Playable => i = j
    PROVE  /\ Parsed(chunk) \in Seq(BrowseCalls) /\ Once(Parsed(chunk))
           /\ In(Parsed(chunk)) = Parts(chunk)
<1>1. PICK dives, items : dives = Chosen(chunk, Followed) /\ items = Chosen(chunk, Playable)
  OBVIOUS
<1>2. /\ dives \in Seq(Objects) /\ In(dives) = Followed \cap In(chunk)
      /\ \A k, l \in DOMAIN dives : dives[k] = dives[l] => k = l
  BY <1>1, ChosenOnce
<1>3. /\ items \in Seq(Objects) /\ In(items) = Playable \cap In(chunk)
      /\ \A k, l \in DOMAIN items : items[k] = items[l] => k = l
  BY <1>1, ChosenOnce
<1>4. PICK a, b :
        /\ a = [i \in DOMAIN dives |-> DiveIn(dives[i], Len(content[dives[i]]))]
        /\ b = [i \in DOMAIN items |-> HandleItem(items[i])]
  OBVIOUS
<1>5. DOMAIN dives = 1 .. Len(dives) /\ DOMAIN items = 1 .. Len(items)
      /\ Len(dives) \in Nat /\ Len(items) \in Nat
  BY <1>2, <1>3, LenProperties
<1>6. \A o \in Objects : DiveIn(o, Len(content[o])) \in BrowseCalls /\ HandleItem(o) \in BrowseCalls
  <2>1. \A o \in Objects : Len(content[o]) \in Nat
    BY LenProperties DEF BrowseType
  <2> QED BY <2>1 DEF DiveIn, HandleItem, BrowseCalls
<1>7. a \in Seq(BrowseCalls) /\ b \in Seq(BrowseCalls)
  <2>1. \A i \in 1 .. Len(dives) : dives[i] \in Objects
    BY <1>2
  <2>2. \A i \in 1 .. Len(items) : items[i] \in Objects
    BY <1>3
  <2>3. a \in Seq(BrowseCalls)
    BY <1>4, <1>5, <1>6, <2>1
  <2>4. b \in Seq(BrowseCalls)
    BY <1>4, <1>5, <1>6, <2>2
  <2> QED BY <2>3, <2>4
<1>8. In(a) = {DiveIn(o, Len(content[o])) : o \in In(dives)}
  BY <1>4 DEF In
<1>9. In(b) = {HandleItem(o) : o \in In(items)}
  BY <1>4 DEF In
<1>10. Once(a) /\ Once(b)
  BY <1>2, <1>3, <1>4 DEF Once, DiveIn, HandleItem
<1>11. Apart(In(a), In(b))
  BY <1>8, <1>9 DEF Apart, DiveIn, HandleItem
<1>12. Parsed(chunk) = a \o b
  BY <1>1, <1>4 DEF Parsed
<1>13. /\ a \o b \in Seq(BrowseCalls) /\ In(a \o b) = In(a) \cup In(b)
       /\ Once(a \o b)
  BY <1>7, <1>10, <1>11, InConcat, OnceConcat
<1> QED BY <1>2, <1>3, <1>8, <1>9, <1>12, <1>13 DEF Parts

\* WalkOK without the stack: E are the calls on it, con the content, del how
\* often what was delivered.
Covers(E, o, k) == \E c \in E : c.op = "chunk" /\ c.id = o /\ c.start < k
SeenAt(E, con, V, x) ==
    \E o \in V : \E k \in DOMAIN con[o] : con[o][k] = x /\ ~Covers(E, o, k)
DueAt(E, op, x) == \E c \in E : c.op = op /\ c.id = x
KidsOf(con, o) == {con[o][i] : i \in DOMAIN con[o]}
InsideOf(con) ==
    {o \in Objects : \A S \in SUBSET Objects :
        Root \in S /\ (\A p \in S : Followed \cap KidsOf(con, p) \subseteq S) => o \in S}
Fits1(c, con, V) ==
    /\ c.op = "dive" => c.count = Len(con[c.id])
    /\ c.op = "chunk" =>
         /\ c.id \in V
         /\ \/ c.start < c.count /\ c.count = Len(con[c.id])
            \/ c.id = Root /\ c.start = 0 /\ c.count = 0
Place1(E, con, del, V, x) ==
    /\ (x \in Followed /\ SeenAt(E, con, V, x))
       <=> ((x \in V /\ x # Root) \/ DueAt(E, "dive", x))
    /\ ~(x \in V /\ DueAt(E, "dive", x))
    /\ (x \in Playable /\ SeenAt(E, con, V, x))
       <=> (del[x] # 0 \/ DueAt(E, "item", x))
    /\ ~(del[x] # 0 /\ DueAt(E, "item", x))
    /\ del[x] \in {0, 1}
Fine(E, con, del, V) ==
    /\ Root \in V /\ V \subseteq InsideOf(con)
    /\ \A c \in E : Fits1(c, con, V)
    /\ \A x \in Objects : Place1(E, con, del, V, x)

LEMMA WalkIsFine ==
    ASSUME NEW V \in SUBSET Objects
    PROVE  WalkOK(V) <=> Once(browse) /\ Fine(In(browse), content, delivered, V)
<1>1. Stacked = In(browse)
  BY DEF Stacked, In
<1>2. Inside = InsideOf(content)
  BY DEF Inside, InsideOf, Kids, KidsOf
<1>3. \A x \in Objects : /\ x \in Seen(V) <=> SeenAt(In(browse), content, V, x)
                         /\ x \in Done <=> delivered[x] # 0
                         /\ \A op : x \in Due(op) <=> DueAt(In(browse), op, x)
  BY <1>1 DEF Seen, SeenAt, Ahead, Covers, Done, Due, DueAt
<1>4. Seen(V) \subseteq Objects /\ Done \subseteq Objects /\ \A op : Due(op) \subseteq Objects
  BY DEF Seen, Done, Due
<1>5. (\A x \in Objects : Place1(In(browse), content, delivered, V, x))
      <=> /\ Followed \cap Seen(V) = (V \ {Root}) \cup Due("dive")
          /\ V \cap Due("dive") = {}
          /\ Playable \cap Seen(V) = Done \cup Due("item")
          /\ Done \cap Due("item") = {}
          /\ \A o \in Objects : delivered[o] \in {0, 1}
  <2>1. ASSUME \A x \in Objects : Place1(In(browse), content, delivered, V, x)
        PROVE  /\ Followed \cap Seen(V) = (V \ {Root}) \cup Due("dive")
               /\ V \cap Due("dive") = {}
               /\ Playable \cap Seen(V) = Done \cup Due("item")
               /\ Done \cap Due("item") = {}
               /\ \A o \in Objects : delivered[o] \in {0, 1}
    BY <1>3, <1>4, <2>1 DEF Place1
  <2>2. ASSUME /\ Followed \cap Seen(V) = (V \ {Root}) \cup Due("dive")
               /\ V \cap Due("dive") = {}
               /\ Playable \cap Seen(V) = Done \cup Due("item")
               /\ Done \cap Due("item") = {}
               /\ \A o \in Objects : delivered[o] \in {0, 1},
               NEW x \in Objects
        PROVE  Place1(In(browse), content, delivered, V, x)
    BY <1>3, <1>4, <2>2 DEF Place1
  <2> QED BY <2>1, <2>2
<1>6. (\A c \in In(browse) : Fits1(c, content, V))
      <=> \A c \in Stacked :
         /\ c.op = "dive" => c.count = Len(content[c.id])
         /\ c.op = "chunk" =>
              /\ c.id \in V
              /\ \/ c.start < c.count /\ c.count = Len(content[c.id])
                 \/ c.id = Root /\ c.start = 0 /\ c.count = 0
  BY <1>1 DEF Fits1
<1> QED BY <1>2, <1>5, <1>6 DEF WalkOK, Once, Fine

LEMMA FollowedInside ==
    ASSUME NEW con, NEW o \in InsideOf(con), NEW i \in DOMAIN con[o],
           con[o][i] \in Followed, con[o][i] \in Objects
    PROVE  con[o][i] \in InsideOf(con)
<1>1. con[o][i] \in KidsOf(con, o)
  BY DEF KidsOf
<1> QED BY <1>1 DEF InsideOf

LEMMA FineStart ==
    ASSUME NEW con, con \in [Objects -> Seq(Objects)]
    PROVE  Fine({Request(Root, 0, 0)}, con, [o \in Objects |-> 0], {Root})
<1>1. PICK E, V, del : E = {Request(Root, 0, 0)} /\ V = {Root} /\ del = [o \in Objects |-> 0]
  OBVIOUS
<1>2. con[Root] \in Seq(Objects)
  BY RootAssumption
<1>3. DOMAIN con[Root] = 1 .. Len(con[Root]) /\ Len(con[Root]) \in Nat
  BY <1>2, LenProperties
<1>4. \A k \in DOMAIN con[Root] : Covers(E, Root, k)
  BY <1>1, <1>3 DEF Covers, Request
<1>5. \A x : ~SeenAt(E, con, V, x)
  BY <1>1, <1>4 DEF SeenAt
<1>6. \A x : ~DueAt(E, "dive", x) /\ ~DueAt(E, "item", x)
  BY <1>1 DEF DueAt, Request
<1>7. Root \in InsideOf(con)
  BY RootAssumption DEF InsideOf
<1>8. \A c \in E : Fits1(c, con, V)
  BY <1>1 DEF Fits1, Request
<1>9. \A x \in Objects : Place1(E, con, del, V, x)
  BY <1>1, <1>5, <1>6 DEF Place1
<1>10. Fine(E, con, del, V)
  BY <1>1, <1>7, <1>8, <1>9 DEF Fine
<1> QED BY <1>1, <1>10

LEMMA FineDive ==
    ASSUME NEW con, con \in [Objects -> Seq(Objects)], IsTree(con),
           NEW del, NEW V, V \subseteq Objects,
           NEW c \in BrowseCalls, c.op = "dive", NEW R, R \subseteq BrowseCalls,
           Apart({c}, R), Fine({c} \cup R, con, del, V),
           NEW more, more = IF c.count = 0 THEN {} ELSE {Request(c.id, 0, c.count)}
    PROVE  Fine(more \cup R, con, del, V \cup {c.id}) /\ Apart(more, R)
<1>1. PICK E, F, W, o : E = {c} \cup R /\ F = more \cup R /\ W = V \cup {c.id} /\ o = c.id
  OBVIOUS
<1>2. o \in Objects /\ c.count \in Nat
  BY <1>1 DEF BrowseCalls
<1>3. \A x \in Objects : Place1(E, con, del, V, x)
  BY <1>1 DEF Fine
<1>4. \A e \in E : Fits1(e, con, V)
  BY <1>1 DEF Fine
<1>5. DueAt(E, "dive", o)
  BY <1>1 DEF DueAt
<1>6. o \notin V /\ o \in Followed /\ SeenAt(E, con, V, o)
  BY <1>2, <1>3, <1>5 DEF Place1
<1>7. PICK p \in V : \E k \in DOMAIN con[p] : con[p][k] = o
  BY <1>6 DEF SeenAt
<1>8. PICK k \in DOMAIN con[p] : con[p][k] = o
  BY <1>7
<1>9. Root \in V /\ V \subseteq InsideOf(con)
  BY <1>1 DEF Fine
<1>10. o \in InsideOf(con)
  BY <1>2, <1>6, <1>7, <1>8, <1>9, FollowedInside
<1>11. o # Root
  BY <1>6, <1>9
<1>12. c.count = Len(con[o])
  BY <1>1, <1>4 DEF Fits1
<1>13. DOMAIN con[o] = 1 .. c.count
  BY <1>2, <1>12, LenProperties
<1>14. \A e \in R : e.op = "chunk" => e.id # o
  BY <1>1, <1>4, <1>6 DEF Fits1
<1>15. \A q \in V : \A i : Covers(E, q, i) <=> Covers(F, q, i)
  BY <1>1, <1>6 DEF Covers, Request
<1>16. \A i \in DOMAIN con[o] : Covers(F, o, i)
  <2>1. CASE c.count = 0
    BY <1>13, <2>1
  <2>2. CASE c.count # 0
    <3>1. PICK r : r = Request(o, 0, c.count)
      OBVIOUS
    <3>2. r \in F /\ r.op = "chunk" /\ r.id = o /\ r.start = 0
      BY <1>1, <2>2, <3>1 DEF Request
    <3> QED BY <1>2, <1>13, <3>2 DEF Covers
  <2> QED BY <2>1, <2>2
<1>17. \A x : SeenAt(E, con, V, x) <=> SeenAt(F, con, W, x)
  BY <1>1, <1>15, <1>16 DEF SeenAt
<1>18. \A x : /\ DueAt(F, "dive", x) <=> DueAt(E, "dive", x) /\ x # o
              /\ DueAt(F, "item", x) <=> DueAt(E, "item", x)
  BY <1>1 DEF DueAt, Request, Apart
<1>19. \A x \in Objects : Place1(F, con, del, W, x)
  BY <1>1, <1>3, <1>5, <1>6, <1>11, <1>17, <1>18 DEF Place1
<1>20. \A e \in F : Fits1(e, con, W)
  <2>1. \A e \in R : Fits1(e, con, W)
    BY <1>1, <1>4 DEF Fits1
  <2>2. \A e \in more : Fits1(e, con, W)
    BY <1>1, <1>2, <1>12 DEF Fits1, Request
  <2> QED BY <1>1, <2>1, <2>2
<1>21. Fine(F, con, del, W)
  BY <1>1, <1>9, <1>10, <1>19, <1>20 DEF Fine
<1>22. Apart(more, R)
  BY <1>1, <1>14 DEF Apart, Request
<1> QED BY <1>1, <1>21, <1>22

LEMMA FineDeliver ==
    ASSUME NEW con, NEW del, NEW V, del \in [Objects -> 0 .. 2],
           NEW c \in BrowseCalls, c.op = "item", NEW R, R \subseteq BrowseCalls,
           Apart({c}, R), Fine({c} \cup R, con, del, V)
    PROVE  del[c.id] = 0 /\ Fine(R, con, [del EXCEPT ![c.id] = 1], V)
<1>1. PICK E, o, to : E = {c} \cup R /\ o = c.id /\ to = [del EXCEPT ![c.id] = 1]
  OBVIOUS
<1>2. o \in Objects
  BY <1>1 DEF BrowseCalls
<1>3. \A x \in Objects : Place1(E, con, del, V, x)
  BY <1>1 DEF Fine
<1>4. \A e \in R : Fits1(e, con, V)
  BY <1>1 DEF Fine
<1>5. DueAt(E, "item", o) /\ ~DueAt(R, "item", o)
  BY <1>1 DEF DueAt, Apart
<1>6. del[o] = 0
  BY <1>2, <1>3, <1>5 DEF Place1
<1>7. \A q, i : Covers(E, q, i) <=> Covers(R, q, i)
  BY <1>1 DEF Covers
<1>8. \A x : SeenAt(E, con, V, x) <=> SeenAt(R, con, V, x)
  BY <1>7 DEF SeenAt
<1>9. \A x : /\ DueAt(R, "dive", x) <=> DueAt(E, "dive", x)
             /\ DueAt(R, "item", x) <=> DueAt(E, "item", x) /\ x # o
  BY <1>1, <1>5 DEF DueAt
<1>10. to[o] = 1 /\ \A x \in Objects : x # o => to[x] = del[x]
  BY <1>1, <1>2
<1>11. \A x \in Objects : Place1(R, con, to, V, x)
  BY <1>3, <1>5, <1>6, <1>8, <1>9, <1>10 DEF Place1
<1>12. Fine(R, con, to, V)
  BY <1>4, <1>11 DEF Fine
<1> QED BY <1>1, <1>6, <1>12

\* An answer to the chunk c, with the children of its container up to "to".
Answered(con, del, V, c, R, to, got, more, new) ==
    /\ con \in [Objects -> Seq(Objects)] /\ IsTree(con) /\ V \subseteq Objects
    /\ c \in BrowseCalls /\ c.op = "chunk" /\ R \subseteq BrowseCalls
    /\ Apart({c}, R) /\ Fine({c} \cup R, con, del, V)
    /\ to \in Nat /\ c.start <= to /\ to <= Len(con[c.id])
    /\ to < Len(con[c.id]) => to < c.count
    /\ got = {con[c.id][k] : k \in c.start + 1 .. to}
    /\ more = IF to < c.count THEN {Request(c.id, to, c.count)} ELSE {}
    /\ new = {DiveIn(x, Len(con[x])) : x \in Followed \cap got}
             \cup {HandleItem(x) : x \in Playable \cap got}

LEMMA FineChunk ==
    ASSUME NEW con, NEW del, NEW V, NEW c, NEW R, NEW to, NEW got, NEW more, NEW new,
           Answered(con, del, V, c, R, to, got, more, new)
    PROVE  /\ Fine(new \cup more \cup R, con, del, V)
           /\ Apart(new, more \cup R) /\ Apart(more, R)
<1>a. /\ con \in [Objects -> Seq(Objects)] /\ IsTree(con) /\ V \subseteq Objects
      /\ c \in BrowseCalls /\ c.op = "chunk" /\ R \subseteq BrowseCalls
      /\ Apart({c}, R) /\ Fine({c} \cup R, con, del, V)
      /\ to \in Nat /\ c.start <= to /\ to <= Len(con[c.id])
      /\ to < Len(con[c.id]) => to < c.count
      /\ got = {con[c.id][k] : k \in c.start + 1 .. to}
      /\ more = IF to < c.count THEN {Request(c.id, to, c.count)} ELSE {}
      /\ new = {DiveIn(x, Len(con[x])) : x \in Followed \cap got}
               \cup {HandleItem(x) : x \in Playable \cap got}
  BY DEF Answered
<1> USE <1>a
<1>1. PICK E, F, o, kids, s, n :
        /\ E = {c} \cup R /\ F = new \cup more \cup R /\ o = c.id
        /\ kids = con[o] /\ s = c.start /\ n = Len(kids)
  OBVIOUS
<1>2. o \in Objects /\ c.count \in Nat /\ s \in Nat
  BY <1>1 DEF BrowseCalls
<1>3. kids \in Seq(Objects) /\ DOMAIN kids = 1 .. n /\ n \in Nat
      /\ \A k \in 1 .. n : kids[k] \in Objects
  <2>1. kids \in Seq(Objects)
    BY <1>1, <1>2
  <2> QED BY <1>1, <2>1, LenProperties
<1>4. s <= to /\ to <= n /\ (to < n => to < c.count)
      /\ got = {kids[k] : k \in s + 1 .. to} /\ s + 1 .. to \subseteq 1 .. n
  BY <1>1, <1>2, <1>3
<1>5. (\A x \in Objects : Place1(E, con, del, V, x))
      /\ (\A e \in E : Fits1(e, con, V)) /\ Root \in V /\ V \subseteq InsideOf(con)
  BY <1>1 DEF Fine
<1>6. o \in V /\ (to < c.count => c.count = n)
  <2>1. Fits1(c, con, V)
    BY <1>1, <1>5
  <2>2. c.id \in V /\ (c.count = Len(con[c.id]) \/ c.count = 0)
    BY <2>1 DEF Fits1
  <2> QED BY <1>1, <2>2
<1>7. \A e \in R : e.op = "chunk" => e.id # o
  BY <1>1 DEF Apart
<1>8. \A q, i : q # o => (Covers(F, q, i) <=> Covers(E, q, i))
  BY <1>1 DEF Covers, Request, DiveIn, HandleItem
<1>9. ASSUME NEW i \in 1 .. n PROVE Covers(E, o, i) <=> s < i
  BY <1>1, <1>7 DEF Covers
<1>10. ASSUME NEW i \in 1 .. n PROVE Covers(F, o, i) <=> to < i
  <2>1. ASSUME to < i PROVE Covers(F, o, i)
    <3>1. to < c.count
      BY <1>3, <1>4, <2>1
    <3>2. PICK r : r = Request(o, to, c.count)
      OBVIOUS
    <3>3. r \in F /\ r.op = "chunk" /\ r.id = o /\ r.start = to
      BY <1>1, <3>1, <3>2 DEF Request
    <3> QED BY <2>1, <3>3 DEF Covers
  <2>2. ASSUME Covers(F, o, i) PROVE to < i
    <3>1. PICK e \in F : e.op = "chunk" /\ e.id = o /\ e.start < i
      BY <2>2 DEF Covers
    <3>2. e \notin R /\ e \notin new
      BY <1>7, <3>1 DEF DiveIn, HandleItem
    <3>3. e = Request(c.id, to, c.count)
      BY <1>1, <3>1, <3>2
    <3> QED BY <3>1, <3>3 DEF Request
  <2> QED BY <2>1, <2>2
<1>11. \A i \in s + 1 .. to : i \in 1 .. n /\ Covers(E, o, i) /\ ~Covers(F, o, i)
  BY <1>2, <1>4, <1>9, <1>10
<1>12. ASSUME NEW x PROVE SeenAt(F, con, V, x) <=> SeenAt(E, con, V, x) \/ x \in got
  <2>1. ASSUME SeenAt(F, con, V, x) PROVE SeenAt(E, con, V, x) \/ x \in got
    <3>1. PICK q \in V : \E i \in DOMAIN con[q] : con[q][i] = x /\ ~Covers(F, q, i)
      BY <2>1 DEF SeenAt
    <3>2. PICK i \in DOMAIN con[q] : con[q][i] = x /\ ~Covers(F, q, i)
      BY <3>1
    <3>3. CASE ~Covers(E, q, i)
      BY <3>2, <3>3 DEF SeenAt
    <3>4. CASE Covers(E, q, i)
      <4>1. q = o
        BY <1>8, <3>2, <3>4
      <4>2. i \in 1 .. n /\ s < i /\ ~(to < i)
        BY <1>1, <1>3, <1>9, <1>10, <3>2, <3>4, <4>1
      <4>3. i \in s + 1 .. to
        BY <1>2, <4>2
      <4> QED BY <1>1, <1>4, <3>2, <4>1, <4>3
    <3> QED BY <3>3, <3>4
  <2>2. ASSUME SeenAt(E, con, V, x) PROVE SeenAt(F, con, V, x)
    <3>1. PICK q \in V : \E i \in DOMAIN con[q] : con[q][i] = x /\ ~Covers(E, q, i)
      BY <2>2 DEF SeenAt
    <3>2. PICK i \in DOMAIN con[q] : con[q][i] = x /\ ~Covers(E, q, i)
      BY <3>1
    <3>3. ~Covers(F, q, i)
      <4>1. CASE q # o
        BY <1>8, <3>2, <4>1
      <4>2. CASE q = o
        <5>1. i \in 1 .. n
          BY <1>1, <1>3, <3>2, <4>2
        <5>2. ~(s < i)
          BY <1>9, <3>2, <4>2, <5>1
        <5> QED BY <1>2, <1>4, <1>10, <4>2, <5>1, <5>2
      <4> QED BY <4>1, <4>2
    <3> QED BY <3>2, <3>3 DEF SeenAt
  <2>3. ASSUME x \in got PROVE SeenAt(F, con, V, x)
    <3>1. PICK i \in s + 1 .. to : kids[i] = x
      BY <1>4, <2>3
    <3>2. i \in DOMAIN con[o] /\ con[o][i] = x /\ ~Covers(F, o, i)
      BY <1>1, <1>3, <1>11, <3>1
    <3> QED BY <1>6, <3>2 DEF SeenAt
  <2> QED BY <2>1, <2>2, <2>3
<1>13. ASSUME NEW x \in got, x \in Followed \cup Playable PROVE ~SeenAt(E, con, V, x)
  <2>1. PICK k \in s + 1 .. to : kids[k] = x
    BY <1>4
  <2>2. k \in DOMAIN con[o] /\ con[o][k] = x /\ Covers(E, o, k)
    BY <1>1, <1>3, <1>11, <2>1
  <2>3. SUFFICES ASSUME NEW q \in V, NEW i \in DOMAIN con[q], con[q][i] = x, ~Covers(E, q, i)
                 PROVE  FALSE
    BY DEF SeenAt
  <2>4. q \in Objects /\ o \in Objects
    BY <1>2
  <2>5. q = o /\ i = k
    BY <1>13, <2>2, <2>3, <2>4 DEF IsTree
  <2> QED BY <2>2, <2>3, <2>5
<1>14. \A x \in got : x \in Objects /\ x # Root
  BY <1>1, <1>2, <1>3, <1>4 DEF IsTree
<1>15. ASSUME NEW x PROVE DueAt(F, "dive", x) <=> DueAt(E, "dive", x) \/ x \in Followed \cap got
  <2>1. ASSUME x \in Followed \cap got PROVE DueAt(F, "dive", x)
    <3>1. DiveIn(x, Len(con[x])) \in F
      BY <1>1, <2>1
    <3> QED BY <3>1 DEF DueAt, DiveIn
  <2>2. DueAt(F, "dive", x) <=> DueAt(R, "dive", x) \/ DueAt(new, "dive", x)
    <3>1. \A e \in more : e.op = "chunk"
      BY DEF Request
    <3> QED BY <1>1, <3>1 DEF DueAt
  <2>3. DueAt(E, "dive", x) <=> DueAt(R, "dive", x)
    BY <1>1 DEF DueAt
  <2>4. DueAt(new, "dive", x) => x \in Followed \cap got
    BY DEF DueAt, DiveIn, HandleItem
  <2> QED BY <2>1, <2>2, <2>3, <2>4
<1>16. ASSUME NEW x PROVE DueAt(F, "item", x) <=> DueAt(E, "item", x) \/ x \in Playable \cap got
  <2>1. ASSUME x \in Playable \cap got PROVE DueAt(F, "item", x)
    <3>1. HandleItem(x) \in F
      BY <1>1, <2>1
    <3> QED BY <3>1 DEF DueAt, HandleItem
  <2>2. DueAt(F, "item", x) <=> DueAt(R, "item", x) \/ DueAt(new, "item", x)
    <3>1. \A e \in more : e.op = "chunk"
      BY DEF Request
    <3> QED BY <1>1, <3>1 DEF DueAt
  <2>3. DueAt(E, "item", x) <=> DueAt(R, "item", x)
    BY <1>1 DEF DueAt
  <2>4. DueAt(new, "item", x) => x \in Playable \cap got
    BY DEF DueAt, DiveIn, HandleItem
  <2> QED BY <2>1, <2>2, <2>3, <2>4
<1>17. ASSUME NEW x \in Objects PROVE Place1(F, con, del, V, x)
  <2>1. Place1(E, con, del, V, x)
    BY <1>5
  <2>2. CASE x \in got
    BY <1>12, <1>13, <1>14, <1>15, <1>16, <2>1, <2>2 DEF Place1
  <2>3. CASE x \notin got
    BY <1>12, <1>15, <1>16, <2>1, <2>3 DEF Place1
  <2> QED BY <2>2, <2>3
<1>18. ASSUME NEW e \in F PROVE Fits1(e, con, V)
  <2>1. CASE e \in R
    BY <1>1, <1>5, <2>1
  <2>2. CASE e \in new
    <3>1. CASE \E x \in Followed \cap got : e = DiveIn(x, Len(con[x]))
      BY <3>1 DEF Fits1, DiveIn
    <3>2. CASE \E x \in Playable \cap got : e = HandleItem(x)
      BY <3>2 DEF Fits1, HandleItem
    <3> QED BY <2>2, <3>1, <3>2
  <2>3. CASE e \in more
    <3>1. e = Request(o, to, c.count) /\ to < c.count
      BY <1>1, <2>3
    <3> QED BY <1>1, <1>6, <3>1 DEF Fits1, Request
  <2> QED BY <1>1, <2>1, <2>2, <2>3
<1>19. Fine(F, con, del, V)
  BY <1>5, <1>17, <1>18 DEF Fine
<1>20. Apart(more, R)
  BY <1>1, <1>7 DEF Apart, Request
<1>21. Apart(new, more \cup R)
  <2>1. SUFFICES ASSUME NEW e \in new, NEW r \in more \cup R, e.op = r.op, e.id = r.id
                 PROVE  FALSE
    BY DEF Apart
  <2>2. r \in R
    BY <2>1 DEF DiveIn, HandleItem, Request
  <2>3. CASE \E x \in Followed \cap got : e = DiveIn(x, Len(con[x]))
    <3>1. PICK x \in Followed \cap got : e = DiveIn(x, Len(con[x]))
      BY <2>3
    <3>2. DueAt(E, "dive", x)
      BY <1>1, <2>1, <2>2, <3>1 DEF DueAt, DiveIn
    <3>3. SeenAt(E, con, V, x)
      BY <1>5, <1>14, <3>1, <3>2 DEF Place1
    <3> QED BY <1>13, <3>1, <3>3
  <2>4. CASE \E x \in Playable \cap got : e = HandleItem(x)
    <3>1. PICK x \in Playable \cap got : e = HandleItem(x)
      BY <2>4
    <3>2. DueAt(E, "item", x)
      BY <1>1, <2>1, <2>2, <3>1 DEF DueAt, HandleItem
    <3>3. SeenAt(E, con, V, x)
      BY <1>5, <1>14, <3>1, <3>2 DEF Place1
    <3> QED BY <1>13, <3>1, <3>3
  <2> QED BY <2>1, <2>3, <2>4
<1> QED BY <1>1, <1>19, <1>20, <1>21

LEMMA WalkIsFineNext ==
    \A V \in SUBSET Objects :
        WalkOK(V)' <=> Once(browse') /\ Fine(In(browse'), content', delivered', V)
<1>1. \A V \in SUBSET Objects :
        WalkOK(V) <=> Once(browse) /\ Fine(In(browse), content, delivered, V)
  BY WalkIsFine
<1>2. (\A V \in SUBSET Objects :
        WalkOK(V) <=> Once(browse) /\ Fine(In(browse), content, delivered, V))'
  BY <1>1, PTL
<1> QED BY <1>2 DEF Once, Fine, In, InsideOf, KidsOf, Fits1, Place1, SeenAt, DueAt, Covers

\* A server that loses what is last in a container keeps a tree.
LEMMA TreeKept ==
    ASSUME BrowseType, IsTree(content), NEW o \in Objects, Shrink(o)
    PROVE  IsTree(content')
<1>1. PICK kids, n : kids = content[o] /\ n = Len(kids)
  OBVIOUS
<1>2. kids \in Seq(Objects) /\ n \in Nat /\ DOMAIN kids = 1 .. n /\ n > 0
  BY <1>1, LenProperties DEF BrowseType, Shrink
<1>3. PICK fewer : fewer = SubSeq(kids, 1, n - 1)
  OBVIOUS
<1>4. DOMAIN fewer = 1 .. n - 1 /\ \A i \in 1 .. n - 1 : fewer[i] = kids[i]
  <2>1. n - 1 \in Int /\ 1 \in Int /\ \A i \in 1 .. n - 1 : kids[i] \in Objects
    BY <1>2
  <2>2. /\ fewer \in Seq(Objects) /\ Len(fewer) = n - 1
        /\ \A i \in 1 .. n - 1 : fewer[i] = kids[i]
    BY <1>2, <1>3, <2>1, SubSeqProperties
  <2> QED BY <2>2, LenProperties
<1>5. PICK con : con = content'
  OBVIOUS
<1>6. con = [content EXCEPT ![o] = fewer] /\ content \in [Objects -> Seq(Objects)]
  BY <1>1, <1>3, <1>5 DEF Shrink, BrowseType
<1>7. ASSUME NEW p \in Objects, NEW i \in DOMAIN con[p]
      PROVE  i \in DOMAIN content[p] /\ con[p][i] = content[p][i]
  <2>1. CASE p = o
    BY <1>1, <1>2, <1>4, <1>6, <1>7, <2>1
  <2>2. CASE p # o
    BY <1>6, <1>7, <2>2
  <2> QED BY <2>1, <2>2
<1>8. ASSUME NEW p \in Objects, NEW q \in Objects, NEW i \in DOMAIN con[p],
             NEW j \in DOMAIN con[q], con[p][i] = con[q][j],
             con[p][i] \in Followed \cup Playable
      PROVE  p = q /\ i = j
  <2>1. /\ i \in DOMAIN content[p] /\ con[p][i] = content[p][i]
        /\ j \in DOMAIN content[q] /\ con[q][j] = content[q][j]
    BY <1>7, <1>8
  <2>2. /\ content[p][i] = content[q][j]
        /\ content[p][i] \in Followed \cup Playable
    BY <1>8, <2>1
  <2> QED BY <2>1, <2>2 DEF IsTree
<1>9. ASSUME NEW p \in Objects, NEW i \in DOMAIN con[p]
      PROVE  con[p][i] # Root
  BY <1>7, <1>9 DEF IsTree
<1>10. IsTree(con)
  BY <1>8, <1>9 DEF IsTree
<1> QED BY <1>5, <1>10

\* Each call on the stack keeps the walk right, unless it spoils it.
LEMMA WalkNext ==
    ASSUME BrowseType, IsTree(content), NEW V \in SUBSET Objects, WalkOK(V),
           Dive \/ Deliver \/ BrowseChunk, ~spoiled'
    PROVE  \E W \in SUBSET Objects : WalkOK(W)'
<1>1. /\ browse \in Seq(BrowseCalls) /\ content \in [Objects -> Seq(Objects)]
      /\ delivered \in [Objects -> 0 .. 2]
  BY DEF BrowseType, BrowseCalls, MaxDelivered
<1>2. browse # <<>> /\ content' = content
  BY DEF Dive, Deliver, BrowseChunk
<1>3. Top \in BrowseCalls /\ Rest \in Seq(BrowseCalls)
  BY <1>2, TopIs
<1>4. PICK R : R = In(Rest)
  OBVIOUS
<1>5. R \subseteq BrowseCalls
  BY <1>3, <1>4, InIs
<1>6. In(browse) = {Top} \cup R
  BY <1>1, <1>2, <1>4, InTail DEF Top, Rest
<1>7. Once(browse) /\ Fine({Top} \cup R, content, delivered, V)
  BY <1>6, WalkIsFine
<1>8. Once(Rest) /\ Apart({Top}, R)
  BY <1>1, <1>2, <1>4, <1>7, OnceTail DEF Top, Rest
<1>9. Top.id \in Objects /\ Top.start \in Nat /\ Top.count \in Nat
  BY <1>3 DEF BrowseCalls
<1>10. SUFFICES \E W \in SUBSET Objects :
                  Once(browse') /\ Fine(In(browse'), content, delivered', W)
  BY <1>2, WalkIsFineNext
<1>11. CASE Dive
  <2>1. PICK more : more = IF Top.count = 0 THEN {} ELSE {Request(Top.id, 0, Top.count)}
    OBVIOUS
  <2>2. Top.op = "dive" /\ delivered' = delivered
    BY <1>11 DEF Dive
  <2>3. Fine(more \cup R, content, delivered, V \cup {Top.id}) /\ Apart(more, R)
    BY <1>1, <1>3, <1>5, <1>7, <1>8, <2>1, <2>2, FineDive
  <2>4. Once(browse') /\ In(browse') = more \cup R
    <3>1. CASE Top.count = 0
      <4>1. browse' = Rest
        BY <1>11, <3>1 DEF Dive
      <4> QED BY <1>4, <1>8, <2>1, <3>1, <4>1
    <3>2. CASE Top.count # 0
      <4>1. PICK c : c = Request(Top.id, 0, Top.count)
        OBVIOUS
      <4>2. browse' = <<c>> \o Rest
        BY <1>11, <3>2, <4>1 DEF Dive
      <4>3. c \in BrowseCalls
        BY <1>9, <4>1 DEF Request, BrowseCalls
      <4>4. <<c>> \in Seq(BrowseCalls) /\ In(<<c>>) = more /\ Once(<<c>>)
        BY <2>1, <3>2, <4>1, <4>3, InOne DEF Once
      <4> QED BY <1>3, <1>4, <1>8, <2>3, <4>2, <4>4, InConcat, OnceConcat
    <3> QED BY <3>1, <3>2
  <2>5. V \cup {Top.id} \in SUBSET Objects
    BY <1>9
  <2> QED BY <2>2, <2>3, <2>4, <2>5
<1>12. CASE Deliver
  <2>1. Top.op = "item" /\ browse' = Rest
    BY <1>12 DEF Deliver
  <2>2. delivered[Top.id] = 0 /\ Fine(R, content, [delivered EXCEPT ![Top.id] = 1], V)
    BY <1>1, <1>3, <1>5, <1>7, <1>8, <2>1, FineDeliver
  <2>3. delivered' = [delivered EXCEPT ![Top.id] = 1]
    BY <1>1, <1>9, <1>12, <2>2 DEF Deliver, MaxDelivered
  <2> QED BY <1>4, <1>8, <2>1, <2>2, <2>3
<1>13. CASE BrowseChunk
  <2>1. PICK kids, start, count, len :
          /\ kids = content[Top.id] /\ start = Top.start /\ count = Top.count
          /\ len = Len(kids)
    OBVIOUS
  <2>2. /\ kids \in Seq(Objects) /\ len \in Nat /\ DOMAIN kids = 1 .. len
        /\ start \in Nat /\ count \in Nat
    BY <1>1, <1>9, <2>1, LenProperties
  <2>3. Top.op = "chunk" /\ delivered' = delivered
    BY <1>13 DEF BrowseChunk
  <2>4. Fits1(Top, content, V)
    BY <1>7 DEF Fine
  <2>5. (start < count /\ count = len) \/ (start = 0 /\ count = 0)
    BY <2>1, <2>3, <2>4 DEF Fits1
  <2>6. PICK left : left = IF start < len THEN len - start ELSE 0
    OBVIOUS
  <2>7. PICK most : most = IF count = 0 \/ left < ChunkSize THEN left ELSE ChunkSize
    OBVIOUS
  <2>8. PICK n \in 0 .. most :
          /\ spoiled' = (spoiled \/ (count = 0 /\ n < most))
          /\ browse' =
               IF kids = <<>> THEN Rest
               ELSE Parsed(SubSeq(kids, start + 1, start + n))
                    \o (IF start + n < count
                        THEN <<Request(Top.id, start + n, count)>>
                        ELSE <<>>)
                    \o Rest
    BY <1>13, <2>1, <2>6, <2>7 DEF BrowseChunk
  <2>9. PICK to : to = start + n
    OBVIOUS
  <2>10. left = len - start /\ left \in Nat /\ most \in Nat /\ most <= left
         /\ (count = 0 => most = left)
    <3>1. left = len - start /\ left \in Nat
      BY <2>2, <2>5, <2>6
    <3>2. CASE count = 0 \/ left < ChunkSize
      BY <2>7, <3>1, <3>2
    <3>3. CASE ~(count = 0 \/ left < ChunkSize)
      BY <2>7, <3>1, <3>3, ChunkAssumption
    <3> QED BY <3>1, <3>2, <3>3
  <2>11. n \in Nat /\ n <= left /\ (count = 0 => n = most)
    <3>1. n \in Nat /\ n <= most
      BY <2>10
    <3>2. ~(count = 0 /\ n < most)
      BY <2>8
    <3> QED BY <2>10, <3>1, <3>2
  <2>12. to \in Nat /\ start <= to /\ to <= len
    BY <2>2, <2>9, <2>10, <2>11
  <2>13. to < len => to < count
    <3>1. CASE count = 0
      BY <2>2, <2>9, <2>10, <2>11, <3>1
    <3>2. CASE count # 0
      BY <2>2, <2>5, <2>12, <3>2
    <3> QED BY <3>1, <3>2
  <2>14. PICK chunk : chunk = SubSeq(kids, start + 1, to)
    OBVIOUS
  <2>15. /\ chunk \in Seq(Objects) /\ DOMAIN chunk = 1 .. n
         /\ \A i \in 1 .. n : chunk[i] = kids[start + i]
    <3>1. start + 1 \in Int /\ to \in Int
      BY <2>2, <2>12
    <3>2. \A i \in start + 1 .. to : kids[i] \in Objects
      BY <2>2, <2>12
    <3>3. PICK m : m = to - (start + 1) + 1
      OBVIOUS
    <3>4. m = n
      BY <2>2, <2>9, <2>11, <3>3
    <3>5. /\ chunk \in Seq(Objects)
          /\ Len(chunk) = IF start + 1 <= to THEN m ELSE 0
          /\ \A i \in 1 .. m : chunk[i] = kids[start + 1 + i - 1]
      BY <2>14, <3>1, <3>2, <3>3, SubSeqProperties
    <3>6. Len(chunk) = n
      BY <2>2, <2>9, <2>11, <3>4, <3>5
    <3>7. \A i \in 1 .. n : chunk[i] = kids[start + i]
      BY <2>2, <2>11, <3>4, <3>5
    <3> QED BY <3>5, <3>6, <3>7, LenProperties
  <2>16. PICK got : got = {kids[k] : k \in start + 1 .. to}
    OBVIOUS
  <2>17. In(chunk) = got
    <3>1. \A i \in 1 .. n : start + i \in start + 1 .. to
      BY <2>2, <2>9, <2>11
    <3>2. In(chunk) \subseteq got
      BY <2>15, <2>16, <3>1 DEF In
    <3>3. \A k \in start + 1 .. to : k - start \in 1 .. n /\ start + (k - start) = k
      BY <2>2, <2>9, <2>11
    <3>4. \A k \in start + 1 .. to : chunk[k - start] = kids[k]
      BY <2>15, <3>3
    <3>5. got \subseteq In(chunk)
      BY <2>15, <2>16, <3>3, <3>4 DEF In
    <3> QED BY <3>2, <3>5
  <2>18. \A i, j \in DOMAIN chunk :
           chunk[i] = chunk[j] /\ chunk[i] \in Followed \cup Playable => i = j
    <3>1. SUFFICES ASSUME NEW i \in 1 .. n, NEW j \in 1 .. n, chunk[i] = chunk[j],
                          chunk[i] \in Followed \cup Playable
                   PROVE  i = j
      BY <2>15
    <3>2. start + i \in DOMAIN kids /\ start + j \in DOMAIN kids
      BY <2>2, <2>9, <2>11, <2>12
    <3>3. kids[start + i] = kids[start + j] /\ kids[start + i] \in Followed \cup Playable
      BY <2>15, <3>1
    <3>4. start + i = start + j
      BY <1>9, <2>1, <3>2, <3>3 DEF IsTree
    <3> QED BY <2>2, <2>11, <3>4
  <2>19. PICK a, new : a = Parsed(chunk) /\ new = Parts(chunk)
    OBVIOUS
  <2>20. a \in Seq(BrowseCalls) /\ Once(a) /\ In(a) = new
    BY <2>15, <2>18, <2>19, ParsedParts
  <2>21. PICK c : c = Request(Top.id, to, count)
    OBVIOUS
  <2>22. PICK b, more : /\ b = IF to < count THEN <<c>> ELSE <<>>
                        /\ more = IF to < count THEN {c} ELSE {}
    OBVIOUS
  <2>23. b \in Seq(BrowseCalls) /\ In(b) = more /\ Once(b)
    <3>1. c \in BrowseCalls
      BY <1>9, <2>2, <2>12, <2>21 DEF Request, BrowseCalls
    <3>2. <<c>> \in Seq(BrowseCalls) /\ In(<<c>>) = {c} /\ Once(<<c>>)
      BY <3>1, InOne DEF Once
    <3>3. <<>> \in Seq(BrowseCalls) /\ In(<<>>) = {} /\ Once(<<>>)
      BY InNil DEF Once
    <3> QED BY <2>22, <3>2, <3>3
  <2>24. /\ Fine(new \cup more \cup R, content, delivered, V)
         /\ Apart(new, more \cup R) /\ Apart(more, R)
    <3>1. new = {DiveIn(x, Len(content[x])) : x \in Followed \cap got}
                \cup {HandleItem(x) : x \in Playable \cap got}
      BY <2>17, <2>19 DEF Parts
    <3>2. more = IF to < Top.count THEN {Request(Top.id, to, Top.count)} ELSE {}
      BY <2>1, <2>21, <2>22
    <3>3. /\ Top.start <= to /\ to <= Len(content[Top.id])
          /\ to < Len(content[Top.id]) => to < Top.count
          /\ got = {content[Top.id][k] : k \in Top.start + 1 .. to}
      BY <2>1, <2>12, <2>13, <2>16
    <3>4. PICK t : t = Top
      OBVIOUS
    <3>5. /\ t \in BrowseCalls /\ t.op = "chunk" /\ Apart({t}, R)
          /\ Fine({t} \cup R, content, delivered, V)
          /\ more = IF to < t.count THEN {Request(t.id, to, t.count)} ELSE {}
          /\ t.start <= to /\ to <= Len(content[t.id])
          /\ to < Len(content[t.id]) => to < t.count
          /\ got = {content[t.id][k] : k \in t.start + 1 .. to}
      BY <1>3, <1>7, <1>8, <2>3, <3>2, <3>3, <3>4
    <3>6. V \subseteq Objects /\ content \in [Objects -> Seq(Objects)] /\ to \in Nat
      BY <1>1, <2>12
    <3>7. Answered(content, delivered, V, t, R, to, got, more, new)
      BY <1>5, <3>1, <3>5, <3>6 DEF Answered
    <3> QED BY <3>7, FineChunk
  <2>25. Once(browse') /\ In(browse') = new \cup more \cup R
    <3>1. CASE kids = <<>>
      <4>1. n = 0 /\ len = 0 /\ DOMAIN chunk = {}
        BY <2>2, <2>8, <2>10, <2>11, <2>15, <3>1
      <4>2. In(chunk) = {} /\ ~(to < count)
        BY <2>2, <2>5, <2>9, <4>1 DEF In
      <4>3. new = {} /\ more = {}
        BY <2>19, <2>22, <4>2 DEF Parts
      <4>4. browse' = Rest
        BY <2>8, <3>1
      <4> QED BY <1>4, <1>8, <4>3, <4>4
    <3>2. CASE kids # <<>>
      <4>1. browse' = a \o b \o Rest
        BY <2>8, <2>9, <2>14, <2>19, <2>21, <2>22, <3>2
      <4>2. /\ b \o Rest \in Seq(BrowseCalls) /\ In(b \o Rest) = more \cup R
            /\ Once(b \o Rest)
        BY <1>3, <1>4, <1>8, <2>23, <2>24, InConcat, OnceConcat
      <4>3. a \o b \o Rest = a \o (b \o Rest)
        BY <1>3, <2>20, <2>23, ConcatAssociative
      <4>4. PICK s : s = b \o Rest
        OBVIOUS
      <4>5. Apart(In(a), In(s)) /\ s \in Seq(BrowseCalls) /\ Once(s) /\ In(s) = more \cup R
        BY <2>20, <2>24, <4>2, <4>4
      <4>6. Once(a \o s) /\ In(a \o s) = In(a) \cup In(s)
        BY <2>20, <4>5, InConcat, OnceConcat
      <4> QED BY <2>20, <4>1, <4>3, <4>4, <4>5, <4>6
    <3> QED BY <3>1, <3>2
  <2> QED BY <2>3, <2>24, <2>25
<1> QED BY <1>11, <1>12, <1>13

AtRest == browse = <<>> /\ delivered = [o \in Objects |-> 0] /\ ~spoiled
Walked == ~spoiled => \E V \in SUBSET Objects : WalkOK(V)

LEMMA BrowseParts ==
    BrowseInv <=> /\ IsTree(content)
                  /\ \A d, e \in Browsing : d = e
                  /\ Browsing = {} => AtRest
                  /\ Browsing # {} => Walked
BY DEF BrowseInv, AtRest, Walked

LEMMA BrowsePartsNext ==
    BrowseInv' <=> /\ IsTree(content')
                   /\ \A d, e \in Browsing' : d = e
                   /\ Browsing' = {} => AtRest'
                   /\ Browsing' # {} => Walked'
<1>1. (BrowseInv <=> /\ IsTree(content)
                     /\ \A d, e \in Browsing : d = e
                     /\ Browsing = {} => AtRest
                     /\ Browsing # {} => Walked)'
  BY BrowseParts, PTL
<1> QED BY <1>1 DEF IsTree

\* Nothing about a walk changes while neither the walk nor the server moves.
LEMMA WalkStays ==
    ASSUME BrowseInv, UNCHANGED browseVars, Browsing' = Browsing PROVE BrowseInv'
<1>1. /\ content' = content /\ browse' = browse /\ delivered' = delivered
      /\ spoiled' = spoiled
  BY DEF browseVars
<1>2. AtRest' <=> AtRest
  BY <1>1 DEF AtRest
<1>3. Walked => Walked'
  BY <1>1, WalkIsFine, WalkIsFineNext DEF Walked
<1> QED BY <1>1, <1>2, <1>3, BrowseParts, BrowsePartsNext

LEMMA ScanStartsNext ==
    ASSUME BrowseType, BrowseInv, NEW d \in Devices, ScanStarts(d) PROVE BrowseInv'
<1>1. walking' = walking \cup {d}
  BY DEF ScanStarts
<1>2. CASE Home[d] = "upnp"
  <2>1. Browsing = {} /\ StartBrowse
    BY <1>2 DEF ScanStarts
  <2>2. Browsing' = {d}
    BY <1>1, <1>2, <2>1 DEF Browsing
  <2>3. /\ content' = content /\ browse' = <<Request(Root, 0, 0)>>
        /\ delivered' = [o \in Objects |-> 0] /\ content \in [Objects -> Seq(Objects)]
    BY <2>1, BrowseParts DEF AtRest, StartBrowse, BrowseType
  <2>4. PICK c : c = Request(Root, 0, 0)
    OBVIOUS
  <2>5. Once(browse') /\ In(browse') = {c}
    BY <2>3, <2>4, InOne DEF Once
  <2>6. Fine({c}, content, [o \in Objects |-> 0], {Root})
    BY <2>3, <2>4, FineStart
  <2>7. {Root} \in SUBSET Objects
    BY RootAssumption
  <2>8. Walked'
    BY <2>3, <2>5, <2>6, <2>7, WalkIsFineNext DEF Walked
  <2> QED BY <2>2, <2>3, <2>8, BrowseParts, BrowsePartsNext
<1>3. CASE Home[d] # "upnp"
  <2>1. UNCHANGED browseVars
    BY <1>3 DEF ScanStarts
  <2>2. Browsing' = Browsing
    BY <1>1, <1>3 DEF Browsing
  <2> QED BY <2>1, <2>2, WalkStays
<1> QED BY <1>2, <1>3

LEMMA ScanEndsNext ==
    ASSUME BrowseInv, NEW d \in Devices, ScanEnds(d) PROVE BrowseInv'
<1>1. walking' = walking \ {d} /\ d \in walking
  BY DEF ScanEnds
<1>2. CASE Home[d] = "upnp"
  <2>1. EndBrowse
    BY <1>2 DEF ScanEnds
  <2>2. Browsing' = {}
    BY <1>1, <1>2, BrowseParts DEF Browsing
  <2>3. AtRest' /\ content' = content
    BY <2>1 DEF AtRest, EndBrowse
  <2> QED BY <2>2, <2>3, BrowseParts, BrowsePartsNext
<1>3. CASE Home[d] # "upnp"
  <2>1. UNCHANGED browseVars
    BY <1>3 DEF ScanEnds
  <2>2. Browsing' = Browsing
    BY <1>1, <1>3 DEF Browsing
  <2> QED BY <2>1, <2>2, WalkStays
<1> QED BY <1>2, <1>3

LEMMA CallsNext ==
    ASSUME BrowseType, BrowseInv, Browse \/ ServerTrouble PROVE BrowseInv'
<1>1. Browsing' = Browsing /\ browse # <<>>
  BY DEF Browse, ServerTrouble, BrowseStep, BrowseTrouble, Dive, Deliver,
         BrowseChunk, BrowseFails, Shrink, Browsing
<1>2. Browsing # {} /\ IsTree(content) /\ \A d, e \in Browsing : d = e
  BY <1>1, BrowseParts DEF AtRest
<1>3. SUFFICES IsTree(content') /\ Walked'
  BY <1>1, <1>2, BrowsePartsNext
<1>4. CASE Dive \/ Deliver \/ BrowseChunk
  <2>1. content' = content /\ (spoiled => spoiled')
    <3>1. CASE Dive \/ Deliver
      BY <3>1 DEF Dive, Deliver
    <3>2. CASE BrowseChunk
      <4>1. content' = content /\ \E n, most : spoiled' = (spoiled \/ (Top.count = 0 /\ n < most))
        BY <3>2 DEF BrowseChunk
      <4> QED BY <4>1
    <3> QED BY <1>4, <3>1, <3>2
  <2>2. ASSUME ~spoiled' PROVE \E W \in SUBSET Objects : WalkOK(W)'
    <3>1. PICK V \in SUBSET Objects : WalkOK(V)
      BY <1>2, <2>1, <2>2, BrowseParts DEF Walked
    <3> QED BY <1>2, <1>4, <2>2, <3>1, WalkNext
  <2> QED BY <1>2, <2>1, <2>2 DEF Walked
<1>5. CASE BrowseFails
  BY <1>2, <1>5 DEF BrowseFails, Walked
<1>6. ASSUME NEW o \in Objects, Shrink(o) PROVE IsTree(content') /\ Walked'
  BY <1>2, <1>6, TreeKept DEF Shrink, Walked
<1> QED BY <1>4, <1>5, <1>6 DEF Browse, ServerTrouble, BrowseStep, BrowseTrouble

LEMMA BrowseKept ==
    ASSUME Base, BrowseInv, [Next]_vars PROVE BrowseInv'
<1>1. BrowseType
  BY DEF Base, Typed, TypeOK
<1>2. CASE \E d \in Devices : ScanStarts(d) \/ ScanEnds(d)
  BY <1>1, <1>2, ScanStartsNext, ScanEndsNext
<1>3. CASE Browse \/ ServerTrouble
  BY <1>1, <1>3, CallsNext
<1>4. CASE Crash
  <2>1. Browsing' = {} /\ AtRest' /\ content' = content
    BY <1>4 DEF Crash, Browsing, AtRest
  <2> QED BY <2>1, BrowseParts, BrowsePartsNext
<1>5. CASE UNCHANGED <<walking, browseVars>>
  BY <1>5, WalkStays DEF Browsing
<1>6. ASSUME NEW t \in Threads, Thread(t) PROVE walking' = walking
  <2>1. CASE Plugging(t) \/ Observing(t)
    BY <2>1 DEF Plugging, Add, Refresh, Modify, Remove, Inject, Check,
                CheckDevices, RemoveAll, Observing, RecordState, MergePut,
                IndexState, MarkRows, AskScan, PushRequest, Others
  <2>2. CASE Detecting(t) \/ GetDeviceMeta
    BY <2>2 DEF Detecting, Observe, Ignore, Forget, Run, Halt, SetDetect, Find,
                Await, SetEnable, Erase, RequestMeta, GetDeviceMeta, Others
  <2> QED BY <1>6, <2>1, <2>2 DEF Thread
<1>7. CASE \E t \in Threads : Thread(t)
  BY <1>5, <1>6, <1>7, BrowseOfThread
<1>8. CASE \/ DbConnected \/ BusMethod \/ PdmMessage \/ PollRound
           \/ \E p \in Plugins : SettingsFound(p)
           \/ \E t \in Pool : SearchTimeout(t)
           \/ \E t \in Pool, d \in Of("upnp") : Event(t, d)
  <2>1. UNCHANGED <<walking, browseVars>>
    BY <1>8 DEF DbConnected, BusMethod, PdmMessage, PollRound, SettingsFound,
                SearchTimeout, Event, ServiceFound, ServiceLost, Others
  <2> QED BY <1>5, <2>1
<1>9. CASE Change \/ Swap \/ UNCHANGED vars
  BY <1>5, <1>9 DEF Change, Swap, vars
<1> QED BY <1>2, <1>3, <1>4, <1>7, <1>8, <1>9 DEF Next

LEMMA BrowseStart == ASSUME Init PROVE BrowseInv
<1>1. Browsing = {} /\ AtRest
  BY DEF Init, Browsing, BrowseInit, AtRest
<1>2. IsTree(content)
  BY WorldsAssumption DEF Init, BrowseInit
<1> QED BY <1>1, <1>2, BrowseParts

\* What a walk has to do and has done fits the server's content, whatever its
\* answers are.
LEMMA WalksSafe == Spec => []BrowseInv
<1>1. Init => BrowseInv
  BY BrowseStart
<1>2. Sound /\ BrowseInv /\ [Next]_vars => BrowseInv'
  BY BrowseKept DEF Sound
<1> QED BY <1>1, <1>2, AlwaysSound, PTL DEF Spec

\* A walk over any tree, over a server that answers with as much as it wants,
\* has in the end delivered every item below the containers it follows once,
\* and nothing else, unless the server failed or shrank (upnp.cpp:453, :554).
THEOREM ItemsComeOnce == Spec => []EachItemOnce
<1>1. ASSUME Sound, BrowseInv PROVE EachItemOnce
  <2>1. SUFFICES ASSUME NEW d \in walking \cap Of("upnp"), browse = <<>>, ~spoiled
                 PROVE  delivered = [o \in Objects |-> IF o \in Reached THEN 1 ELSE 0]
    BY DEF EachItemOnce
  <2>2. d \in Browsing
    BY <2>1 DEF Of, Browsing
  <2>3. PICK V \in SUBSET Objects : WalkOK(V)
    BY <1>1, <2>1, <2>2, BrowseParts DEF Walked
  <2>4. Stacked = {}
    BY <2>1 DEF Stacked
  <2>5. Due("dive") = {} /\ Due("item") = {} /\ \A o, k : ~Ahead(o, k)
    BY <2>4 DEF Due, Ahead
  <2>6. content \in [Objects -> Seq(Objects)] /\ delivered \in [Objects -> 0 .. 2]
    BY <1>1 DEF Sound, Base, Typed, TypeOK, BrowseType, MaxDelivered
  <2>7. \A p \in V : Kids(p) \subseteq Objects
    <3>1. ASSUME NEW p \in V PROVE Kids(p) \subseteq Objects
      <4>1. content[p] \in Seq(Objects)
        BY <2>6
      <4> QED BY <4>1, LenProperties DEF Kids
    <3> QED BY <3>1
  <2>8. Seen(V) = UNION {Kids(p) : p \in V}
    BY <2>5, <2>7 DEF Seen, Kids
  <2>9. /\ Root \in V /\ V \subseteq Inside
        /\ Followed \cap Seen(V) = V \ {Root} /\ Playable \cap Seen(V) = Done
        /\ \A o \in Objects : delivered[o] \in {0, 1}
    BY <2>3, <2>5 DEF WalkOK
  <2>10. \A p \in V : Followed \cap Kids(p) \subseteq V
    BY <2>8, <2>9
  <2>11. Inside \subseteq V
    BY <2>9, <2>10 DEF Inside
  <2>12. Reached = Done
    BY <2>8, <2>9, <2>11 DEF Reached
  <2>13. \A o \in Objects : delivered[o] = IF o \in Reached THEN 1 ELSE 0
    BY <2>9, <2>12 DEF Done
  <2> QED BY <2>6, <2>13
<1> QED BY <1>1, AlwaysSound, WalksSafe, PTL

=============================================================================
