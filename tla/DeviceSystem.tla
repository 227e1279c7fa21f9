---------------------------- MODULE DeviceSystem ----------------------------
(***************************************************************************)
(* How devices come and go: MediaIndexer with its plugins, each plugin     *)
(* with its devices and its two observers (DeviceDb and MediaIndexer), and *)
(* the sources that report devices: PdmListener for "msc" and "mtp",       *)
(* configured paths for "storage", a polling thread for "mtp" when there   *)
(* is no PDM, and UPnP discovery with its thread pool for "upnp".          *)
(*                                                                         *)
(* A thread is the sequence of the calls it still has to make; a step      *)
(* makes the first one, which may put calls in front of the rest.  A       *)
(* handler starts when its thread has nothing left to do.  Threads:        *)
(*   "main"   the main loop: bus methods, PDM messages, SettingsDb         *)
(*   "db"     the reply thread of DeviceDb's connector                     *)
(*   "poll"   Mtp::pollWork                                                *)
(*   "meta"   the detached threads of Upnp::getDeviceMeta                  *)
(*   Pool     libupnp's callback threads                                   *)
(* The scan threads of the devices are the flags "asked" and walking.      *)
(***************************************************************************)
EXTENDS DeviceRecord, UpnpBrowse

Sq == INSTANCE SequencesExt

CONSTANTS
    Devices, Home,    \* devices and the plugin that each belongs to
    Places,           \* where each of them may be: mount points, a url, a path
    Worlds,           \* what a behaviour may start from, see below
    Pool,             \* libupnp's threads
    UpnpAlive         \* searches that a server may miss, 4 in the code

Plugins == {"msc", "storage", "mtp", "upnp"}
Observers == {"DeviceDb", "MediaIndexer"}
Threads == {"main", "db", "poll", "meta"} \cup Pool

(***************************************************************************)
(* A world: the plugins compiled in, and "pdm" for HAS_PDM; what goes      *)
(* wrong ("late" and "find": the answer to a query, "nolist": the list in  *)
(* a PDM message, "skip": PdmListener's loop, "download" and "open": a     *)
(* device's description, "crash", "restart" of a UPnP server); what an     *)
(* earlier run has left in the databases; what is there from the start;    *)
(* whether a UPnP device has the content directory, and the content, a     *)
(* tree; and how often what is attached changes, and bus methods are       *)
(* called.  A world without searches is one in which no search for UPnP    *)
(* servers ends in time to matter.                                         *)
(***************************************************************************)
ASSUME WorldsAssumption ==
    \A w \in Worlds :
        /\ w.build \subseteq Plugins \cup {"pdm"}
        /\ w.faults \subseteq {"late", "find", "nolist", "skip", "download",
                              "open", "crash", "restart"}
        /\ w.there \subseteq Devices
        /\ w.past \subseteq {"devices", "settings"}
        /\ w.serves \in BOOLEAN /\ w.searches \in BOOLEAN
        /\ w.changes \in Nat /\ w.calls \in Nat
        /\ w.content \in [Objects -> Seq(Objects)] /\ IsTree(w.content)
ASSUME HomeAssumption == Home \in [Devices -> Plugins]
ASSUME UpnpAliveAssumption == UpnpAlive \in 1 .. 4
ASSUME FiniteAssumption == IsFiniteSet(Devices) /\ IsFiniteSet(Mounts)
ASSUME PoolAssumption == Pool \cap {"main", "db", "poll", "meta"} = {}
ASSUME PlacesAssumption == Places \in [Devices -> (SUBSET Mounts) \ {{}}]

\* The path of a storage device, from STORAGE_DEVS, and where other devices
\* are in the beginning, one in a place.
PathOf(d) == CHOOSE m \in Places[d] : TRUE
ASSUME ThereAssumption ==
    \A w \in Worlds :
        \A d, e \in {o \in Devices : Home[o] = "storage" \/ o \in w.there} :
            PathOf(d) = PathOf(e) => d = e

VARIABLES
    world,       \* the world this behaviour is in
    up,          \* the database has been seen connected since the start
    plugins,     \* MediaIndexer::plugins_
    observers,   \* Plugin::deviceObservers_
    running,     \* plugins whose device detection runs
    dev,         \* the Device objects of the plugins
    walking,     \* devices whose scan thread is inside Plugin::scan
    stack,       \* calls each thread has to make
    record,      \* DeviceDb: "none", "here" or "gone"
    rows,        \* MediaDb rows of a device: "none", "clean" or "dirty"
    settings,    \* SettingsDb: "none", "on" or "off"
    finds,       \* plugins whose settings have been asked for
    mounted,     \* PdmListener::deviceMap_, a device for a mount point
    inbox,       \* PDM messages not handled yet
    subscribed,  \* PdmListener called subscribe()
    blacklist,   \* Upnp::blacklist_
    byebyes,     \* byebye advertisements on the network
    attached,    \* external: where a device really is
    changes, calls,   \* how many there were, for the bounds
    excused,     \* history: devices lost by a gap in PdmListener
    stale        \* history: devices whose "rows" or "record" were last
                 \* written from a state that had changed in between

core == <<up, plugins, observers, running, dev, stack>>
dbs == <<record, rows, settings, finds>>
pdm == <<mounted, inbox, subscribed>>
upnp == <<blacklist, byebyes>>
env == <<world, attached, changes, calls>>
history == <<excused, stale>>
vars == <<core, walking, dbs, pdm, upnp, env, history, browseVars>>

build == world.build
Factory == build \ {"pdm"}
Faults == world.faults
Present == {d \in Devices : Home[d] \in Factory}
Of(p) == {d \in Present : Home[d] = p}
Known(p) == {d \in Of(p) : dev[d].known}
OnPdm == IF "pdm" \in build THEN {"msc", "mtp"} ELSE {}
Polled == IF "pdm" \in build THEN {} ELSE {"mtp"}
Lives(d) == IF Home[d] = "upnp" THEN UpnpAlive
            ELSE IF Home[d] \in Polled THEN 2 ELSE -1

(***************************************************************************)
(* Calls.  A call names what is done, to which device or plugin, and with  *)
(* what; observers are called in the order in which they registered, which *)
(* is DeviceDb first.                                                      *)
(***************************************************************************)
Call(op, on, with) == [op |-> op, on |-> on, with |-> with]
Each(S, op, with) == LET s == Sq!SetToSeq(S)
                     IN  [i \in DOMAIN s |-> Call(op, s[i], with)]

\* notifyObserversStateChange.
Tell(d, who) ==
    (IF "DeviceDb" \in who THEN <<Call("record", d, "")>> ELSE <<>>)
    \o (IF "MediaIndexer" \in who THEN <<Call("index", d, "")>> ELSE <<>>)

Idle(t) == stack[t] = <<>>
Next1(t) == Head(stack[t])
Doing(t, op) == ~Idle(t) /\ Next1(t).op = op
Then(t, more) == stack' = [stack EXCEPT ![t] = more \o Tail(@)]
Begin(t, more) == Idle(t) /\ stack' = [stack EXCEPT ![t] = more]

\* The name of a device is new when the device is, and the icon of a UPnP
\* server is lost whenever it is not available.
Named(d) == IF dev[d].known /\ (Home[d] # "upnp" \/ dev[d].avail) THEN <<>>
            ELSE <<Call("modify", d, "")>>

\* The thread's call makes s of device d and tells d's observers of it; more
\* is what the thread does after that.
BecomeAnd(t, d, s, more) ==
    /\ dev' = [dev EXCEPT ![d] = s]
    /\ Then(t, (IF Changed(dev[d], s) THEN Tell(d, observers[Home[d]])
                ELSE <<>>) \o more)
Become(t, d, s) == BecomeAnd(t, d, s, <<>>)

----------------------------------------------------------------------------
(***************************************************************************)
(* Plugin: the devices.                                                    *)
(***************************************************************************)
Others == <<up, plugins, observers, running, walking, dbs, pdm, upnp, env,
            history, browseVars>>

Add(t) ==
    /\ Doing(t, "add")
    /\ LET d == Next1(t).on IN
         BecomeAnd(t, d, Added(dev[d], Next1(t).with, Lives(d)), Named(d))
    /\ UNCHANGED Others

Refresh(t) ==
    /\ Doing(t, "refresh")
    /\ LET d == Next1(t).on IN
         BecomeAnd(t, d, Refreshed(dev[d], Lives(d)),
                   IF Home[d] = "mtp" THEN Named(d) ELSE <<>>)
    /\ UNCHANGED Others

\* modifyDevice: of the observers only DeviceDb writes something down.
Modify(t) ==
    /\ Doing(t, "modify")
    /\ LET d == Next1(t).on IN
         Then(t, Tell(d, observers[Home[d]] \ {"MediaIndexer"}))
    /\ UNCHANGED <<dev, Others>>

Remove(t) ==
    /\ Doing(t, "remove")
    /\ LET d == Next1(t).on IN Become(t, d, Removed(dev[d]))
    /\ UNCHANGED Others

Inject(t) ==
    /\ Doing(t, "injectDevice")
    /\ LET d == Next1(t).on IN
         Become(t, d, Injected(dev[d], Lives(d)))
    /\ UNCHANGED Others

\* checkDevices: one step of the loop for each device of the plugin.
Check(t) ==
    /\ Doing(t, "check")
    /\ LET d == Next1(t).on IN Become(t, d, Checked(dev[d]))
    /\ UNCHANGED Others

\* The loops over devices_: checkDevices and removeAll.
CheckDevices(t) ==
    /\ Doing(t, "checkDevices")
    /\ Then(t, Each(Known(Next1(t).on), "check", ""))
    /\ UNCHANGED <<dev, Others>>

RemoveAll(t) ==
    /\ Doing(t, "removeAll")
    /\ Then(t, Each(Known(Next1(t).on), "remove", ""))
    /\ UNCHANGED <<dev, Others>>

----------------------------------------------------------------------------
(***************************************************************************)
(* The observers.  Each reads the device's availability and acts on it     *)
(* later: DeviceDb sends a mergePut, MediaIndexer updates the rows, and    *)
(* asks for a scan if the device is there.                                 *)
(***************************************************************************)
Written(d, what, right) ==
    stale' = IF right THEN stale \ {<<d, what>>} ELSE stale \cup {<<d, what>>}

RecordState(t) ==
    /\ Doing(t, "record")
    /\ LET d == Next1(t).on IN
         Then(t, <<Call("mergePut", d, IF dev[d].avail THEN "here"
                                       ELSE "gone")>>)
    /\ UNCHANGED <<dev, Others>>

MergePut(t) ==
    /\ Doing(t, "mergePut")
    /\ LET d == Next1(t).on IN
         /\ record' = [record EXCEPT ![d] = Next1(t).with]
         /\ Written(d, "record", (Next1(t).with = "here") <=> dev[d].avail)
    /\ Then(t, <<>>)
    /\ UNCHANGED <<up, plugins, observers, running, dev, walking, rows,
                   settings, finds, pdm, upnp, env, excused, browseVars>>

\* Mistakes: rows are only unmarked; no scan is asked for.
IndexUnmarks(t) ==
    /\ Doing(t, "index")
    /\ LET d == Next1(t).on IN
         Then(t, IF dev[d].avail
                 THEN <<Call("unmarkAllDirty", d, ""), Call("scan", d, "")>>
                 ELSE <<>>)
    /\ UNCHANGED <<dev, Others>>

IndexOnly(t) ==
    /\ Doing(t, "index")
    /\ LET d == Next1(t).on IN
         Then(t, <<Call(IF dev[d].avail THEN "unmarkAllDirty"
                        ELSE "markDirty", d, "")>>)
    /\ UNCHANGED <<dev, Others>>

\* MediaIndexer::deviceStateChanged
IndexState(t) ==
    /\ Doing(t, "index")
    /\ LET d == Next1(t).on IN
         Then(t, IF dev[d].avail
                 THEN <<Call("unmarkAllDirty", d, ""), Call("scan", d, "")>>
                 ELSE <<Call("markDirty", d, "")>>)
    /\ UNCHANGED <<dev, Others>>

MarkRows(t) ==
    /\ Doing(t, "unmarkAllDirty") \/ Doing(t, "markDirty")
    /\ LET d == Next1(t).on
           flag == IF Next1(t).op = "markDirty" THEN "dirty" ELSE "clean"
       IN  /\ rows' = [rows EXCEPT ![d] = IF @ = "none" THEN @ ELSE flag]
           /\ Written(d, "rows", (flag = "clean") <=> dev[d].avail)
    /\ Then(t, <<>>)
    /\ UNCHANGED <<up, plugins, observers, running, dev, walking, record,
                   settings, finds, pdm, upnp, env, excused, browseVars>>

\* Device::scan asks whether the device is available, and then waits for the
\* mutex_ that a walk under way holds.
AskScan(t) ==
    /\ Doing(t, "scan")
    /\ LET d == Next1(t).on IN
         Then(t, IF dev[d].avail THEN <<Call("push", d, "")>> ELSE <<>>)
    /\ UNCHANGED <<dev, Others>>

PushRequest(t) ==
    /\ Doing(t, "push") /\ Next1(t).on \notin walking
    /\ LET d == Next1(t).on IN dev' = [dev EXCEPT ![d] = Asked(@)]
    /\ Then(t, <<>>)
    /\ UNCHANGED Others

(***************************************************************************)
(* The scan thread: it takes the request whether or not the device is      *)
(* still available.  Without a mount point nothing is walked; a walk finds *)
(* what is mounted there by then, whose ever it is.  Where nothing is      *)
(* mounted any more it finds nothing, and with a cache file it asks to     *)
(* delete all that the cache lists.                                        *)
(***************************************************************************)
Walkable(d) == Home[d] \in Polled \cup {"upnp"} \/ dev[d].mount # NoMount
Reachable(d) ==
    /\ attached[d] # NoMount
    /\ Home[d] \in Polled \/ attached[d] = dev[d].mount

\* Bound: one server is browsed at a time.
Browsing == {d \in walking : Home[d] = "upnp"}

ScanStarts(d) ==
    /\ dev[d].asked /\ dev[d].loop /\ d \notin walking
    /\ walking' = walking \cup {d}
    /\ IF Home[d] = "upnp" THEN Browsing = {} /\ StartBrowse
       ELSE UNCHANGED browseVars
    /\ UNCHANGED <<core, dbs, pdm, upnp, env, history>>

ScanEnds(d) ==
    /\ d \in walking
    /\ IF Home[d] = "upnp" THEN EndBrowse ELSE UNCHANGED browseVars
    /\ walking' = walking \ {d}
    /\ dev' = [dev EXCEPT ![d].asked = FALSE]
    /\ rows' = [rows EXCEPT ![d] =
                  IF ~Walkable(d) THEN @
                  ELSE IF \/ Home[d] \in Polled
                          \/ \E e \in Present : attached[e] = dev[d].mount
                       THEN "clean"
                  ELSE IF dev[d].new \/ Home[d] = "upnp" THEN @ ELSE "none"]
    /\ LET whole == Home[d] # "upnp" \/ ~spoiled
       IN  Written(d, "rows", dev[d].avail /\ Reachable(d) /\ whole)
    /\ UNCHANGED <<up, plugins, observers, running, stack, record, settings,
                   finds, pdm, upnp, env, excused>>

Browse == BrowseStep(\E d \in walking : Reachable(d))
          /\ UNCHANGED <<core, walking, dbs, pdm, upnp, env, history>>
ServerTrouble == BrowseTrouble
          /\ UNCHANGED <<core, walking, dbs, pdm, upnp, env, history>>

----------------------------------------------------------------------------
(***************************************************************************)
(* Plugin: the observers.                                                  *)
(***************************************************************************)
Observe(t) ==
    /\ Doing(t, "observe")
    /\ LET p == Next1(t).on
           o == Next1(t).with
           now == observers[p] \cup {o}
           first == o \notin observers[p] /\ observers[p] = {}
           tell == IF o = "DeviceDb" THEN "record" ELSE "index"
       IN  /\ observers' = [observers EXCEPT ![p] = now]
           /\ Then(t, Each(Known(p), tell, "")
                      \o (IF first THEN <<Call("run", p, "")>> ELSE <<>>))
    /\ UNCHANGED <<up, plugins, running, dev, walking, dbs, pdm, upnp, env,
                   history, browseVars>>

\* Mistake: the count is taken as it is after the observer has gone.
IgnoreLate(t) ==
    /\ Doing(t, "ignore")
    /\ LET p == Next1(t).on IN
         Then(t, (IF observers[p] = {}
                  THEN <<Call("halt", p, ""), Call("removeAll", p, "")>>
                  ELSE <<>>)
                 \o <<Call("forget", p, Next1(t).with)>>)
    /\ UNCHANGED <<dev, Others>>

\* removeObserver: detection stops when one observer is left, whichever one
\* it is; the observer is told of the devices that go with it.
Ignore(t) ==
    /\ Doing(t, "ignore")
    /\ LET p == Next1(t).on IN
         Then(t, (IF Cardinality(observers[p]) = 1
                  THEN <<Call("halt", p, ""), Call("removeAll", p, "")>>
                  ELSE <<>>)
                 \o <<Call("forget", p, Next1(t).with)>>)
    /\ UNCHANGED <<dev, Others>>

Forget(t) ==
    /\ Doing(t, "forget")
    /\ observers' = [observers EXCEPT ![Next1(t).on] = @ \ {Next1(t).with}]
    /\ Then(t, <<>>)
    /\ UNCHANGED <<up, plugins, running, dev, walking, dbs, pdm, upnp, env,
                   history, browseVars>>

----------------------------------------------------------------------------
(***************************************************************************)
(* runDeviceDetection of the four plugins.                                 *)
(***************************************************************************)
Snapshot(place, list) ==
    [list |-> list, at |-> [d \in Devices |->
        IF Home[d] \in OnPdm /\ d \in Present THEN place[d] ELSE NoMount]]


\* PdmListener::setDeviceNotifications: the devices it knows of are pushed
\* to the new observer, and the very first one subscribes to the service.
MountsOf(p) ==
    {m \in DOMAIN mounted : Home[mounted[m]] = p}

Run(t) ==
    /\ Doing(t, "run")
    /\ LET p == Next1(t).on
           m == Sq!SetToSeq(MountsOf(p))
       IN  /\ running' = running \cup {p}
           /\ Then(t,
                IF p \in OnPdm
                THEN [i \in DOMAIN m |-> Call("add", mounted[m[i]], m[i])]
                ELSE IF p = "storage"
                THEN LET s == Sq!SetToSeq(Of(p)) IN
                     [i \in DOMAIN s |-> Call("add", s[i], PathOf(s[i]))]
                ELSE <<>>)
           /\ IF p \in OnPdm /\ ~subscribed
              THEN /\ subscribed' = TRUE
                   /\ inbox' = Append(inbox, Snapshot(attached, TRUE))
              ELSE UNCHANGED <<subscribed, inbox>>
    /\ UNCHANGED <<up, plugins, observers, dev, walking, dbs, mounted, upnp,
                   env, history, browseVars>>

\* The poller is joined: the round it is in comes to its end first.
Halt(t) ==
    /\ Doing(t, "halt")
    /\ Next1(t).on \in Polled => Idle("poll")
    /\ running' = running \ {Next1(t).on}
    /\ Then(t, IF Next1(t).on = "storage"
               THEN Each(Of("storage"), "remove", "") ELSE <<>>)
    /\ UNCHANGED <<up, plugins, observers, dev, walking, dbs, pdm, upnp, env,
                   history, browseVars>>

----------------------------------------------------------------------------
(***************************************************************************)
(* MediaIndexer.                                                           *)
(***************************************************************************)
Detect(on, p) == Call("setDetect", p, on)

SetDetect(t) ==
    /\ Doing(t, "setDetect")
    /\ LET p == Next1(t).on IN
         Then(t, IF p \notin plugins THEN <<>>
                 ELSE IF Next1(t).with = "on"
                 THEN <<Call("observe", p, "DeviceDb"),
                        Call("find", p, ""), Call("await", p, ""),
                        Call("setEnable", p, "on"),
                        Call("observe", p, "MediaIndexer")>>
                 ELSE <<Call("ignore", p, "DeviceDb"),
                        Call("setEnable", p, "off"),
                        Call("ignore", p, "MediaIndexer")>>)
    /\ UNCHANGED <<dev, Others>>

\* injectKnownDevices: the answer is handled on the connector's thread ...
Find(t) ==
    /\ Doing(t, "find")
    /\ \E found \in {TRUE} \cup (IF "find" \in Faults THEN {FALSE} ELSE {}) :
         LET old == {d \in Of(Next1(t).on) : found /\ record[d] # "none"} IN
         stack' = [stack EXCEPT ![t] = Tail(@),
                                !["db"] = @ \o Each(old, "injectDevice", "")]
    /\ UNCHANGED <<dev, Others>>

\* ... while the caller waits for it, for five seconds at most.
Await(t) ==
    /\ Doing(t, "await")
    /\ Idle("db") \/ "late" \in Faults
    /\ Then(t, <<>>)
    /\ UNCHANGED <<dev, Others>>

SetEnable(t) ==
    /\ Doing(t, "setEnable")
    /\ settings' = [settings EXCEPT ![Next1(t).on] = Next1(t).with]
    /\ Then(t, <<>>)
    /\ UNCHANGED <<up, plugins, observers, running, dev, walking, record,
                   rows, finds, pdm, upnp, env, history, browseVars>>

Erase(t) ==
    /\ Doing(t, "erase")
    /\ plugins' = plugins \ {Next1(t).on}
    /\ Then(t, <<>>)
    /\ UNCHANGED <<up, observers, running, dev, walking, dbs, pdm, upnp, env,
                   history, browseVars>>

\* addPlugin for the plugins that are always there ...
AddPlugins == plugins' = plugins \cup (build \cap {"msc", "storage"})

\* ... and setDetect for all, when the database is connected.
DbInitialized == AddPlugins /\ Begin("main", Each(plugins', "setDetect", "on"))

\* The status of the database comes once, and maybe again.
DbConnected ==
    /\ up' = TRUE
    /\ up => calls < world.calls
    /\ calls' = IF up THEN calls + 1 ELSE calls
    /\ DbInitialized
    /\ UNCHANGED <<observers, running, dev, walking, dbs, pdm, upnp, world,
                   attached, changes, history, browseVars>>

\* MediaIndexer::get for the plugins in P; new ones ask for their settings.
Get(P) ==
    /\ plugins' = plugins \cup P
    /\ finds' = finds \cup (P \ plugins)
    /\ UNCHANGED <<stack, observers, running>>

Put(p) ==
    /\ Begin("main", IF p \in plugins
                     THEN <<Call("ignore", p, "MediaIndexer"),
                            Call("ignore", p, "DeviceDb"),
                            Call("erase", p, "")>>
                     ELSE <<>>)
    /\ UNCHANGED <<plugins, observers, running, finds>>

\* The bus methods getPlugin and putPlugin; getPlugin without a uri takes all.
PluginPutGet == Get(Factory) \/ \E p \in Factory : Get({p}) \/ Put(p)

\* The bus methods runDetect and stopDetect.
DetectRunStop ==
    \E on \in {"on", "off"} :
        /\ \/ Begin("main", Each(plugins, "setDetect", on))
           \/ \E p \in Factory : Begin("main", <<Detect(on, p)>>)
        /\ UNCHANGED <<plugins, observers, running, finds>>

BusMethod ==
    /\ calls < world.calls /\ calls' = calls + 1
    /\ Idle("main") /\ up
    /\ PluginPutGet \/ DetectRunStop
    /\ UNCHANGED <<up, dev, walking, record, rows, settings, pdm, upnp, world,
                   attached, changes, history, browseVars>>

\* SettingsDb::handleLunaResponse runs on the main loop.
SettingsFound(p) ==
    /\ p \in finds /\ finds' = finds \ {p}
    /\ Begin("main", IF settings[p] = "none" THEN <<>>
                     ELSE <<Detect(settings[p], p)>>)
    /\ UNCHANGED <<up, plugins, observers, running, dev, walking, record,
                   rows, settings, pdm, upnp, env, history, browseVars>>

----------------------------------------------------------------------------
(***************************************************************************)
(* PdmListener::onDeviceNotification.  New mount points are added before   *)
(* the ones that are gone are removed; a known mount point keeps the       *)
(* device it was added with.                                               *)
(***************************************************************************)
Listed(at) == {d \in Devices : at[d] # NoMount}

\* checkDevice: the drives of the list whose mount point is not in the map.
NewlyMounted(at) == {d \in Listed(at) : at[d] \notin DOMAIN mounted}

\* The marks of PdmDevice: mount points that this list did not clear.
Dirty(at) == DOMAIN mounted \ {at[d] : d \in Listed(at)}

\* pdmUpdate of the plugins that have registered.
PdmUpdates(adds, at, drops) ==
    LET s == Sq!SetToSeq({d \in adds : Home[d] \in running}) IN
    [i \in DOMAIN s |-> Call("add", s[i], at[s[i]])]
    \o Each({d \in drops : Home[d] \in running}, "remove", "")

\* cleanupDevices erases from the map while it iterates over it, so that
\* some of the entries may be skipped.
Cleaned(lapsed) ==
    {gone \in SUBSET lapsed :
        gone = lapsed \/ ("skip" \in Faults /\ gone # {})}

\* History: the drives at issue are known where they are, or else lost.
Excused(at, gone) ==
    LET leaving == {mounted[m] : m \in gone}
        swapped == {d \in Listed(at) \ NewlyMounted(at) : mounted[at[d]] # d}
    IN  (excused \ (NewlyMounted(at) \cup leaving))
        \cup (Listed(at) \cap leaving)
        \cup {mounted[m] : m \in Dirty(at) \ gone}
        \cup swapped \cup {mounted[at[d]] : d \in swapped}

PdmMessage ==
    /\ inbox # <<>> /\ inbox' = Tail(inbox)
    /\ LET at == Head(inbox).at
           fresh == NewlyMounted(at)
           places == DOMAIN mounted \cup {at[d] : d \in fresh}
       IN
       IF Head(inbox).list THEN
         \E gone \in Cleaned(Dirty(at)) :
           /\ mounted' = [m \in places \ gone |->
                            IF m \in DOMAIN mounted THEN mounted[m]
                            ELSE CHOOSE d \in fresh : at[d] = m]
           /\ Begin("main", PdmUpdates(fresh, at, {mounted[m] : m \in gone}))
           /\ excused' = Excused(at, gone)
       ELSE
         /\ mounted' = [m \in {} |-> NoMount]
         /\ excused' = excused \cup {mounted[m] : m \in DOMAIN mounted}
         /\ Begin("main", <<>>)
    /\ UNCHANGED <<up, plugins, observers, running, dev, walking, dbs,
                   subscribed, upnp, env, stale, browseVars>>

----------------------------------------------------------------------------
(***************************************************************************)
(* UPnP discovery and MTP polling.                                         *)
(***************************************************************************)
\* serviceFound: requestMeta is decided before the device is refreshed.
ServiceFound(t, d) ==
    /\ "upnp" \in running /\ attached[d] # NoMount
    /\ Idle("meta")
    /\ Begin(t, IF d \in blacklist THEN <<>>
                ELSE (IF dev[d].known THEN <<Call("refresh", d, "")>>
                      ELSE <<>>)
                     \o (IF dev[d].avail THEN <<>>
                         ELSE <<Call("request", d, "")>>))
    /\ UNCHANGED <<dev, Others>>

\* Bound: one description is downloaded at a time.
RequestMeta(t) ==
    /\ Doing(t, "request") /\ Idle("meta")
    /\ stack' = [stack EXCEPT ![t] = Tail(@),
                              !["meta"] = <<Call("getDeviceMeta",
                                                 Next1(t).on, "")>>]
    /\ UNCHANGED <<dev, Others>>

GetDeviceMeta ==
    /\ Doing("meta", "getDeviceMeta")
    /\ LET d == Next1("meta").on IN
         \/ /\ attached[d] = NoMount \/ "download" \in Faults
            /\ Then("meta", <<>>)
            /\ UNCHANGED blacklist
         \/ /\ attached[d] # NoMount
            /\ Then("meta", IF world.serves
                            THEN <<Call("add", d, attached[d])>> ELSE <<>>)
            /\ blacklist' = IF world.serves THEN blacklist
                            ELSE blacklist \cup {d}
    /\ UNCHANGED <<up, plugins, observers, running, dev, walking, dbs, pdm,
                   byebyes, env, history, browseVars>>

\* A byebye may come late, or get lost on the way.
ServiceLost(t, d) ==
    /\ "upnp" \in running /\ d \in byebyes
    /\ byebyes' = byebyes \ {d}
    /\ Begin(t, <<Call("remove", d, "")>>) \/ UNCHANGED stack
    /\ UNCHANGED <<up, plugins, observers, running, dev, walking, dbs, pdm,
                   blacklist, env, history, browseVars>>

SearchTimeout(t) ==
    /\ "upnp" \in running /\ world.searches
    /\ Known("upnp") # {}
    /\ Begin(t, <<Call("checkDevices", "upnp", "")>>)
    /\ UNCHANGED <<dev, Others>>

\* A round of pollWork; a device that cannot be opened is left out of it.
PollRound ==
    /\ "mtp" \in running \cap Polled
    /\ LET players == {d \in Of("mtp") : attached[d] # NoMount} IN
       \E seen \in IF "open" \in Faults THEN SUBSET players ELSE {players} :
         Begin("poll", Each(seen, "refresh", "")
                       \o <<Call("checkDevices", "mtp", "")>>)
    /\ UNCHANGED <<dev, Others>>

----------------------------------------------------------------------------
(***************************************************************************)
(* The environment.                                                        *)
(***************************************************************************)
\* Devices are attached, detached and moved, UPnP servers restarted as well;
\* PDM tells of the new state in one message, and an empty list may be left
\* out of it.
Change ==
    /\ changes < world.changes /\ changes' = changes + 1
    /\ \E d \in Present : \E m \in Places[d] \cup {NoMount} :
         /\ Home[d] # "storage"
         /\ m = attached[d] => "restart" \in Faults /\ m # NoMount
         /\ m # NoMount => \A e \in Devices \ {d} : attached[e] # m
         /\ attached' = [attached EXCEPT ![d] = m]
         /\ byebyes' = IF Home[d] = "upnp" /\ attached[d] # NoMount
                       THEN byebyes \cup {d} ELSE byebyes
         /\ IF Home[d] \in OnPdm /\ subscribed
            THEN \E list \in {TRUE} \cup
                     (IF "nolist" \in Faults THEN {FALSE} ELSE {}) :
                   /\ ~list => \A e \in Devices :
                                 attached'[e] = NoMount \/ Home[e] \notin OnPdm
                   /\ inbox' = Append(inbox, Snapshot(attached', list))
            ELSE UNCHANGED inbox
    /\ UNCHANGED <<core, walking, dbs, mounted, subscribed, blacklist, world,
                   calls, history, browseVars>>

\* Two changes that PDM reports in one message: with d goes e, or e takes
\* the place of d.
Swap ==
    /\ changes < world.changes /\ changes' = changes + 1
    /\ \E d, e \in Present :
         /\ {Home[d], Home[e]} \subseteq OnPdm /\ d # e
         /\ attached[d] # NoMount
         /\ IF attached[e] # NoMount
            THEN attached' = [attached EXCEPT ![d] = NoMount, ![e] = NoMount]
            ELSE /\ attached[d] \in Places[e]
                 /\ attached' = [attached EXCEPT ![d] = NoMount,
                                                 ![e] = attached[d]]
    /\ inbox' = IF subscribed THEN Append(inbox, Snapshot(attached', TRUE))
                ELSE inbox
    /\ UNCHANGED <<core, walking, dbs, mounted, subscribed, upnp, world,
                   calls, history, browseVars>>

\* The process dies and is started again: the databases are what is left.
Crash ==
    /\ "crash" \in Faults
    /\ calls < world.calls /\ calls' = calls + 1
    /\ up' = FALSE /\ plugins' = {} /\ running' = {}
    /\ observers' = [p \in Plugins |-> {}]
    /\ dev' = [d \in Devices |-> Unknown]
    /\ walking' = {}
    /\ stack' = [t \in Threads |-> <<>>]
    /\ finds' = {}
    /\ mounted' = [m \in {} |-> NoMount] /\ inbox' = <<>>
    /\ subscribed' = FALSE
    /\ blacklist' = {} /\ byebyes' = {}
    /\ browse' = <<>> /\ spoiled' = FALSE
    /\ delivered' = [o \in Objects |-> 0]
    /\ excused' = {} /\ stale' = {}
    /\ UNCHANGED <<record, rows, settings, world, attached, changes, content,
                   troubles>>

----------------------------------------------------------------------------
Init ==
    /\ world \in Worlds
    /\ up = FALSE /\ plugins = {} /\ running = {}
    /\ observers = [p \in Plugins |-> {}]
    /\ dev = [d \in Devices |-> Unknown]
    /\ walking = {}
    /\ stack = [t \in Threads |-> <<>>]
    /\ record = [d \in Devices |-> IF "devices" \in world.past
                                     /\ d \in Present
                                  THEN "here" ELSE "none"]
    /\ rows = [d \in Devices |-> IF "devices" \in world.past
                                     /\ d \in Present
                                THEN "clean" ELSE "none"]
    /\ settings = [p \in Plugins |-> IF "settings" \in world.past
                                        /\ p \in Factory
                                     THEN "on" ELSE "none"]
    /\ finds = {}
    /\ mounted = [m \in {} |-> NoMount] /\ inbox = <<>> /\ subscribed = FALSE
    /\ blacklist = {} /\ byebyes = {}
    /\ attached = [d \in Devices |->
                     IF Home[d] = "storage" \/ d \in world.there
                     THEN PathOf(d) ELSE NoMount]
    /\ changes = 0 /\ calls = 0
    /\ excused = {} /\ stale = {}
    /\ BrowseInit(world)

Plugging(t) ==
    Add(t) \/ Refresh(t) \/ Modify(t) \/ Remove(t) \/ Inject(t)
    \/ Check(t) \/ CheckDevices(t) \/ RemoveAll(t)
Observing(t) ==
    RecordState(t) \/ MergePut(t) \/ IndexState(t) \/ MarkRows(t)
    \/ AskScan(t) \/ PushRequest(t)
Detecting(t) ==
    Observe(t) \/ Ignore(t) \/ Forget(t) \/ Run(t) \/ Halt(t) \/ SetDetect(t)
    \/ Find(t) \/ Await(t) \/ SetEnable(t) \/ Erase(t) \/ RequestMeta(t)
Thread(t) == Plugging(t) \/ Observing(t) \/ Detecting(t)
             \/ (t = "meta" /\ GetDeviceMeta)
Event(t, d) == ServiceFound(t, d) \/ ServiceLost(t, d)

Next ==
    \/ \E t \in Threads : Thread(t)
    \/ \E d \in Devices : ScanStarts(d) \/ ScanEnds(d)
    \/ Browse \/ ServerTrouble
    \/ DbConnected \/ BusMethod \/ PdmMessage \/ PollRound
    \/ \E p \in Plugins : SettingsFound(p)
    \/ \E t \in Pool : SearchTimeout(t) \/ \E d \in Of("upnp") : Event(t, d)
    \/ Change \/ Swap \/ Crash

Spec == Init /\ [][Next]_vars

(***************************************************************************)
(* Threads run, handlers are called for what has arrived, a search ends    *)
(* and is sent again, and a server that is online is heard again and again *)
(* (libupnp delivers on whichever thread of its pool is free).             *)
(***************************************************************************)
Fairness ==
    /\ \A t \in Threads : WF_vars(~Idle(t) /\ Thread(t))
    /\ WF_vars(\E d \in Devices : ScanStarts(d) \/ ScanEnds(d))
    /\ WF_vars(Browse)
    /\ WF_vars(~up /\ DbConnected) /\ WF_vars(PdmMessage) /\ WF_vars(PollRound)
    /\ WF_vars(\E p \in Plugins : SettingsFound(p))
    /\ SF_vars(\E t \in Pool : SearchTimeout(t))
    /\ \A d \in {e \in Devices : Home[e] = "upnp"} :
           SF_vars(\E t \in Pool : d \in Present /\ ServiceFound(t, d))

FairSpec == Spec /\ Fairness

----------------------------------------------------------------------------
\* Every variable has the values its part of the code can give it; the alive
\* count of a device never falls below -1, however often it is checked.
TypeOK ==
    /\ up \in BOOLEAN /\ subscribed \in BOOLEAN
    /\ plugins \subseteq Plugins /\ running \subseteq Plugins
    /\ finds \subseteq Plugins
    /\ observers \in [Plugins -> SUBSET Observers]
    /\ dev \in [Devices -> Record]
    /\ walking \subseteq Devices
    /\ record \in [Devices -> {"none", "here", "gone"}]
    /\ rows \in [Devices -> {"none", "clean", "dirty"}]
    /\ settings \in [Plugins -> {"none", "on", "off"}]
    /\ DOMAIN mounted \subseteq Mounts
    /\ \A m \in DOMAIN mounted : mounted[m] \in Devices
    /\ blacklist \subseteq Devices /\ byebyes \subseteq Devices
    /\ BrowseType

\* Nothing is under way: no thread has a call left, no message waits, no
\* device is walked or asked to be.
Quiet ==
    /\ \A t \in Threads : Idle(t)
    /\ inbox = <<>> /\ walking = {}
    /\ \A d \in Devices : ~(dev[d].asked /\ dev[d].loop)

\* Between two handlers of the main loop a plugin has both observers or none,
\* and it looks for devices exactly when it has them - whatever sequence of
\* setDetect, putPlugin and settings there was, and although removeObserver
\* decides by the number of observers and not by which one goes.
DetectionFollowsObservers ==
    Idle("main") =>
        \A p \in Plugins :
            /\ observers[p] \in {{}, Observers}
            /\ p \in running <=> observers[p] # {}

\* Once all is quiet, a drive that PDM or the configuration reports is
\* available exactly when it is attached, across moves, swaps, messages
\* without a list, a plugin switched off and on, and restarts.  Excused are
\* drives that PdmListener loses: added before they are removed, skipped in
\* its loop, or dropped with a map that is cleared.
AttachedIsAvailable ==
    Quiet =>
        \A d \in Present \ excused :
            Home[d] \in running \cap (OnPdm \cup {"storage"}) =>
                (dev[d].avail <=> attached[d] # NoMount)

\* Once all is quiet, rows are not flagged dirty while their device is
\* available, nor clean while it is not, unless deviceStateChanged read the
\* availability before another thread changed it, or a walk outlived the
\* device's stay ("stale").
RowsFollowDevices ==
    Quiet =>
        \A d \in Present :
            Home[d] \in running /\ dev[d].known /\ <<d, "rows">> \notin stale =>
                /\ rows[d] = "clean" => dev[d].avail
                /\ rows[d] = "dirty" => ~dev[d].avail

\* Once all is quiet, DeviceDb's record of a device that its plugin knows
\* says whether it is available, unless updateDevice read the availability
\* before another thread changed it: an injected device is recorded as gone
\* even if a crash left it as available.
RecordsFollowDevices ==
    Quiet =>
        \A d \in Present :
            Home[d] \in running /\ dev[d].known /\ <<d, "record">> \notin stale =>
                record[d] = IF dev[d].avail THEN "here" ELSE "gone"

\* Once all is quiet, a device that became available has been walked: no
\* request for a scan is lost between the threads that announce a device, its
\* scan loop and a walk under way.
AvailableIsScanned ==
    Quiet =>
        \A d \in Present \ excused :
            /\ Home[d] \in running /\ <<d, "rows">> \notin stale
            /\ dev[d].avail /\ dev[d].loop
            => rows[d] = "clean"

\* A walk over a UPnP server that neither failed nor shrank has delivered
\* every item below the containers it follows exactly once, however the
\* server divides its answers.
EachItemOnce ==
    \A d \in walking \cap Of("upnp") :
        browse = <<>> /\ ~spoiled =>
            delivered = [o \in Objects |-> IF o \in Reached THEN 1 ELSE 0]

\* A walk always comes to its end, so that the scans asked for meanwhile by
\* other threads, which wait for its mutex, get their turn: Upnp::scan stays
\* until "browsing is done or an error occurs".
WalksEnd == []<>(walking = {})

\* However devices come and go, every plugin's devices are again and again
\* those that are attached: a byebye that is lost or late, or an announcement
\* by a device that was removed, is made up for by aging and by the next
\* search.  Excused are devices PdmListener lost, those without a content
\* directory, and worlds where a description may never be read.
DevicesSettle ==
    []<>(\/ Faults \cap {"open", "download"} # {}
         \/ \A d \in Present \ (excused \cup blacklist) :
            Home[d] \in running => (dev[d].avail <=> attached[d] # NoMount))

----------------------------------------------------------------------------
(***************************************************************************)
(* Inductive invariants, named part by part.                               *)
(***************************************************************************)
\* Calls on devices and on plugins, by what they carry.
DeviceCalls ==
    [op : {"add"}, on : Devices, with : Mounts \cup {NoMount}]
    \cup [op : {"mergePut"}, on : Devices, with : {"here", "gone"}]
    \cup [op : {"refresh", "modify", "remove", "injectDevice", "check",
                "record", "index", "unmarkAllDirty", "markDirty", "scan",
                "push", "request", "getDeviceMeta"},
          on : Devices, with : {""}]
PluginCalls ==
    [op : {"checkDevices", "removeAll", "run", "halt", "find", "await",
           "erase"}, on : Plugins, with : {""}]
    \cup [op : {"observe", "ignore", "forget"}, on : Plugins,
          with : Observers]
    \cup [op : {"setEnable"}, on : Plugins, with : {"on", "off"}]
DetectCalls == [op : {"setDetect"}, on : Plugins, with : {"on", "off"}]
AnyCall == DeviceCalls \cup PluginCalls \cup DetectCalls

\* Threads other than the main loop only see devices that they discover
\* themselves come and go; what the main loop does for devices.
Discovered == {"upnp"} \cup Polled
OthersDo(c) ==
    \/ /\ c \in DeviceCalls
       /\ c.op \in {"add", "remove", "refresh", "check", "request",
                    "getDeviceMeta"} => Home[c.on] \in Discovered
    \/ c \in PluginCalls /\ c.op = "checkDevices" /\ c.on \in Discovered
WorkOps == {"add", "modify", "remove", "record", "mergePut", "index",
            "unmarkAllDirty", "markDirty", "scan", "push"}
WorkCalls == {c \in DeviceCalls : c.op \in WorkOps}

CallsOf(t) == {stack[t][k] : k \in DOMAIN stack[t]}
AllCalls == UNION {CallsOf(t) : t \in Threads}
Pending(ops, d) == \E c \in AllCalls : c.op \in ops /\ c.on = d

CallsInv ==
    /\ stack \in [Threads -> Seq(AnyCall)]
    /\ \A t \in Threads \ {"main"} : \A c \in CallsOf(t) : OthersDo(c)

\* A device is in a place of its own, and a PDM message says where those were
\* that PDM reports.
Alone(at) == \A d, e \in Devices : at[d] = at[e] /\ at[d] # NoMount => d = e
PlacesInv ==
    /\ world \in Worlds
    /\ attached \in [Devices -> Mounts \cup {NoMount}] /\ Alone(attached)
    /\ inbox \in Seq([list : BOOLEAN, at : [Devices -> Mounts \cup {NoMount}]])
    /\ \A k \in DOMAIN inbox :
         /\ Alone(inbox[k].at)
         /\ \A d \in Devices : inbox[k].at[d] # NoMount =>
                               d \in Present /\ Home[d] \in OnPdm
         /\ ~inbox[k].list => \A d \in Devices : inbox[k].at[d] = NoMount
    /\ mounted = [m \in DOMAIN mounted |-> mounted[m]]
    /\ \A m \in DOMAIN mounted :
         mounted[m] \in Present /\ Home[mounted[m]] \in OnPdm

\* What the main loop has still to do for a plugin, after the calls on
\* devices: it is in the middle of setDetect, of putPlugin, or of none, and
\* what is left of it fits the observers the plugin has and whether it runs.
Has(p, who, runs) == observers[p] = who /\ (p \in running <=> runs)
Settled(p) == Has(p, {}, FALSE) \/ Has(p, Observers, TRUE)
Left(p) == Has(p, {"DeviceDb"}, TRUE) \/ Has(p, Observers, TRUE)

Looks(p) == Call("observe", p, "DeviceDb")
Joins(p) == Call("observe", p, "MediaIndexer")
TurningOn(p, plan) ==
    \/ /\ Settled(p)
       /\ plan = <<Looks(p), Call("find", p, ""), Call("await", p, ""),
                   Call("setEnable", p, "on"), Joins(p)>>
    \/ /\ Has(p, {"DeviceDb"}, FALSE)
       /\ plan = <<Call("run", p, ""), Call("find", p, ""),
                   Call("await", p, ""), Call("setEnable", p, "on"), Joins(p)>>
    \/ /\ Left(p)
       /\ \/ plan = <<Call("find", p, ""), Call("await", p, ""),
                      Call("setEnable", p, "on"), Joins(p)>>
          \/ plan = <<Call("await", p, ""), Call("setEnable", p, "on"),
                      Joins(p)>>
          \/ plan = <<Call("setEnable", p, "on"), Joins(p)>>
          \/ plan = <<Joins(p)>>

\* The observer that goes last takes detection with it.
Going(p, o, op) == Call(op, p, o)
Leaving(p, o, plan, more) ==
    \/ Has(p, {o}, TRUE) /\ plan = <<Call("halt", p, ""),
                            Call("removeAll", p, ""), Going(p, o, "forget")>> \o more
    \/ Has(p, {o}, FALSE) /\ plan = <<Call("removeAll", p, ""),
                                    Going(p, o, "forget")>> \o more
    \/ /\ Has(p, {o}, FALSE) \/ Has(p, {}, FALSE)
       /\ plan = <<Going(p, o, "forget")>> \o more
    \/ /\ Has(p, {o}, TRUE) \/ Has(p, {}, FALSE)
       /\ plan = <<Going(p, o, "ignore")>> \o more
TurningOff(p, plan) ==
    \/ /\ Settled(p)
       /\ \E op \in {"ignore", "forget"} :
            plan = <<Going(p, "DeviceDb", op), Call("setEnable", p, "off"),
                     Going(p, "MediaIndexer", "ignore")>>
    \/ /\ Has(p, {"MediaIndexer"}, TRUE) \/ Has(p, {}, FALSE)
       /\ plan = <<Call("setEnable", p, "off"),
                   Going(p, "MediaIndexer", "ignore")>>
    \/ Leaving(p, "MediaIndexer", plan, <<>>)
Putting(p, plan) ==
    \/ /\ Settled(p)
       /\ \E op \in {"ignore", "forget"} :
            plan = <<Going(p, "MediaIndexer", op),
                     Going(p, "DeviceDb", "ignore"), Call("erase", p, "")>>
    \/ Leaving(p, "DeviceDb", plan, <<Call("erase", p, "")>>)
    \/ Has(p, {}, FALSE) /\ plan = <<Call("erase", p, "")>>
Doable(p, plan) ==
    \/ Settled(p) /\ plan = <<>>
    \/ TurningOn(p, plan) \/ TurningOff(p, plan) \/ Putting(p, plan)

MainInv ==
    LET s == stack["main"] IN
    \E i \in 0 .. Len(s) : \E j \in i .. Len(s) : \E p \in Plugins :
        /\ \A k \in 1 .. i : s[k] \in WorkCalls
        /\ Doable(p, SubSeq(s, i + 1, j))
        /\ \A k \in j + 1 .. Len(s) : s[k] \in DetectCalls
        /\ \A q \in Plugins \ {p} : Settled(q)

\* A device that is not known is not available; one whose plugin has no
\* record of it is as it was made.
KnownInv ==
    \A d \in Devices : ~dev[d].known => ~dev[d].avail /\ dev[d].alive = 0

\* What is written of a device is right, or is going to be written again.
RecordInv ==
    \A d \in Present :
        /\ dev[d].known /\ "DeviceDb" \in observers[Home[d]]
        /\ <<d, "record">> \notin stale
        => \/ record[d] = IF dev[d].avail THEN "here" ELSE "gone"
           \/ Pending({"record", "mergePut"}, d)
RowsInv ==
    \A d \in Present :
        /\ dev[d].known /\ "MediaIndexer" \in observers[Home[d]]
        /\ <<d, "rows">> \notin stale
        => \/ rows[d] = "clean" /\ dev[d].avail
           \/ rows[d] = "dirty" /\ ~dev[d].avail
           \/ rows[d] = "none"
           \/ Pending({"index", "unmarkAllDirty", "markDirty"}, d)

\* A request for a scan follows the call that unmarks the rows.
ScansFollow(s) ==
    \A k \in DOMAIN s : s[k].op = "unmarkAllDirty" =>
        k + 1 \in DOMAIN s /\ s[k + 1] = Call("scan", s[k].on, "")
ScanInv ==
    /\ \A t \in Threads : ScansFollow(stack[t])
    /\ \A d \in Present :
        /\ dev[d].avail /\ "MediaIndexer" \in observers[Home[d]]
        /\ <<d, "rows">> \notin stale
        => \/ rows[d] = "clean" \/ dev[d].asked
           \/ Pending({"index", "unmarkAllDirty", "scan", "push"}, d)

\* Which drives PDM has reported.
InMap(d) == \E m \in DOMAIN mounted : mounted[m] = d
PdmDevices == {d \in Present : Home[d] \in OnPdm}
\* The last message says where the drives are; without one the map does.
PdmInv ==
    /\ \A p \in OnPdm : p \in running => subscribed
    /\ subscribed /\ inbox # <<>> =>
         \A d \in PdmDevices : inbox[Len(inbox)].at[d] = attached[d]
    /\ subscribed /\ inbox = <<>> =>
         \A d \in PdmDevices \ excused : InMap(d) <=> attached[d] # NoMount
    /\ \A d \in PdmDevices \ excused : Home[d] \in running =>
         IF InMap(d)
         THEN ~Pending({"remove"}, d) /\ (dev[d].avail \/ Pending({"add"}, d))
         ELSE ~Pending({"add"}, d) /\ (~dev[d].avail \/ Pending({"remove"}, d))
StorageInv ==
    \A d \in Of("storage") :
        /\ attached[d] # NoMount
        /\ "storage" \in running =>
             ~Pending({"remove"}, d) /\ (dev[d].avail \/ Pending({"add"}, d))
\* A plugin that does not run has no device that is available, or is about to
\* remove them all.
HaltedInv ==
    \A d \in Present : Home[d] \in OnPdm \cup {"storage"} =>
        /\ Pending({"add"}, d) => Home[d] \in running
        /\ Home[d] \notin running =>
             \/ ~dev[d].avail \/ Pending({"remove"}, d)
             \/ Pending({"removeAll"}, Home[d])

\* One server is browsed, by WalkOK unless the walk is spoiled; between two
\* walks nothing is left of the last.
BrowseInv ==
    /\ IsTree(content)
    /\ \A d, e \in Browsing : d = e
    /\ Browsing = {} =>
         browse = <<>> /\ delivered = [o \in Objects |-> 0] /\ ~spoiled
    /\ Browsing # {} /\ ~spoiled => \E V \in SUBSET Objects : WalkOK(V)
=============================================================================
