# Verification of the media indexer

TLA+ models of `com.webos.service.mediaindexer`, the service that finds the
media files on storage devices and keeps their meta data in the media database
(`com.webos.mediadb`, DB8).  The models are translated from the sources under
`src/`; `PROJECT.json` maps each definition to the lines it stands for.

    tlc -config calm.cfg MCScanPipeline.tla       # model-check a configuration
    tlapm ScanCompletionProofs.tla                # check the proofs

| module | models | checked by | proved in |
|---|---|---|---|
| `ScanPipeline` | one scan from the walk to the last answer | `calm`, `any_time`, `completes` | `ScanPipelineProofs`, `ScanCompletionProofs` |
| `MediaIndex` | rows, cache file and record of a device over many scans | `rows` | `MediaIndexProofs` |
| `ScanPromise` | abstract: what a scan promises; implemented by `ScanPipeline` | `calm` | `ScanCompletionProofs` |
| `DeviceRecord`, `UpnpBrowse`, composed in `DeviceSystem` | plugins, devices, observers, detection; the walk over a media server | `devices` | `DeviceSystemProofs`, `DeviceStateProofs` |
| `BusCalls` | calls to the database: sending, answering, waiting, sessions | `calls` | `BusCallsProofs` |
| `ServiceRequests` | requests of clients, subscriptions, permissions, scans on request | `service` | `ServiceRequestsProofs`, `ServiceAnswersProofs` |

## The system

A scan of a device crosses every part of the program and four kinds of thread:

    PdmListener --> Plugin --> MediaIndexer --> Device::scan     main loop's thread
    Device::scanLoop --> Plugin::scan --> MediaIndexer::newMediaItem   scan thread
    MediaParser::extractMeta --> MediaDb::updateMediaItem     parser's thread pool
    LunaConnector::_Callback --> MediaDb::handleLunaResponse --> Device   reply thread

| Component | State | Operations | What is hard | What makes it correct |
|---|---|---|---|---|
| `Device` (`device.cpp`) | state (Inactive, Idle, Scanning, Parsing), availability, six counters, queue of scan requests, alive count | `scan`, `scanLoop`, `processingDone`, the increments, `available`, `setAvailable`, `checkAlive` | counters are changed by four kinds of thread and reset by a fifth; whoever sees them equal ends the scan | Idle is reported when and only when nothing is left; one cleanup per scan |
| `Plugin` (`plugins/plugin.cpp`), Storage, Msc | device list, observers, mount points | `addDevice`, `injectDevice`, `removeDevice`, `removeAll`, `checkDevices`, `scan` and its two file tree walks | events during a walk; the directory iterator throws | every file on the device is counted once and handed on, or known to the cache |
| `MediaParser` | queue of media items, pool of threads | `enqueueTask`, `extractMeta` | any order; an extractor may throw | an item is parsed once and handed to the database |
| `MediaDb` (write path) | two buffers per device, one lock for all devices | `needUpdate`, `updateMediaItem`, `unflagDirty`, `requestDeleteItem`, the flushes and resets, `handleLunaResponse` | batches are made by several threads, two kinds of operation share a buffer | an operation is sent once, none is forgotten |
| `MediaDb` (rows) | dirty flags and hashes of the rows | `markDirty`, `unmarkAllDirty`, `removeDirty` | flags set and reset around a scan | after a scan the rows are the files |
| `DbConnector`, `LunaConnector` | calls by token, the connector's thread, three locks | `sendMessage` with and without waiting, `_Callback`, `_syncCallback`, token registration and cancellation | answer before registration, late answer after a timeout, a handler that sends | an answer reaches the call it belongs to, once |
| `MediaIndexer` | plugins | `get`, `put`, `setDetect`, `deviceStateChanged`, item observer | called by all threads | forwards in the order of events |
| `IndexerService` | bus methods, subscriptions, `scanMutex_` | `pushDeviceList`, `requestMediaScan`, lists, `requestDelete` | waits on the main loop's thread for work of other threads | a request is answered, with the outcome of its own scan |
| `PdmListener` | mounted devices by name, dirty flags, observers | `checkDevice`, `cleanupDevices`, subscription callback | every message lists all devices; those missing are gone | observers see each device appear and go in turn |
| `CacheManager`, `Cache` | cache file of a device: path, hash, type | `readCache`, `isExist`, `generateCacheFile` | file is removed when read and written at the end of the walk | what the cache says is in the database |
| `DeviceDb`, `SettingsDb` | known devices, enabled plugins | `injectKnownDevices`, `updateDevice`, `applySettings` | answers race the devices' appearance | a known device is not taken for a new one |
| `Upnp`, `Mtp` | devices on the network, polling | announcements, aging through `checkDevices` | a device disappears without a message | an unseen device becomes unavailable |
| Client manager | clients by token | `addClient`, `removeClient`, `isClientExist` | protocol of calls | a subscriber is known until it cancels |
| `Task` | queue, one thread | `sendMessage`, `loop` | runs the cleanup with its lock held | every message is handled |
| Client library | a connector with its last response | `mediaindexerclient` calls | waits, and reads the response after its wait | a call returns its own answer |
| Extractors, `MediaItem`, `Configurator`, JSON, logging | - | file I/O, conversion, forwarding | exceptions only | not modelled, see the end |

The hazards the sources show, each at its line and with the properties that
would catch it, are the `hazards` of `PROJECT.json`.

## What is modelled

### `ScanPipeline`: one device from the walk to the last answer

State and actions follow the threads.  `scanPc` and `flushing` are the program
counter of `Device::scanLoop` ("walk": in `Plugin::scan`, "notify": before
`notifyDeviceList`, "check": in `processingDone`, "done": there, with equal
counters and the state not yet set, "list": in `notifyDeviceScanned`; `flushing`
names the flush it is in).  `reply` is that of the connector's thread in
`_Callback` ("check", "done" and "list" as above, "flush": in a flush that it
called, "stuck": waiting for a lock it holds).  `main` is that of the main loop's
thread ("detected": `deviceStateChanged` is in `unmarkAllDirty`; "push":
`Device::scan` waits for `mutex_`; "api": the same, called by `requestMediaScan`
with the device's lock; "removed": in `setAvailable(false)`, with the lock;
"list": in `available()`, with the lock shared).  Three variables hold what is between
two calls that no lock joins: `hand` the item the walk is busy with (found; in
the rescan buffer and not yet counted), `putting` the same for `putMeta`, and
`zeroed` the threads that have zeroed the counters and have still to clear the
buffers - so a reset can fall between an item's way into a buffer and its count,
and the other way round.
`walk` is what `recursive_directory_iterator` and the cache have still to
offer, `parseQ` the items in the parser, `firstBuf` and `reBuf` the two buffers
of `MediaDb` for the device, `batch` the batch whose sender waits for
`CallbackLock_`, `flight` the calls to the database not yet answered.

Each walk takes a *plan* that sorts the files into four classes, which is all
the walk asks about a file:

| class | on the disk | in the cache with this hash | `needUpdate` | becomes |
|---|---|---|---|---|
| `hit` | yes | yes | not asked | `FindItem`, `SkipCached` |
| `new` | yes | no | true | `FindItem`, `QueueForParser` |
| `same` | yes | no | false | `FindItem`, `UnflagDirty`, `CountDirty` (a new device: `QueueForParser`) |
| `gone` | no | yes | - | `RequestDeleteItem`, `CountRemove` |

A plan with no `hit` and no `gone` also stands for a walk without a cache file.

Counters are sets of items (`<<scan, file>>`); the code's integers are their
cardinalities, and the comparisons of `processingDone` compare cardinalities.
Sets are what makes the properties sayable: *which* item has not been answered.
A counter never counts an item twice (`OperationsDisjoint` and `CountersInv`),
so the cardinality is the integer.

Locks held across steps are part of the guards: `ScanFree` (`mutex_` of
Device), `LockFree` and `ReadFree` (`lock_` of Device, to write and to read, which
`requestMediaScan` holds while it waits, and `setAvailable` and `available` during a
reset), `CheckFree` (`pmtx_`, held from the comparison to the end of a flush or of
`notifyDeviceScanned`), `BufferFree` (`mutex_` of MediaDb, held by `putMeta` and
while a batch waits to be sent), `CanSend` (`CallbackLock_`).  This is what makes
deadlocks visible.

Two next-state relations: in `Spec` devices come and go and scans are requested
at any time; in `CalmSpec` the environment removes a device or asks for another
scan only when the device reports Idle and no request is pending.

Abstractions, and why they are sound for the properties:

- The parser's pool takes items in any order and any number of threads;
  `parseQ` is a set.  Answers arrive in any order (the code relies on none).
- `resetMediaItemCount` is two steps: it zeroes the six counters, and it clears the
  two buffers.  Inside each of the two nothing is interleaved, nor between the count
  of an operation in the rescan buffer and the look at the buffer's size.
- `processingDone` compares the counters in one step and sets the state in a later
  one; `setAvailable` and `setNewMountedDevice` are one step.  The cleanup task is
  counted when the state is set, which in the code follows on the same thread.
- The database answers every call and sends succeed; `needUpdate` repeats its
  query until it gets an answer.  Error answers count like others in the code
  (`handleLunaResponse` does not look at them).
- A walk reads a directory that does not change under it.
- `addDevice` calls `init()` again, which starts a further `scanLoop` thread on
  the same queue; `mutex_` lets one run at a time, which equals one thread.
- `waitForScan` blocks the main loop's thread for up to its timeout; here that
  thread is free again when its request is queued, so more interleavings are
  allowed than the code has.
- The cleanup task is counted when it is activated; what it deletes is the
  subject of `MediaIndex`.
- One device.  `CallbackLock_` across connectors is in `BusCalls`; that two
  devices share `mutex_` of MediaDb is not modelled.

### `MCScanPipeline`

Names the sets of plans the configurations use, and the symmetry of files
(sound for the invariants and action properties; the liveness runs do not use it).

### `ScanPromise`: what a scan promises

The abstract specification of a scan, for those who see only the device's phase
and the operations not yet answered: a walk asks for operations, they are
answered in any order and several at a time, the walk ends, and the scan is over
when none is left.  `ScanPipeline` implements it, mapping the states of `Device`
to phases and everything in parser, buffers, batches and calls to `pending`.
`MediaIndex` builds on it: its `ops` are `pending`, it adds operations in a walk only,
and its guard `ops = {}` for the end of a scan is what `ScanKeepsPromise`
proves of the counters of the pipeline.  (That `MediaIndex` itself keeps the
promise follows from that guard, shows nothing and is not claimed.)  The promise
is kept under `CalmSpec` only; under `Spec` the finding `early_idle` breaks it.

### `MediaIndex`: rows, cache file and record of one device over many scans

| variable | in the code |
|---|---|
| `rows` | the rows of the device's files in the three kinds of MediaDb: hash and dirty flag |
| `record` | the device's row in DeviceDb: none, on its way, stored |
| `cacheFile`, `hasCache` | the cache file of the device: `cacheItems_` as written, and whether the file is there |
| `cacheMap`, `cacheItems` | the two maps of the `Cache` object a walk holds |
| `pc` | "off": the service is not running; "idle": the device reports Idle or Inactive; "queued": a request is in `queue_`; "walk": in a file tree walk; "generate": between the walk and the cache file; "work": the walk is over, answers are awaited |
| `device`, `newMounted` | whether Plugin knows the device and whether it is available; `newMountedDevice_` |
| `ops` | operations that are in the parser, a buffer, or unanswered |
| `cleanups`, `doomed` | messages in the queue of the cleanup `Task` or searches not yet done; deletions on their way |

`StartService` is `setDetect` with the answer to `injectKnownDevices`;
`AddDevice` the whole path from `Plugin::addDevice` through both observers
(`DeviceDb`: the record; `MediaIndexer`: `unmarkAllDirty`, which waits, and
`scan`); `BeginWalk` the choice between `doFileTreeWalkWithCache`, its fallback
when there is no cache, and `doFileTreeWalk`; `SkipCached`, `PutMeta`,
`MergePut`, `UnflagDirty` one file of a walk each; `EndWalk` the deletion of what
remains in the cache; `GenerateCacheFile` the new cache file, which may fail after
the old one has been removed; `Answer` the effect of an operation on the rows;
`SearchDirty` and `DeleteDirty` the two halves of `removeDirty`.

The disk changes at any time but during a walk.  Errors are chosen by the constant
`Faults`: the directory iterator throws ("walk": with a cache the rest of the
cache is deleted and a shorter one written, without one the old cache file
stays), the cache file cannot be written ("cache"), the service stops ("crash":
the memory and all calls are lost, rows and files stay).

Abstractions:

- Rows of one uri that agree in hash and flag are one row; a second row that a
  put adds is remembered by the history variable `missed`.
- An operation takes effect when it is answered.  `markDirty` is not waited for by
  the code; it takes effect at once here.
- Removal and requests come when the device is Idle, as in `CalmSpec`; what
  happens otherwise is the subject of `any_time` and `early_idle`.
- An extractor that throws is left to `ScanPipeline`.
- `removeDirty` deletes all rows the search finds; the code deletes those of the
  first page of the answer.  Deletions in several steps, in any order, cover it.

The history variables name the cases in which the index is allowed to differ from
the disk, so that everything else is claimed without exception: `owed` (a crash
lost an operation that the surviving cache file vouches for, or the cleanup
deleted a row), `missed` (a row was doubled, or belongs to a file that was gone
when a walk began and that the cache did not name).  `FilesAreIndexed` is the
same claim without the exceptions, and the finding `cleaned_away` shows the
cleanup break it with no error at all.

### `MCMediaIndex`

The symmetry of files and of hashes; no liveness property is checked with it.

### `DeviceSystem`: how devices come and go

`DeviceRecord` holds what each operation of `Plugin` makes of a `Device`
(`Added`, `Refreshed`, `Removed`, `Injected`, `Checked`), as functions of a
record; `UpnpBrowse` the walk over a media server; `DeviceSystem` extends both
and adds who calls what, on which thread.

| variable | in the code |
|---|---|
| `dev` | the `Device` objects in `devices_` of their plugins: availability, alive count, `newMountedDevice_`, mount point, whether `init` started a `scanLoop`, whether `queue_` holds a request |
| `plugins`, `observers`, `running` | `MediaIndexer::plugins_`; `deviceObservers_` of each; whether its detection runs |
| `stack` | for each thread the calls it has still to make |
| `record`, `rows`, `settings` | what DeviceDb, MediaDb and SettingsDb say |
| `mounted`, `inbox`, `subscribed` | `PdmListener::deviceMap_`, messages of the physical device manager not handled, its subscription |
| `blacklist`, `byebyes` | `Upnp::blacklist_`; advertisements on the network |
| `walking`, `browse` | scan threads inside `Plugin::scan`; the calls left on the stack of a browsing one |
| `attached` | external: where each device really is |

A thread is the sequence of the calls it has still to make.  A step makes the
first, and a call that calls others puts them in front of the rest: `Add`
changes the device and puts the observers' calls on the stack, `IndexState`
reads the availability and puts `unmarkAllDirty` and `scan`.  So the order
inside a thread is the code's, and everything between two calls of one thread can
be interleaved with the other threads - the window in which a value that was
read goes stale.  The main loop handles one message at a time; a device that PDM
reports while `setDetect` waits for DeviceDb has to wait.

`UpnpBrowse` keeps the recursion of `Upnp::scan` as the stack `browse`: a request
for a chunk (`browseChunk`), a container to dive into (`diveIn`), an item to
deliver (`handleItems`).  `parseBrowseResponse` dives into all containers of an
answer before it handles the items; the loop over chunks asks until it has as
many children as the *parent's* answer announced.  The server may answer with
fewer than asked, fail, or lose content meanwhile.

The environment attaches, moves, swaps and detaches devices; it loses, delays
and cuts messages; it stops the process (`Crash`), which keeps the three
databases only.  The constant `Worlds` lists what a behaviour may start from: the plugins
that are built, what goes wrong, what earlier runs left behind.

Abstractions:

- Two scan requests of one device that are queued are one ("asked").
- One description of a UPnP device is downloaded at a time, and one server is
  browsed at a time (`Browsing`); in the code each device has a stack of its own.
- The rows of a device are "clean", "dirty" or "none": which they are is the
  subject of `MediaIndex`, when the scan is over that of `ScanPipeline`.
- A walk over an MTP player finds all files.
- The thread pool of libupnp delivers an event when a thread of it is free.

`AttachedIsAvailable` and `DevicesSettle` leave out the drives in `excused`:
those `PdmListener` loses, with the reason at `Excused`.  `RowsFollowDevices`,
`RecordsFollowDevices` and `AvailableIsScanned` leave out what is in `stale`: a
device whose last write was decided by an availability that had changed by then.

### `BusCalls`: how calls are sent and answered

| variable | in the code |
|---|---|
| `pc`, `call` | where each thread is in `LunaConnector::sendMessage`, `DbConnector::search` or `del` |
| `owner`, `flag` | `mutex_` and `is_callbacked_` of each connector's `CallbackWrapper` |
| `static` | `CallbackLock_` ("async") and `syncCallbackLock_` ("sync"), shared by all connectors |
| `sessions` | `messageMap_` |
| `cell` | `response_` of a connector of the client library |
| `started`, `loop` | `isTaskStarted_`; the connectors' threads |
| `asked`, `arrived` | external: calls at the bus; answers delivered to a loop |
| `serving`, `step` | the answer each loop handles, and how far it is |

Every lock, unlock, read of a flag and notification of `sendMessage`,
`CallbackWrapper::wait`, `_syncCallback` and `_Callback` is a step of its own.
The two connectors stand for any number: they share nothing but the static locks.
Calls differ in what matters here (`Ops`): whether the caller waits, whether the
handler sends, whether there is a session, which loop handles the answer.

That an answer comes is never assumed.  `AloneMeansAnswered` is about calls that
had their connector to themselves (`overlapped` is the history of those that had
not: for them the shared flag makes the claim false).  `CallsReturn` excepts two states, and
TLC shows that there is no third: `Crossed` (the handler of a synchronous call
sends while the next synchronous caller holds the wrapper's mutex and waits for
the handler's lock) and `LostStart` (a sender that read `isTaskStarted_` as false
and blocked after the notification).

### `ServiceRequests`: how requests are served

| variable | in the code |
|---|---|
| `asked`, `replies` | messages on their way to the service; what each has been replied |
| `subs`, `held`, `clients` | LS2 subscriptions; messages with an additional reference; `clients_` of the client manager |
| `dbClients`, `granted` | `dbClients_` of MediaDb; the permissions the database has |
| `queries`, `results`, `grants` | calls at the database; results that wait for the main loop |
| `req`, `plugins`, `scanned` | the request the main loop is in; of a scan request the plugins left, and the devices told to scan |
| `at`, `dev`, `back`, `list` | for each thread its step, the device it works on, where it goes on, the device list it has built |
| `state`, `queue`, `left`, `items`, `processed` | `Device`: state, scan requests, files a walk has still to visit, two counts |
| `puts`, `acks` | writes of found files: not executed by the database; executed and not counted |
| `shown` | history: the last list each subscriber got |

The handlers that differ between audio, video and image in names only are
instances of one operator (`AskFor`, `AskForMeta`).  A query carries the message
it is for, or none for a subscription, and so decides in `Notify` who is told
and in `HandleList` whether the next page is asked for.  `requestMediaScan` is
taken apart where it can wait: the device's lock, `mutex_`, the condition
variable.  The pipeline of a scan is reduced to what its clients can see: files
are counted, their rows are written, at any time and also after a client has
deleted them (`WriteRow`), the answers are counted, `processingDone` compares two
numbers.  `wait_for` has no predicate, so a wait may end for no reason
(`WakeUp`); that, the writes and the answers of the database are steps of the environment,
of which no fairness is assumed.

Abstractions:

- Two cleanups of one device that are waiting are one; `world.cleans` says
  whether clean-up tasks get to run at all in a world.
- A write is a put or an update: it makes the row clean, and brings it back if it
  is not there or leaves it away, as the database finds it.  Unchanged files, and
  the buffers writes wait in, are in `ScanPipeline`.
- What the extractors make of a file is free (`HandleMetaData`).
- The bus may refuse calls (`world.refuse`) but not replies.  The database
  refuses an unknown kind and nothing else.

`RequestsReturn` excepts one state, `Crossed`: the handler of a scan request
holds `lock_` of the device and waits for `mutex_`, which the scan thread has
while it waits for `lock_`.  `RepliesAreTrue` claims of a scan that is reported
done because of a notification what can be claimed (`untrue`): if nothing was going on
when it was asked for and nothing was discovered meanwhile, a device of the
request is done.  A spurious wake-up replies success with nothing scanned; the
code promises nothing better, and the property does not speak of it.  Of a deletion it
claims that no row is left but what a scan has written since (`written`), and
`SubscribersLearnAll` speaks of the items that have been there ever since the
query (`Kept`).
`SubscribersSeeStates` excepts subscribers in `stale`, whose last list was
out of date when it was sent: without the exception TLC finds a list that was built
first and sent last.

### `MCDeviceSystem`, `MCBusCalls`, `MCServiceRequests`

Each names the worlds its run starts from; the comments say what each is about.

## Runs

| run | specification | what it shows | bounds |
|---|---|---|---|
| `calm` | `CalmSpec` | Idle means complete, and cleanup happens when nothing is left, once per scan; no operation in two places; `ScanPromise` is implemented | 4 files, buffers of 2, 3 scans, new and known device, walk and parser errors |
| `any_time` | `Spec` | no counted item is lost, but for those found or counted during a reset, none is doubled, one cleanup per scan, whatever happens to the device | 2 files, buffers of 2, 2 scans, walk errors |
| `completes` | `FairCalmSpec` | first scans that fill their buffers, and rescans with changed, deleted or unchanged files, complete; no deadlock | 4 files, buffers of 3, 1 scan |
| `rows` | `MediaIndex!Spec` | after a scan the rows are the files, the cache file is true and names every row; through removals, restarts and errors | 2 files, 2 hashes, 2 cleanups waiting |
| `devices` | `DeviceSystem!FairSpec` | detection follows the observers; once all is quiet, devices, records and rows say what is attached; devices settle again and again; a walk over a server delivers each item once, and ends | 12 worlds: one or two devices of a plugin, up to 3 changes and 3 calls |
| `calls` | `BusCalls!FairSpec` | an answer finds its session; a call that is alone and succeeds has its answer; sessions are calls not answered; calls return | 2 connectors, 5 threads, 7 worlds of 3 or 4 calls |
| `service` | `ServiceRequests!FairSpec` | references are replies to come, subscribers learn all, strangers' items come from the same method, replies are true, subscribers are sent each state, requests return | 2 clients with up to 2 requests each, 2 devices, 5 items, pages of 2, at most 1 file |
| `stranded_puts` | `CalmSpec` | finding: parsed items remain in the buffer for ever | 2 files, buffers of 2 |
| `reply_stuck` | `CalmSpec` | finding: the reply thread waits for a lock it holds | 3 files, buffers of 2 |
| `early_idle` | `Spec` | finding: done is reported with items in the parser | 2 files, buffers of 2 |
| `cleaned_away` | `MediaIndex!Spec`, no errors | finding: the cleanup deletes rows of files that are there, for good | 1 file, 1 hash |
| `endless_walk` | `DeviceSystem!FairSpec` | finding: a container that shrinks while it is browsed keeps the scan thread in its loop | 1 server, 2 items |

The bounds of the scan runs: `FlushCount` = 2 gives an empty, a partial and a
full buffer, and with four files two batches in flight at once; every way to
sort four files into the four classes is tried, which includes every mixture of
operations in the shared buffer.  Three scans let the answers of one scan meet
the counters of the next but one.  In `any_time` two files and two scans are
enough for an event during each phase of a scan and for answers that arrive one
scan late; a third file adds no further kind of step.  `calm` has about 22 thousand
states, `any_time` 1.2 million, `service` 650 thousand.  `MaxScans` bounds the
scans a behaviour asks for (in the guards of the events, `MayRequest`); `Files`
and `FlushCount` are the remaining bounds.  Symmetric files keep the runs short.
`completes` has one scan, because a second one can deadlock with the first
(below), and three items to a buffer, so that a rescan can leave it with one or
with two.
In `rows`, two hashes make a changed file and one that changes back, two files an
operation on one beside a claim about the other, and `MaxCleanups` = 2 a cleanup
that is still waiting when the next scan ends; the number of scans, crashes and
disk changes is not bounded.

In `devices`, each world has one plugin (one has two, for what PDM tells both),
and `world.changes` and `world.calls` bound how often devices change and bus
methods are called, or the process stops: three changes let a drive move and come
back while another takes its place.  Scans, searches, polls, refreshes and messages
are not bounded.  `UpnpAlive` = 1 makes a server age at the first search it
misses (the code lets it miss three), `MaxDelivered` = 2 tells once from more, one
thread of libupnp's pool is enough to race the main loop, the download of a
description and the scan thread.  Chunks of two (the code has ten) make a container
of three children take two requests.  In `calls`, two connectors are needed for the static
locks and two waiting callers for a wake-up that wakes the other; each world
has the threads of one situation.  In `service`, three audio items and pages of
two make a second page, two subscribers one that is told what the other asked
for; the scan worlds have both devices asked at once, one discovered late, and two requests.

Deadlock is checked in `completes`, where every behaviour goes on (the
environment can always ask again or add the device again) unless threads block
each other.  In the others a behaviour may end: when its scans, changes or calls
are used up, when the code deadlocks (see the findings), or, in `MediaIndex`,
when the bound on cleanups is reached and no error happens.  For `BusCalls` and
`ServiceRequests` the liveness properties say where threads may block each other.

### Fairness

`FairCalmSpec`: weak fairness on each of `ScanThread`, `ParserThreads`,
`ReplyThread`, `MainThread`: a thread that can run does run, the pool has a
thread for every queued item, and the database answers every call.  The code has
no timeout on asynchronous calls, so the last is what it relies on.  Nothing is
assumed of the environment's events or of errors.

`DeviceSystem!FairSpec`: weak fairness for each thread, the scan threads, a walk
over a server, and the handlers of what has arrived, as the operating system and the
main loop schedule them.  Strong fairness for the end of a search and for the
announcements of a server that is online: libupnp repeats both for ever, and
hands them to a thread of its pool whenever one is free, which is again and again.
No fairness for byebyes, changes, bus methods, crashes or errors.

`BusCalls!FairSpec` and `ServiceRequests!FairSpec`: weak fairness of all steps of
the process together - as long as some thread can run, one does.  That is less
than the scheduler gives; it is enough since the calls and requests of a world
are finite.  The database and the bus are not assumed to answer: calls return
because of `CONNECTOR_WAIT_TIMEOUT` and `SCAN_TIMEOUT`.

`ScanCompletes` is checked for the plans for which the code completes
(`CompletingPlans`).  The plans left out are findings or hazards: a first scan
that ends with a partial buffer (`stranded_puts`); one that finds only deleted
files, which are sent as an unflagDirty batch, counted as processed and never as
removed, so that the device stays in Parsing; unchanged files next to new ones
(nothing asks for the flush of their operations); a reply that flushes
(`reply_stuck`); and a second rescan, in which a late answer of the first scan
and the flush of the second each hold the lock the other wants (`pmtx_`,
`CallbackLock_`).

## Proofs

TLC checks small instances; the theorems hold for every finite set of files,
every buffer size, every number of scans and every set of plans (the
assumptions `FilesAssumption` ... `MountsAssumption` of `ScanPipeline`), and those
of `MediaIndex` for all files, hashes, kinds of error and bounds on cleanups
(`NoFileAssumption`, `CleanupsAssumption`), those of `BusCalls` for any connectors,
threads and calls (`WorldsAssumption`, `NamesAssumption`), those of
`DeviceSystem` for any plugins, devices, places, faults and pool threads
(`WorldsAssumption`, `HomeAssumption`; the content of a server is a tree, `IsTree`: a
container or item is in one place, as the parent of an object is in UPnP; `FiniteAssumption`: finitely many devices and
places; `PlacesAssumption`: each device has a place to be in; `ThereAssumption`:
what is there from the start is one device in a place; `PoolAssumption`: pool
threads are not the others; `UpnpAliveAssumption`: 1 to the 4 of the code), and those of
`ServiceRequests` for any clients, requests, devices, items and pages
(`WorldsAssumption`, `NamesAssumption`, `LibraryAssumption`, `RowsAssumption`: the
database's index is a sequence in which each item is once, `PluginsAssumption`:
each plugin's map has an order, `PageSizeAssumption`: a page has room for one).

| theorem | module | statement |
|---|---|---|
| `Typing` | `ScanPipelineProofs` | `Spec => []TypeOK` |
| `OneCleanup` | `ScanPipelineProofs` | `Spec => []CleanupOncePerScan` |
| `OnePlace` | `ScanCompletionProofs` | `Spec => []OperationsDisjoint` |
| `NothingLost` | `ScanCompletionProofs` | `Spec => []NoCountedItemLost`, if no extractor throws: items that crossed a reset excepted |
| `IdleIsComplete` | `ScanCompletionProofs` | `CalmSpec => []IdleMeansComplete` |
| `CleanupIsReal` | `ScanCompletionProofs` | `CalmSpec => CompletionIsReal` |
| `ScanKeepsPromise` | `ScanCompletionProofs` | `CalmSpec => PromiseKept`: the pipeline implements `ScanPromise` |
| `IndexTyping` | `MediaIndexProofs` | `Spec => []TypeOK` |
| `CacheStaysTrue` | `MediaIndexProofs` | `Spec => []CacheIsTrue` |
| `CacheMissesNoRow` | `MediaIndexProofs` | `Spec => []CacheCoversRows` |
| `IdleIsDisk` | `MediaIndexProofs` | `Spec => []IndexIsDisk` |
| `Typing` | `BusCallsProofs` | `Spec => []TypeOK` |
| `SessionsAreFound` | `BusCallsProofs` | `Spec => []AnswersFindTheirCall` |
| `NoSessionIsLeft` | `BusCallsProofs` | `Spec => []SessionsAreUnanswered` |
| `AloneIsAnswered` | `BusCallsProofs` | `Spec => []AloneMeansAnswered` |
| `DeviceTyping` | `DeviceSystemProofs` | `Spec => []TypeOK` |
| `DetectionSafe` | `DeviceSystemProofs` | `Spec => []DetectionFollowsObservers` |
| `RecordsAreRight` | `DeviceStateProofs` | `Spec => []RecordsFollowDevices` |
| `RowsAreRight` | `DeviceStateProofs` | `Spec => []RowsFollowDevices` |
| `ScansAreMade` | `DeviceStateProofs` | `Spec => []AvailableIsScanned` |
| `DrivesAreRight` | `DeviceStateProofs` | `Spec => []AttachedIsAvailable` |
| `ItemsComeOnce` | `DeviceStateProofs` | `Spec => []EachItemOnce` |
| `HeldMessagesAreRepliedOnce` | `ServiceRequestsProofs` | `Spec => []ReferencesAreReplies` |
| `ServiceTyping` | `ServiceAnswersProofs` | `Spec => []TypeOK` |
| `SubscribersAreTold` | `ServiceAnswersProofs` | `Spec => []SubscribersLearnAll` |
| `StrangersAreSubscribed` | `ServiceAnswersProofs` | `Spec => []StrangersShareTheMethod` |
| `NothingUntrue` | `ServiceAnswersProofs` | `Spec => []RepliesAreTrue` |
| `ListenersSee` | `ServiceAnswersProofs` | `Spec => []SubscribersSeeStates` |

The argument, from below:

- `TypeOK` contains `ScansOK`: a request under way is still in the queue, so
  that `queue - 1` stays a number; it bounds scans begun, queued and about to be.
- `CleanupInv` strengthens `CleanupOncePerScan`: a scan that has not ended - the
  walk goes on, the device is in Parsing, or a thread has found it done and not yet
  said so (`Finishing`) - is one the cleanups do not include.  It is preserved
  because `pmtx_` lets one thread at a time be between the comparison and the new
  state, and the walk does not run in Parsing.
- `FlowInv` strengthens `OperationsDisjoint` by `WalkOK` and `Visible`: what the
  walk has still to visit belongs to the scan under way and is nowhere in the
  pipeline.  Each action has a lemma that says what it does to `Pipeline`; the
  other proofs only use these lemmas.  `PutInv` says that `putMeta` and a
  batch that waits to be sent never hold `mutex_` both.
- `CountersInv` says the counters hold what was visited, that answered items were
  wanted ones, that they are not in the pipeline, and that an item about to be
  counted as to be deleted is in the buffer.  `ParkedInv` says nothing is under way
  on a device that is not available, or between an event and its scan request;
  so the resets of the calm meet nothing.  `DoneInv` says that a
  scan found done is done still when the state is set, and that a scan begins in a
  device with nothing to do.  `CalmInv` puts them together: Idle implies that all
  that was wanted is answered.  The step that needs an idea is the end of a scan:
  `processingDone` compares `totalItemCount_` with `totalProcessedCount_` and
  `removeCount_` with `totalRemovedCount_`, and because batches are mixed neither
  equality says anything about its own items.  `CountsBalance` adds the two up:
  answered items are a subset of the wanted ones of the same finite size, so
  they are all of them.
- `NothingLost` is about any time, so a reset may fall anywhere.  `ResetInv` says
  of what it catches: while a thread is between its two halves, all that the
  counters hold was counted after they were zeroed, and so is in `crossed`; and an
  item whose deletion is in the buffer and not yet counted is there still, or a
  reset has cleared it and put it into `crossed`.  `ClearBuffers` then drops nothing
  that is counted and has not crossed.  The exception cannot be dropped: TLC
  finds such an item without it.
- `ScanKeepsPromise` puts every step into one of five kinds by what it does to the
  state and the pipeline (`StepKind`), and shows each kind to be a step of
  `ScanPromise`, with the same `CalmInv`.
- `CacheStaysTrue`: the claim is about the cache *file*, but a file is what was
  once `cacheItems`, and that repeats what was in `cacheMap`, which was read from
  the file before; `ClaimsInv` says it of all three.  An answer could take a
  claim's row away; `OpsInv` says why it does not: a file has one operation at a time,
  which agrees with what the walk noted, a `mergePut` never meets a cache file
  that says otherwise, and a `del` is for a file no cache names.  `WalkInv` adds
  that a walk that may replace rows has no cache file behind it, since reading it
  removes it.  Together with `TypeOK` they are `IInv`, which TLC confirms too.
- `CacheMissesNoRow` is the other direction: a file that has a row is named by
  the cache file when the device rests, by one of the walk's two caches or the
  files still to visit while it walks, and what drops out of the caches has a
  `del` under way (`CoverInv`).  The history variable `torn` carries the exception: the
  old cache file, which a walk without the cache leaves behind when it is cut
  short, covers nothing until a walk has seen every file.
- `IdleIsDisk`: from the beginning of a walk that sees the whole disk, a file is
  either `Open` - still to visit, still named by the cache that was read, or waiting
  for the answer to an operation that agrees with the disk - or its rows are what
  the disk says (`DiskInv`).  Three steps close a file.  A visit that skips it,
  because the cache has its hash: `ClaimsInv` says there is a row with that
  hash, and `RowsInv` that it is the only one and not dirty.  The end of the walk: what is left
  in the cache is not on the disk, and is deleted.  An answer: `Applied` leaves
  one clean row with the operation's hash, for `unflagDirty` because `OpsInv` says the row was there.
  `IndexInv` joins these with `IInv`; TLC confirms it on the instance of `rows`.

- `SessionsAreFound`: the answer to a call must not be handled before its sender
  has remembered the token.  `LockInv` says that the sender holds the static lock
  of its kind of call from `LSCallOneReply` to `tokenCallback_` and the
  connector's thread from taking an answer to its end, so never both.  `OutInv` says a
  call is with the bus, waiting or being handled, in one place, and not before it
  was sent; it needs that calls have different numbers (`nth < made`).
  `SessionInv` puts them together: a call not handled yet is in `sessions`, or
  its sender is still at "note" - and then the lock keeps the handler away.  For
  `search` there is no lock: from the main loop's thread the sender and the
  handler are the same thread (`MainInv`, `StepInv`), from any other the claim
  is false, and the property says so.  Their conjunction is `AnswerInv`.
- `NoSessionIsLeft` asks the reverse: a session whose answer has been handled must
  not be remembered afterwards.  `NotedInv` says that a session is of a call not handled
  yet, and that a call whose sender is still at "note" has no session and is not
  handled either, by the same argument with the lock; a search may be, but then it
  is in `missed`, and what its sender remembers late is what the property excepts.
- `AloneIsAnswered`: calls of one connector that are pending together have
  overlapped, all of them (`AloneInv`); so whoever sets the flag or `response_` for a call that
  has not overlapped - a handler, or a caller that gives up - does it with the call's own answer,
  or sets those of another connector.
- `DeviceTyping`: the calls on a thread's stack come from the calls before them,
  and `CallsInv` says which thread may have which: threads other than the main
  loop touch only devices that their plugin discovers.  `PlacesInv` adds that two
  devices are never in one place, in a message neither.
- `DetectionSafe`: `MainInv` lists every way in which the main loop can be in the
  middle of `setDetect` or `putPlugin` - the observers the plugin has, whether it
  runs, and the calls that are left - with the calls on devices before them and other
  `setDetect`s behind.  No other thread touches observers.  With no call left, only
  the settled ways remain.
- `RecordsAreRight`, `RowsAreRight`, `ScansAreMade` follow one idea: what is written of a
  device is right, or a call that will write it again is still on a stack, or
  the last write is in `stale` (`RecordInv`, `RowsInv`, `ScanInv`).  Once all is quiet no
  call is left.  A step that changes availability puts the observers' calls on
  its own stack in the same step; the write that removes the last such call
  agrees with the device as it is, or `Written` notes that it does not.
  `ScansFollow` adds that the call that unmarks the rows is followed by the one
  that asks for the scan, so that clean rows never stand in for a walk.
- `DrivesAreRight` goes through `deviceMap_`.  `PdmInv` says that the last message not handled
  tells where every drive is, that without one the map does, and that for a
  plugin that runs a device in the map is available or about to be added, and
  one not in it is not or about to be removed.  It rests on the main loop: a
  message is handled when nothing else is to do, so that the calls of an earlier message
  never meet those of a later one.  `HaltedInv` says a plugin that was
  halted still has to remove all its devices, or has none available - so that a
  plugin which runs again starts from nothing.  The proof of `PdmMessage` splits by what the
  analysis does to a mount point: fresh, swapped, leaving, skipped; the last is what `excused` is
  for.  `StorageInv` is the same for devices of the configuration, which never leave.
- `ItemsComeOnce`: the stack `browse` is compared with what the server has.
  `WalkOK(V)` says of the containers in `V`, those that were dived into: each of
  their children is in a chunk that is still to be asked for, or has been seen;
  what has been seen is dived into or due to be, delivered once or due to be;
  nothing else is; and no call is on the stack twice.  A short answer moves the
  border of one chunk; since an object has one place, what it adds was not seen before.  A
  container's count is the one its parent's answer gave, and it is still right because a walk over
  a server that shrank is spoiled.  With an empty stack `V` is closed under what is
  followed and contains the root, and it is inside every set that does: so it is
  `Inside`, and no induction over the tree is needed.  `BrowseInv` joins it to the
  scan threads: nothing is left of the last walk when the next begins.

TLC confirms these invariants on the instance of `devices`.

- `HeldMessagesAreRepliedOnce`: that a held message is replied to once needs that
  nothing happened to it before it was held.  `RequestsInv` says so of the
  `Untouched` requests, not sent or not looked at yet; `ClientsInv` that these are
  well counted, what a client has still to ask being the rest of its jobs; and
  `QueriesInv` that no two queries are for one message, so that the reply to one
  does not answer another.  A handler of the main loop is shown to be a step that
  takes one request from the untouched ones and leaves every other alone; all
  other threads only answer the scan request that is under way, which is held by
  nobody.  `LibraryAssumption` is needed because the client library makes its
  payloads itself: a call it answers without the service never lacks a parameter.
  Their conjunction is `ReferencesInv`; TLC confirms it on the instance of `service`.

- The other claims about `ServiceRequests` share `AnswersInv`: `ReferencesInv`, and
  five parts that rest on it and on each other.  `StepsInv` gives each thread its
  own steps and says which device it works for; `ServiceTyping` follows from it,
  and so does that a handler of one thread leaves the others' steps alone.
- `SubscribersAreTold`: between two pages a subscriber is told of nothing, and what
  it has still to learn is in a query or a result.  `LearningInv` says where: what is
  before the page that is asked for next has been told, or is in the result that
  waits, and the rest is behind.  A page of the database is a set of positions, the first ones
  found, so that whatever is found and not on the page is behind its last position
  (`LastPosition`); a deletion between two pages, or a row that is written again, only
  makes `Wanted` smaller.  `DatabaseInv`
  says a query still asks for what its request asked for.
- `StrangersAreSubscribed`: an item reaches a reply only from a result, whose uri
  is that of its request; a result without an object is of a subscription, and is
  told to subscribers of the same method and kind (`DatabaseInv`, `RepliesInv`).
- `NothingUntrue` has three parts.  A permission is reported by the thread that
  asked for it, after an answer that names its sender.  A deletion is reported after
  the rows are gone; a row that a scan brings back is noted in `written` by the step
  that does, so `Removed` stays true through the result (`DatabaseInv`) and the
  reply (`RepliesInv`).  A scan is reported because *some* thread called
  notifyDeviceScanned; `CalmInv` says that in a calm whatever a device, the
  database's thread or a write on its way has still to do is for a device that was
  told to scan, so that the one that notified is among them.
- `ListenersSee`: a state changes in a step after which its thread will build the
  list and send it.  `SeenInv` says that a subscriber that has not been sent the
  states has such a thread, or is what the main loop is about to answer; when all is quiet
  no thread is.  A thread that sends a list built before another state changed sends a
  stale one, which the history names and the property excepts.

Not proved, only model-checked: the liveness properties and the absence of
deadlock, which are out of the prover's reach.  Every safety invariant and action
property that a passing run checks is stated by a theorem.

## Findings

Each is a run that TLC finds violated, with the line of a document or comment
it contradicts in `PROJECT.json`: `stranded_puts` (mediadb.cpp:557),
`reply_stuck` (lunaconnector.cpp:210), `early_idle` (device.cpp:446),
`cleaned_away` (mediadb.cpp:753), `endless_walk` (upnp.cpp:461).  In the worlds
of `devices` a server loses content too, but only from the root, which is asked
for in one request without a count; there every walk ends.

What the properties except are behaviours of the code as well, with no document
that says otherwise: `Crossed` and `LostStart` of `BusCalls`, `Crossed` of
`ServiceRequests`, the drives in `excused`, the items in `crossed`, the rows in
`written`, the lists in `stale` of `ServiceRequests`, and the success that a spurious wake-up reports.  The hazards they come
from are listed without a property, or with a note that says what is excepted.

## Plan

1. Done: `ScanPipeline` with the promise it keeps, and `MediaIndex` on top of it; all
   their invariants proved.
2. Done: `BusCalls`, all its invariants proved.
3. Done: `DeviceSystem` with `DeviceRecord` and `UpnpBrowse`; all its invariants
   proved.
4. Done: `ServiceRequests` with scans on request, the client manager and the library;
   all its invariants proved.
5. Open: `mutex_` of MediaDb shared by two devices; that `DeviceSystem`'s events
   implement the environment of `ScanPipeline`.

## Not modelled

The meta data extractors (calls into GStreamer, TagLib and image libraries; an
exception is `ParserThrows`), `MediaItem`'s conversions of meta data, the meta
data and the per-type counts of a device, `Configurator` (a table read once),
the locale (a value passed on), JSON, logging, performance counters and start-up
and shut-down code.  Of UPnP the XML and the meta data of items, of MTP the
transfer: they are libraries' work on data no property is about.  The listing
of a player ends at the first file of an unsupported type and leaves the device
open (mtp.cpp:194); thumbnails are removed outside a try block (plugin.cpp:387).
Both are left out with the file system and libmtp.  `needUpdate` repeats its query for as
long as the database does not answer (mediadb.cpp:449); here the loop is a guard
(`CanAsk`), and that each query of it returns is in `BusCalls`.
