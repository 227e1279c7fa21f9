---------------------------- MODULE ScanPipeline ----------------------------
(***************************************************************************)
(* One storage device on its way through the indexer: the scan thread of   *)
(* Device walks the mount point, the media parser's threads extract meta   *)
(* data, MediaDb collects database operations in two buffers and sends     *)
(* them as batches, and the connector's reply thread counts the answers    *)
(* until every item of the scan has been accounted for.                    *)
(*                                                                         *)
(* An item is a file in one scan, <<number of the scan, file>>.  A counter *)
(* of Device is modelled by the set of items it has counted, so the        *)
(* integer in the code is the set's cardinality; a batch is the set of     *)
(* the items whose operations it holds.                                    *)
(*                                                                         *)
(* Locks, and when one is held across steps:                               *)
(*   mutex_ of Device         by the scan thread while scanPc # "wait"     *)
(*   pmtx_ of Device          by the thread in processingDone, from the    *)
(*                            comparison that holds to its return          *)
(*   mutex_ of MediaDb        by the thread in putMeta, and by the thread  *)
(*                            whose batch waits to be sent                 *)
(*   CallbackLock_ of LunaConnector   by the reply thread in a handler,    *)
(*                            and needed by every asynchronous send        *)
(*   lock_ of Device          for writing by setAvailable(false), for      *)
(*                            reading by requestMediaScan and by           *)
(*                            available() while it resets the device       *)
(* No lock is held over a reset of the counters that Device::scan makes,   *)
(* nor from an operation's way into the rescan buffer to its count: a      *)
(* reset is two steps, an item in the scan thread's hand is three.         *)
(***************************************************************************)
EXTENDS Naturals, FiniteSets

CONSTANTS
    Files,       \* names of the media files a scan of the device may meet
    FlushCount,  \* FLUSH_COUNT: operations that fill a buffer
    MaxScans,    \* bound: scans started in a behaviour
    Plans,       \* what a walk may find, by newMountedDevice_, see PlanSpace
    Mounts,      \* initial values of newMountedDevice_
    Faults       \* which errors happen: "walk" and "parse"

Classes == {"new", "same", "hit", "gone"}

(***************************************************************************)
(* A plan sorts the files of one walk.  "hit": on the disk and in the      *)
(* cache file with the same hash.  "gone": in the cache file, not on the   *)
(* disk.  "new" and "same": on the disk, not in the cache; needUpdate says *)
(* that the database row is missing or differs, or that it is current.     *)
(***************************************************************************)
PlanSpace ==
    {p \in [Classes -> SUBSET Files] :
        \A c, d \in Classes : c # d => p[c] \cap p[d] = {}}

ASSUME FilesAssumption == IsFiniteSet(Files)
ASSUME FlushAssumption == FlushCount \in Nat \ {0}
ASSUME ScansAssumption == MaxScans \in Nat \ {0}
ASSUME PlansAssumption == Plans \in [BOOLEAN -> SUBSET PlanSpace]
ASSUME MountsAssumption == Mounts \subseteq BOOLEAN

VARIABLES
    state, available, newMounted,                    \* Device
    total, processed, put, dirty, remove, removed,   \* counters of Device
    queue, scanPc, flushing, walk, scanNo, hand,     \* the scan thread
    parseQ, putting,                                 \* MediaParser's threads
    firstBuf, reBuf, batch,                          \* MediaDb
    flight, reply,                                   \* LunaConnector
    main,                                            \* the main loop's thread
    zeroed,      \* threads that have zeroed the counters and not yet cleared
                 \* the buffers
    crossed,     \* history: items found, or counted as to be deleted, while
                 \* some thread was between the two halves of a reset
    cleanups     \* history: scans that processingDone has found done

device   == <<state, available, newMounted>>
counters == <<total, processed, put, dirty, remove, removed>>
scanner  == <<queue, scanPc, flushing, walk, scanNo>>
parser   == <<parseQ, putting>>
buffers  == <<firstBuf, reBuf>>
resets   == <<zeroed, crossed>>
vars == <<device, counters, scanner, hand, parser, buffers, batch, flight,
          reply, main, resets, cleanups>>

Item    == (1 .. MaxScans) \X Files
Flush   == {"unflagDirty", "flushDeleteItems"}
Message == [method : {"put", "mergePut"} \cup Flush, items : SUBSET Item]
NoWalk  == [c \in Classes |-> {}]
NoBatch == [method |-> "none", items |-> {}]

\* The item a thread is busy with, and how far it is.  "hit", "new", "same":
\* found, which counts it.  "dirty", "remove": in the buffer, not yet counted.
Found  == Classes \ {"gone"}
NoItem == [step |-> "none", items |-> {}]
Hand   == [step : Found \cup {"dirty", "remove"}, items : SUBSET Item]
Put    == [step : {"appended", "counted"}, items : SUBSET Item]

Requesting == main \in {"detected", "push", "api"}

\* The scan under way is still in the queue, and the scans begun, queued and
\* about to be queued are within the bound.
ScansOK ==
    /\ queue \in Nat
    /\ scanNo \in 0 .. MaxScans
    /\ scanPc \in {"wait", "walk", "notify", "check", "done", "list"}
    /\ scanPc # "wait" => queue > 0
    /\ scanNo + queue + (IF Requesting THEN 1 ELSE 0)
           <= MaxScans + (IF scanPc = "wait" THEN 0 ELSE 1)

\* What the threads between two steps hold fits their program counters.
ThreadsOK ==
    /\ flushing \in {"none"} \cup Flush
    /\ flushing # "none" => scanPc \in {"walk", "check"}
    /\ hand \in Hand \cup {NoItem}
    /\ hand # NoItem => scanPc = "walk" /\ flushing = "none"
    /\ putting \in Put \cup {NoItem}
    /\ reply \in {"idle", "check", "done", "list", "flush", "stuck"}
    /\ main \in {"idle", "detected", "push", "api", "removed", "list"}
    /\ zeroed \subseteq {"main", "scan", "reply"}
    /\ "main" \in zeroed => main \in {"detected", "api", "removed", "list"}
    /\ "scan" \in zeroed => scanPc \in {"notify", "list"}
    /\ "reply" \in zeroed => reply = "list"

TypeOK ==
    /\ state \in {"Idle", "Scanning", "Parsing", "Inactive"}
    /\ available \in BOOLEAN
    /\ newMounted \in BOOLEAN
    /\ total \subseteq Item /\ processed \subseteq Item
    /\ put \subseteq Item /\ dirty \subseteq Item
    /\ remove \subseteq Item /\ removed \subseteq Item
    /\ ScansOK /\ ThreadsOK
    /\ walk \in [Classes -> SUBSET Item]
    /\ parseQ \subseteq Item
    /\ firstBuf \subseteq Item
    /\ reBuf \subseteq Item
    /\ batch \in Message \cup {NoBatch}
    /\ flight \subseteq Message
    /\ crossed \subseteq Item
    /\ cleanups \in Nat

-----------------------------------------------------------------------------
(* When a lock can be taken: lock_ is for writing, unless it says not.     *)

ScanFree   == scanPc = "wait"
LockFree   == /\ main \notin {"api", "removed", "list"}
              /\ zeroed \cap {"scan", "reply"} = {}
ReadFree   == main # "removed"
CanSend    == reply = "idle"
BufferFree == batch = NoBatch /\ putting = NoItem /\ reply # "stuck"
CheckFree  == /\ scanPc \notin {"done", "list"}
              /\ ~(scanPc = "check" /\ flushing # "none")
              /\ reply \notin {"done", "list", "flush", "stuck"}

(* What the threads' steps are made of.                                    *)

Send(m) == flight' = flight \cup {m}

\* Item i is found, or counted as to be deleted.
Crosses(i) == crossed' = crossed \cup (IF zeroed = {} THEN {} ELSE {i})

\* Mistake: the count of the items to be deleted stays.
ZeroKeepsRemove(t) ==
    /\ total' = {} /\ processed' = {} /\ put' = {}
    /\ dirty' = {} /\ removed' = {}
    /\ UNCHANGED remove
    /\ zeroed' = zeroed \cup {t}

\* The first half of resetMediaItemCount, on thread t ...
ZeroCounters(t) ==
    /\ total' = {} /\ processed' = {} /\ put' = {}
    /\ dirty' = {} /\ remove' = {} /\ removed' = {}
    /\ zeroed' = zeroed \cup {t}

\* ... and the second.  An item that is in the buffer and about to be counted
\* as to be deleted is not in the buffer any more.
ClearBuffers(t) ==
    /\ firstBuf' = {} /\ reBuf' = {}
    /\ zeroed' = zeroed \ {t}
    /\ crossed' = crossed \cup (IF hand.step = "remove" THEN hand.items ELSE {})

\* Two counters of the code read as numbers.
Same(S, T) == Cardinality(S) = Cardinality(T)

\* Mistakes: one of the two comparisons is missing.
RemovedOnly == state = "Parsing" /\ Same(remove, removed)
ProcessedOnly == state = "Parsing" /\ Same(total, processed)

\* The outcomes of processingDone in state Parsing.
AllDone ==
    state = "Parsing" /\ Same(total, processed) /\ Same(remove, removed)
NeedDirtyFlushed == state = "Parsing" /\ ~AllDone /\ Same(total, dirty)

NeedFlushedForRemove ==
    /\ state = "Parsing" /\ ~AllDone
    /\ ~Same(total, dirty) /\ ~Same(remove, removed)

NeedFlush == NeedDirtyFlushed \/ NeedFlushedForRemove

\* Mistake: the device stays in Parsing.
FinishKeepsState == UNCHANGED state /\ cleanups' = cleanups + 1

\* The comparison held: the device becomes Idle, whatever happened since.  The
\* caller of processingDone activates the cleanup task when it has returned.
FinishScan == state' = "Idle" /\ cleanups' = cleanups + 1

-----------------------------------------------------------------------------
(* The scan thread: Device::scanLoop and the walk of Plugin.               *)

BeginScan ==
    /\ scanPc = "wait" /\ queue > 0 /\ LockFree
    /\ state' = "Scanning"
    /\ scanPc' = "walk"
    /\ scanNo' = scanNo + 1
    /\ \E p \in Plans[newMounted] :
        /\ newMounted => p["hit"] = {} /\ p["gone"] = {}
        /\ walk' = [c \in Classes |-> {scanNo + 1} \X p[c]]
    /\ UNCHANGED <<available, newMounted, counters, queue, flushing, hand,
                   parser, buffers, batch, flight, reply, main, resets,
                   cleanups>>

Walking == scanPc = "walk" /\ flushing = "none" /\ hand = NoItem
Visited(i) == walk' = [c \in Classes |-> walk[c] \ {i}]

\* A file is counted as found.  Whether it is in the cache has been looked up.
FindItem(i) ==
    /\ Walking /\ LockFree
    /\ \E c \in Found : i \in walk[c] /\ hand' = [step |-> c, items |-> {i}]
    /\ Visited(i)
    /\ total' = total \cup {i}
    /\ Crosses(i)
    /\ UNCHANGED <<device, processed, put, dirty, remove, removed, queue,
                   scanPc, flushing, scanNo, parser, buffers, batch, flight,
                   reply, main, zeroed, cleanups>>

\* The cache knows the file: it is counted as processed, too.
SkipCached ==
    /\ hand.step = "hit" /\ LockFree
    /\ processed' = processed \cup hand.items
    /\ hand' = NoItem
    /\ UNCHANGED <<device, total, put, dirty, remove, removed, scanner, parser,
                   buffers, batch, flight, reply, main, resets, cleanups>>

\* needUpdate waits for an answer that the reply thread has to deliver.
CanAsk == newMounted \/ reply = "idle"

QueueForParser ==
    /\ CanAsk
    /\ hand.step = "new" \/ (hand.step = "same" /\ newMounted)
    /\ parseQ' = parseQ \cup hand.items
    /\ hand' = NoItem
    /\ UNCHANGED <<device, counters, scanner, putting, buffers, batch, flight,
                   reply, main, resets, cleanups>>

\* The operation is appended, and not yet counted.
UnflagDirty ==
    /\ CanAsk
    /\ hand.step = "same" /\ ~newMounted
    /\ reBuf' = reBuf \cup hand.items
    /\ hand' = [hand EXCEPT !.step = "dirty"]
    /\ UNCHANGED <<device, counters, scanner, parser, firstBuf, batch, flight,
                   reply, main, resets, cleanups>>

\* The walk is over: what remains of the cache is deleted, item by item.
RequestDeleteItem(i) ==
    /\ Walking
    /\ \A c \in Found : walk[c] = {}
    /\ i \in walk["gone"]
    /\ Visited(i)
    /\ reBuf' = reBuf \cup {i}
    /\ hand' = [step |-> "remove", items |-> {i}]
    /\ UNCHANGED <<device, counters, queue, scanPc, flushing, scanNo, parser,
                   firstBuf, batch, flight, reply, main, resets, cleanups>>

\* The thread lets go of the item; a buffer that is full has to be flushed.
FlushFull(method) ==
    /\ hand' = NoItem
    /\ flushing' = IF Cardinality(reBuf) >= FlushCount THEN method ELSE "none"

CountDirty ==
    /\ hand.step = "dirty" /\ LockFree
    /\ dirty' = dirty \cup hand.items
    /\ FlushFull("unflagDirty")
    /\ UNCHANGED <<device, total, processed, put, remove, removed, queue,
                   scanPc, walk, scanNo, parser, buffers, batch, flight, reply,
                   main, resets, cleanups>>

CountRemove(i) ==
    /\ hand = [step |-> "remove", items |-> {i}] /\ LockFree
    /\ remove' = remove \cup {i}
    /\ Crosses(i)
    /\ FlushFull("flushDeleteItems")
    /\ UNCHANGED <<device, total, processed, put, dirty, removed, queue,
                   scanPc, walk, scanNo, parser, buffers, batch, flight, reply,
                   main, zeroed, cleanups>>

\* The directory iterator throws: what the cache holds and the walk has not
\* reached counts as gone, the rest of the disk is not looked at.
WalkThrows ==
    /\ "walk" \in Faults
    /\ Walking
    /\ \E c \in Found : walk[c] # {}
    /\ walk' = [NoWalk EXCEPT !["gone"] = walk["gone"] \cup walk["hit"]]
    /\ UNCHANGED <<device, counters, queue, scanPc, flushing, scanNo, hand,
                   parser, buffers, batch, flight, reply, main, resets,
                   cleanups>>

EndWalk ==
    /\ Walking /\ LockFree
    /\ walk = NoWalk
    /\ state' = "Parsing"
    /\ scanPc' = "notify"
    /\ UNCHANGED <<available, newMounted, counters, queue, flushing, walk,
                   scanNo, hand, parser, buffers, batch, flight, reply, main,
                   resets, cleanups>>

\* Mistake: the request stays in the queue.
KeepRequest == scanPc' = "wait" /\ UNCHANGED queue

\* The request is dropped and mutex_ released.
PopRequest == scanPc' = "wait" /\ queue' = queue - 1

\* notifyDeviceList after the walk, notifyDeviceScanned when the scan is done:
\* the list is pushed, which asks the device whether it is available.
ScanLists == scanPc \in {"notify", "list"}
ScanReturns ==
    IF scanPc = "notify" THEN scanPc' = "check" /\ UNCHANGED queue ELSE PopRequest

ScanSeesAvailable ==
    /\ ScanLists /\ available
    /\ "scan" \notin zeroed
    /\ ScanReturns
    /\ UNCHANGED <<device, counters, flushing, walk, scanNo, hand, parser,
                   buffers, batch, flight, reply, main, resets, cleanups>>

ScanZeroes ==
    /\ ScanLists /\ ReadFree /\ ~available
    /\ "scan" \notin zeroed
    /\ ZeroCounters("scan")
    /\ UNCHANGED <<device, scanner, hand, parser, buffers, batch, flight,
                   reply, main, crossed, cleanups>>

ScanClears ==
    /\ "scan" \in zeroed
    /\ ClearBuffers("scan")
    /\ state' = "Inactive"
    /\ ScanReturns
    /\ UNCHANGED <<available, newMounted, counters, flushing, walk, scanNo,
                   hand, parser, batch, flight, reply, main, cleanups>>

ScanChecks == scanPc = "check" /\ flushing = "none" /\ CheckFree

\* The counters are compared without lock_, but the state is set under it.
ScanChecksDone ==
    /\ ScanChecks
    /\ AllDone
    /\ scanPc' = "done"
    /\ UNCHANGED <<device, counters, queue, flushing, walk, scanNo, hand,
                   parser, buffers, batch, flight, reply, main, resets,
                   cleanups>>

ScanFinishes ==
    /\ scanPc = "done" /\ LockFree
    /\ FinishScan
    /\ scanPc' = "list"
    /\ UNCHANGED <<available, newMounted, counters, queue, flushing, walk,
                   scanNo, hand, parser, buffers, batch, flight, reply, main,
                   resets>>

ScanChecksNothing ==
    /\ ScanChecks
    /\ state = "Parsing" => LockFree
    /\ ~AllDone /\ ~NeedFlush
    /\ PopRequest
    /\ UNCHANGED <<device, counters, flushing, walk, scanNo, hand, parser,
                   buffers, batch, flight, reply, main, resets, cleanups>>

ScanChecksFlush ==
    /\ ScanChecks /\ LockFree
    /\ NeedFlush
    /\ flushing' = IF NeedDirtyFlushed THEN "unflagDirty" ELSE "flushDeleteItems"
    /\ UNCHANGED <<device, counters, queue, scanPc, walk, scanNo, hand, parser,
                   buffers, batch, flight, reply, main, resets, cleanups>>

\* Mistake: the buffer is sent and not emptied.
FlushCopiesBuffer ==
    /\ flushing # "none" /\ BufferFree
    /\ reBuf # {}
    /\ batch' = [method |-> flushing, items |-> reBuf]
    /\ UNCHANGED <<device, counters, scanner, hand, parser, buffers, flight,
                   reply, main, resets, cleanups>>

\* flushUnflagDirty and flushDeleteItems, on the scan thread: the buffer is
\* made into a batch, which waits for CallbackLock_.
FlushTakesBuffer ==
    /\ flushing # "none" /\ BufferFree
    /\ reBuf # {}
    /\ batch' = [method |-> flushing, items |-> reBuf]
    /\ reBuf' = {}
    /\ UNCHANGED <<device, counters, scanner, hand, parser, firstBuf, flight,
                   reply, main, resets, cleanups>>

\* A flush that returns to processingDone ends the scan request.
FlushReturns ==
    /\ flushing' = "none"
    /\ IF scanPc = "check" THEN PopRequest ELSE UNCHANGED <<scanPc, queue>>

FlushFindsNothing ==
    /\ flushing # "none" /\ BufferFree
    /\ reBuf = {}
    /\ FlushReturns
    /\ UNCHANGED <<device, counters, walk, scanNo, hand, parser, buffers,
                   batch, flight, reply, main, resets, cleanups>>

SendFlush ==
    /\ batch.method \in Flush /\ CanSend
    /\ Send(batch)
    /\ batch' = NoBatch
    /\ FlushReturns
    /\ UNCHANGED <<device, counters, walk, scanNo, hand, parser, buffers,
                   reply, main, resets, cleanups>>

-----------------------------------------------------------------------------
(* The parser's threads: MediaParser::extractMeta, MediaDb::updateMediaItem. *)

\* putMeta locks mutex_ and appends the item,
PutMeta(i) ==
    /\ i \in parseQ /\ newMounted /\ BufferFree
    /\ parseQ' = parseQ \ {i}
    /\ firstBuf' = firstBuf \cup {i}
    /\ putting' = [step |-> "appended", items |-> {i}]
    /\ UNCHANGED <<device, counters, scanner, hand, reBuf, batch, flight,
                   reply, main, resets, cleanups>>

\* counts it,
CountPut ==
    /\ putting.step = "appended" /\ LockFree
    /\ put' = put \cup putting.items
    /\ putting' = [putting EXCEPT !.step = "counted"]
    /\ UNCHANGED <<device, total, processed, dirty, remove, removed, scanner,
                   hand, parseQ, buffers, batch, flight, reply, main, resets,
                   cleanups>>

NeedFlushed == state = "Parsing" /\ Same(total, put)

\* and turns the buffer into a batch if it is full, or if the state and the
\* counts (needFlushed) say that this was the last item.
FlushIf(full, rest) ==
    /\ putting.step = "counted"
    /\ full \/ LockFree
    /\ putting' = NoItem
    /\ IF (full \/ NeedFlushed) /\ firstBuf # {}
       THEN batch' = [method |-> "put", items |-> firstBuf] /\ firstBuf' = rest
       ELSE UNCHANGED <<batch, firstBuf>>
    /\ UNCHANGED <<device, counters, scanner, hand, parseQ, reBuf, flight,
                   reply, main, resets, cleanups>>

\* Mistakes: the batch stays in the buffer; it is made one item too late.
FlushPutKeeps == FlushIf(Cardinality(firstBuf) >= FlushCount, firstBuf)
FlushPutLate  == FlushIf(Cardinality(firstBuf) > FlushCount, {})

FlushPut == FlushIf(Cardinality(firstBuf) >= FlushCount, {})

SendPut ==
    /\ batch.method = "put" /\ CanSend
    /\ Send(batch)
    /\ batch' = NoBatch
    /\ UNCHANGED <<device, counters, scanner, hand, parser, buffers, reply,
                   main, resets, cleanups>>

MergePut(i) ==
    /\ i \in parseQ /\ ~newMounted /\ CanSend
    /\ parseQ' = parseQ \ {i}
    /\ Send([method |-> "mergePut", items |-> {i}])
    /\ UNCHANGED <<device, counters, scanner, hand, putting, buffers, batch,
                   reply, main, resets, cleanups>>

\* The extractor throws: the item is destroyed and nobody counts it.
ParserThrows(i) ==
    /\ "parse" \in Faults
    /\ i \in parseQ
    /\ parseQ' = parseQ \ {i}
    /\ UNCHANGED <<device, counters, scanner, hand, putting, buffers, batch,
                   flight, reply, main, resets, cleanups>>

-----------------------------------------------------------------------------
(* The reply thread: LunaConnector::_Callback, MediaDb::handleLunaResponse. *)

CountReply(m) ==
    /\ reply = "idle" /\ LockFree
    /\ m \in flight
    /\ flight' = flight \ {m}
    /\ IF m.method = "flushDeleteItems"
       THEN removed' = removed \cup m.items /\ UNCHANGED processed
       ELSE processed' = processed \cup m.items /\ UNCHANGED removed
    /\ reply' = "check"
    /\ UNCHANGED <<device, total, put, dirty, remove, scanner, hand, parser,
                   buffers, batch, main, resets, cleanups>>

ReplyChecksDone ==
    /\ reply = "check" /\ CheckFree
    /\ AllDone
    /\ reply' = "done"
    /\ UNCHANGED <<device, counters, scanner, hand, parser, buffers, batch,
                   flight, main, resets, cleanups>>

ReplyFinishes ==
    /\ reply = "done" /\ LockFree
    /\ FinishScan
    /\ reply' = "list"
    /\ UNCHANGED <<available, newMounted, counters, scanner, hand, parser,
                   buffers, batch, flight, main, resets>>

ReplySeesAvailable ==
    /\ reply = "list" /\ available
    /\ "reply" \notin zeroed
    /\ reply' = "idle"
    /\ UNCHANGED <<device, counters, scanner, hand, parser, buffers, batch,
                   flight, main, resets, cleanups>>

ReplyZeroes ==
    /\ reply = "list" /\ ReadFree /\ ~available
    /\ "reply" \notin zeroed
    /\ ZeroCounters("reply")
    /\ UNCHANGED <<device, scanner, hand, parser, buffers, batch, flight,
                   reply, main, crossed, cleanups>>

ReplyClears ==
    /\ "reply" \in zeroed
    /\ ClearBuffers("reply")
    /\ state' = "Inactive"
    /\ reply' = "idle"
    /\ UNCHANGED <<available, newMounted, counters, scanner, hand, parser,
                   batch, flight, main, cleanups>>

ReplyChecksNothing ==
    /\ reply = "check" /\ CheckFree
    /\ state = "Parsing" => LockFree
    /\ ~AllDone /\ ~NeedFlush
    /\ reply' = "idle"
    /\ UNCHANGED <<device, counters, scanner, hand, parser, buffers, batch,
                   flight, main, resets, cleanups>>

ReplyChecksFlush ==
    /\ reply = "check" /\ CheckFree /\ LockFree
    /\ NeedFlush
    /\ reply' = "flush"
    /\ UNCHANGED <<device, counters, scanner, hand, parser, buffers, batch,
                   flight, main, resets, cleanups>>

\* The flush would have to send, which locks CallbackLock_ a second time: the
\* thread never gets any further, and keeps every lock it holds.
ReplyFlushes ==
    /\ reply = "flush" /\ BufferFree
    /\ reply' = IF reBuf = {} THEN "idle" ELSE "stuck"
    /\ UNCHANGED <<device, counters, scanner, hand, parser, buffers, batch,
                   flight, main, resets, cleanups>>

-----------------------------------------------------------------------------
(* The main loop's thread: device events and requestMediaScan.             *)

\* deviceStateChanged goes on to Device::scan once unmarkAllDirty returned; no
\* lock is held.
ScanResets ==
    /\ main = "detected" /\ "main" \notin zeroed
    /\ ZeroCounters("main")
    /\ UNCHANGED <<device, scanner, hand, parser, buffers, batch, flight,
                   reply, main, crossed, cleanups>>

\* What follows a reset: Device::scan is on its way to the queue, and a device
\* that is not available becomes Inactive before lock_ is released.
MainClears ==
    /\ "main" \in zeroed
    /\ ClearBuffers("main")
    /\ IF main \in {"removed", "list"}
       THEN state' = "Inactive" /\ main' = "idle"
       ELSE /\ UNCHANGED state
            /\ main' = IF main = "detected" THEN "push" ELSE main
    /\ UNCHANGED <<available, newMounted, counters, scanner, hand, parser,
                   batch, flight, reply, cleanups>>

\* The request waits for the scan under way before it is queued.
PushRequest ==
    /\ main \in {"push", "api"} /\ "main" \notin zeroed /\ ScanFree
    /\ queue' = queue + 1
    /\ main' = "idle"
    /\ UNCHANGED <<device, counters, scanPc, flushing, walk, scanNo, hand,
                   parser, buffers, batch, flight, reply, resets, cleanups>>

\* Bound on the scans a behaviour asks for.
MayRequest == scanNo + queue < MaxScans + (IF ScanFree THEN 0 ELSE 1)

\* Plugin::addDevice on a known device that is not available.
DeviceAdded ==
    /\ main = "idle" /\ LockFree /\ ~available /\ MayRequest
    /\ available' = TRUE
    /\ state' = "Idle"
    /\ newMounted' = FALSE
    /\ main' = "detected"
    /\ UNCHANGED <<counters, scanner, hand, parser, buffers, batch, flight,
                   reply, resets, cleanups>>

\* Plugin::addDevice on a device that is available already.
DeviceAddedAgain ==
    /\ main = "idle" /\ LockFree /\ available
    /\ newMounted' = FALSE
    /\ UNCHANGED <<state, available, counters, scanner, hand, parser, buffers,
                   batch, flight, reply, main, resets, cleanups>>

\* Plugin::removeDevice, removeAll: setAvailable(false) up to the buffers.
DeviceRemoved ==
    /\ main = "idle" /\ LockFree /\ available
    /\ available' = FALSE
    /\ ZeroCounters("main")
    /\ main' = "removed"
    /\ UNCHANGED <<state, newMounted, scanner, hand, parser, buffers, batch,
                   flight, reply, crossed, cleanups>>

\* IndexerService::requestMediaScan, up to the buffers.
RequestMediaScan ==
    /\ main = "idle" /\ available /\ MayRequest
    /\ ZeroCounters("main")
    /\ main' = "api"
    /\ UNCHANGED <<device, scanner, hand, parser, buffers, batch, flight,
                   reply, crossed, cleanups>>

\* Any other look at a device that is not available, e.g. the pushDeviceList
\* for a client's getDeviceList, up to the buffers.
PushDeviceList ==
    /\ main = "idle" /\ ~available
    /\ ZeroCounters("main")
    /\ main' = "list"
    /\ UNCHANGED <<device, scanner, hand, parser, buffers, batch, flight,
                   reply, crossed, cleanups>>

-----------------------------------------------------------------------------
(* A device has just been added: for the first time, in the state of its   *)
(* constructor, or once more after it was away, with a cache from before.  *)
Init ==
    /\ available = TRUE /\ newMounted \in Mounts
    /\ state = IF newMounted THEN "Inactive" ELSE "Idle"
    /\ total = {} /\ processed = {} /\ put = {}
    /\ dirty = {} /\ remove = {} /\ removed = {}
    /\ queue = 0 /\ scanPc = "wait" /\ flushing = "none"
    /\ walk = NoWalk /\ scanNo = 0 /\ hand = NoItem
    /\ parseQ = {} /\ putting = NoItem
    /\ firstBuf = {} /\ reBuf = {} /\ batch = NoBatch
    /\ flight = {} /\ reply = "idle"
    /\ main = "detected"
    /\ zeroed = {} /\ crossed = {}
    /\ cleanups = 0

WalkStep ==
    \/ \E i \in Item : FindItem(i) \/ RequestDeleteItem(i) \/ CountRemove(i)
    \/ SkipCached \/ QueueForParser \/ UnflagDirty \/ CountDirty

ScanThread ==
    \/ BeginScan \/ WalkStep \/ EndWalk
    \/ ScanSeesAvailable \/ ScanZeroes \/ ScanClears
    \/ ScanChecksDone \/ ScanFinishes \/ ScanChecksNothing \/ ScanChecksFlush
    \/ FlushTakesBuffer \/ FlushFindsNothing \/ SendFlush

ParserThreads ==
    \/ \E i \in Item : PutMeta(i) \/ MergePut(i)
    \/ CountPut \/ FlushPut \/ SendPut

ReplyThread ==
    \/ \E m \in flight : CountReply(m)
    \/ ReplyChecksDone \/ ReplyFinishes
    \/ ReplySeesAvailable \/ ReplyZeroes \/ ReplyClears
    \/ ReplyChecksNothing \/ ReplyChecksFlush \/ ReplyFlushes

MainThread == ScanResets \/ MainClears \/ PushRequest

Errors == WalkThrows \/ \E i \in Item : ParserThrows(i)

Events == DeviceAddedAgain \/ DeviceRemoved \/ RequestMediaScan

Threads == ScanThread \/ ParserThreads \/ ReplyThread \/ MainThread

\* Devices come and go, and scans are requested, at any time.
Next == Threads \/ Errors \/ Events \/ DeviceAdded \/ PushDeviceList

Spec == Init /\ [][Next]_vars

\* The environment waits until the device reports Idle, with no request
\* pending, before it removes the device or asks for another scan.
Settled == state = "Idle" /\ queue = 0

CalmNext ==
    Threads \/ Errors \/ (Settled /\ Events) \/ DeviceAdded \/ PushDeviceList

CalmSpec == Init /\ [][CalmNext]_vars

\* The threads keep running and the database answers every call.
Fairness ==
    /\ WF_vars(ScanThread) /\ WF_vars(ParserThreads)
    /\ WF_vars(ReplyThread) /\ WF_vars(MainThread)

FairCalmSpec == CalmSpec /\ Fairness
-----------------------------------------------------------------------------
(* Properties.                                                             *)

InFlight == UNION {m.items : m \in flight}

\* Counted as found, and not yet handed on by the scan thread.
InHand == IF hand.step \in Found THEN hand.items ELSE {}

\* Items whose operation has not been answered yet, wherever it is kept.
Pipeline == InHand \cup parseQ \cup firstBuf \cup reBuf \cup batch.items
                \cup InFlight

\* As long as the environment waits for Idle, a device that reports Idle
\* ("Scan has been completed") has no item left in the parser, in a buffer or
\* on its way to the database - although the counts of unflagDirty and of
\* flushDeleteItems replies are mixed up by the buffer the two share.
IdleMeansComplete == state = "Idle" => Pipeline = {}

\* Whatever happens to the device meanwhile, an item that the counters hold as
\* found or as to be deleted is answered or still on its way, unless it was
\* found, or counted as to be deleted, while a reset of the counters was under
\* way: no flush, no full buffer, no removal and no reset of the scan before
\* drops it.  (An item that crosses a reset may well be counted and dropped:
\* resetMediaItemCount zeroes the counters first and clears the buffers then.)
NoCountedItemLost ==
    total \cup remove \subseteq processed \cup removed \cup Pipeline \cup crossed

\* An item waits in one place only, so that its operation is sent once.
OperationsDisjoint ==
    /\ InHand \cap (parseQ \cup firstBuf \cup reBuf \cup batch.items
                       \cup InFlight) = {}
    /\ parseQ \cap (firstBuf \cup reBuf \cup batch.items \cup InFlight) = {}
    /\ firstBuf \cap (reBuf \cup batch.items \cup InFlight) = {}
    /\ reBuf \cap (batch.items \cup InFlight) = {}
    /\ batch.items \cap InFlight = {}
    /\ \A m, n \in flight : m # n => m.items \cap n.items = {}

\* The scan thread and the reply thread both ask processingDone, but one scan
\* activates the cleanup task at most once.
CleanupOncePerScan == cleanups <= scanNo

\* A scan that has begun is reported as completed.
ScanCompletes == (state = "Scanning") ~> (state = "Idle")

\* The cleanup task is activated when nothing is left to be answered.
CompletionIsReal == [][cleanups' # cleanups => Pipeline' = {}]_vars

\* The device's state as a client sees it.
Phase ==
    IF state = "Scanning" THEN "walk"
    ELSE IF state = "Parsing" THEN "work" ELSE "idle"

Promise == INSTANCE ScanPromise
               WITH Work <- Item, phase <- Phase, pending <- Pipeline

\* As long as the environment waits for Idle, the buffers, batches, threads
\* and counters add up to the plain scan of ScanPromise: operations are asked
\* for in Scanning only, and Parsing ends when the last one is answered.
PromiseKept == Promise!Spec

\* No thread has anything left to do.
Quiet ==
    /\ parseQ = {} /\ putting = NoItem /\ batch = NoBatch /\ flight = {}
    /\ queue = 0 /\ scanPc = "wait" /\ reply = "idle" /\ main = "idle"

\* Every parsed item of a first scan gets to the database.
NoPutStranded == Quiet => firstBuf = {}

\* The reply thread gets on with the next answer.
ReplyThreadRuns == reply # "stuck"

-----------------------------------------------------------------------------
(* Inductive invariants, named part by part.                               *)

\* What a walk has still to visit belongs to the scan under way.
WalkOK ==
    /\ \A c \in Classes : walk[c] \subseteq {scanNo} \X Files
    /\ \A c, d \in Classes : c # d => walk[c] \cap walk[d] = {}
    /\ scanPc # "walk" => walk = NoWalk

\* The items S are of scans that have begun, and have been visited.
Visible(S) ==
    /\ \A i \in S : i[1] <= scanNo
    /\ \A c \in Classes : walk[c] \cap S = {}

\* At any time: one operation per item, and none for an item not visited yet.
FlowInv == OperationsDisjoint /\ WalkOK /\ Visible(Pipeline)

\* At any time: what was counted since the counters were zeroed, and before
\* the buffers are cleared, has crossed the reset; and an item that is about
\* to be counted as to be deleted is in the buffer, or has crossed one.
ResetInv ==
    /\ NoCountedItemLost
    /\ zeroed # {} => total \cup remove \subseteq crossed
    /\ hand.step = "remove" => hand.items \subseteq reBuf \cup crossed

Wanted   == total \cup remove
Answered == processed \cup removed

\* Counted as to be deleted in the next step.
ToRemove == IF hand.step = "remove" THEN hand.items ELSE {}

\* The counters hold what has been visited; what is answered was wanted, and is
\* not wanted any more; what is in the buffers is wanted or about to be.
CountersInv ==
    /\ Visible(Wanted \cup ToRemove)
    /\ total \cap remove = {} /\ processed \cap removed = {}
    /\ Answered \subseteq Wanted
    /\ Pipeline \subseteq Wanted \cup ToRemove
    /\ Answered \cap Pipeline = {} /\ Wanted \cap ToRemove = {}
    /\ ToRemove \subseteq reBuf

Resting == {"Idle", "Inactive"}

\* Nothing is under way on a device that is not available, or between an event
\* and the request for a scan it leads to.
ParkedInv ==
    /\ Requesting => available
    /\ main \in {"removed", "list"} \/ zeroed \cap {"scan", "reply"} # {}
           => ~available
    /\ ~available => Wanted = {}
    /\ ~available \/ main # "idle" =>
           Pipeline = {} /\ queue = 0 /\ state \in Resting

\* A thread that has found a scan done finds it done still, and a scan begins
\* in a device that has nothing to do.
DoneInv ==
    /\ scanPc = "done" \/ reply = "done"
           => state = "Parsing" /\ Wanted \subseteq Answered
    /\ queue <= 1
    /\ scanPc = "wait" /\ queue = 1 => state \in Resting
    /\ state \in Resting => Pipeline = {}

\* If the environment waits for Idle: a state tells what the counters hold.
CalmInv ==
    /\ FlowInv /\ CountersInv /\ ParkedInv /\ DoneInv
    /\ scanPc = "walk" => state = "Scanning"

\* At any time: a walk, and a scan that is about to be found done or has been,
\* are scans the cleanups do not include.
Finishing == state = "Parsing" \/ scanPc = "done" \/ reply = "done"
CleanupInv ==
    /\ scanPc = "walk" => state # "Parsing"
    /\ scanPc = "done" => reply # "done"
    /\ cleanups + (IF scanPc = "walk" THEN 1 ELSE 0)
                 + (IF Finishing THEN 1 ELSE 0) <= scanNo
=============================================================================
