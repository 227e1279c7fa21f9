----------------------------- MODULE MediaIndex -----------------------------
(***************************************************************************)
(* What the indexer remembers of one removable device, over many scans:    *)
(* the rows of the media database, the cache file of the last walk, and    *)
(* the record of the device that makes it a known one.  All three outlive  *)
(* the service; the disk changes while nobody looks.                       *)
(*                                                                         *)
(* A file is known by its uri, a version of it by its hash (the time of    *)
(* the last write).  Rows of one uri that agree in hash and dirty flag are *)
(* one element here: every operation on the database treats them alike.    *)
(* How an operation travels through parser, buffers and batches is the     *)
(* subject of ScanPipeline; here it is pending until it is answered.  That *)
(* a scan ends when none is pending is assumed here, and what ScanPipeline *)
(* shows of the counters that decide it (PromiseKept).                     *)
(***************************************************************************)
EXTENDS Naturals, FiniteSets

CONSTANTS
    Files,        \* uris of the media files the device may hold
    Hashes,
    NoFile,       \* stands for the hash of a file that is not there
    MaxCleanups,  \* bound: cleanups waiting for their search
    Faults        \* which errors happen: "walk", "cache", "crash"

ASSUME NoFileAssumption == NoFile \notin Hashes
ASSUME CleanupsAssumption == MaxCleanups \in Nat \ {0}

VARIABLES
    disk,                  \* the files on the device
    rows, record,          \* MediaDb, DeviceDb
    cacheFile, hasCache,   \* the cache file, and whether there is one
    pc,                    \* of the service and its scan
    device, newMounted,    \* Device
    toVisit, withCache, cacheMap, cacheItems,   \* the walk under way
    ops,                   \* operations not yet answered
    cleanups, doomed,      \* cleanup tasks, rows they are about to delete
    complete, torn, owed, missed   \* history: see the properties

stores  == <<rows, record, cacheFile, hasCache>>
walk    == <<toVisit, withCache, cacheMap, cacheItems>>
cleaner == <<cleanups, doomed>>
history == <<complete, torn, owed, missed>>
vars == <<disk, stores, pc, device, newMounted, walk, ops, cleaner, history>>

Contents == [Files -> Hashes \cup {NoFile}]
Nothing  == [f \in Files |-> NoFile]
There(c) == {f \in Files : c[f] # NoFile}
Row      == [hash : Hashes, dirty : BOOLEAN]
Op == [method : {"put", "mergePut", "unflagDirty", "del"}, file : Files,
       hash : Hashes]

TypeOK ==
    /\ disk \in Contents
    /\ rows \in [Files -> SUBSET Row]
    /\ record \in {"none", "sent", "stored"}
    /\ cacheFile \in Contents /\ hasCache \in BOOLEAN
    /\ pc \in {"off", "idle", "queued", "walk", "generate", "work"}
    /\ device \in {"unknown", "away", "here"}
    /\ pc \in {"queued", "walk", "generate", "work"} => device = "here"
    /\ newMounted \in BOOLEAN
    /\ toVisit \subseteq Files /\ withCache \in BOOLEAN
    /\ cacheMap \in Contents /\ cacheItems \in Contents
    /\ ops \subseteq Op
    /\ cleanups \in 0 .. MaxCleanups
    /\ doomed \subseteq Files
    /\ complete \in BOOLEAN /\ torn \in BOOLEAN
    /\ owed \subseteq Files /\ missed \subseteq Files

-----------------------------------------------------------------------------
(* The database.                                                           *)

Flagged(R, d) == {[r EXCEPT !.dirty = d] : r \in R}
SetDirty(d)   == rows' = [f \in Files |-> Flagged(rows[f], d)]
Fresh(o)      == {[hash |-> o.hash, dirty |-> FALSE]}

\* The rows of its file after operation o on the rows R.
Applied(o, R) ==
    (IF o.method \in {"put", "mergePut"} THEN Fresh(o) ELSE {})
      \cup (IF o.method = "put" THEN R ELSE {})
      \cup (IF o.method = "unflagDirty" THEN Flagged(R, FALSE) ELSE {})

\* needUpdate looks at the first row of the file that the database returns.
NeedUpdate(f) ==
    rows[f] = {} \/ \E r \in rows[f] : r.hash # disk[f]
UpToDate(f) == \E r \in rows[f] : r.hash = disk[f]

-----------------------------------------------------------------------------
(* The service and its device.                                             *)

\* setDetect: devices of DeviceDb are injected as not available, and their
\* rows are marked dirty when MediaIndexer is told of them.
StartService ==
    /\ pc = "off"
    /\ pc' = "idle"
    /\ IF record = "stored"
       THEN device' = "away" /\ SetDirty(TRUE)
       ELSE device' = "unknown" /\ UNCHANGED rows
    /\ newMounted' = TRUE
    /\ UNCHANGED <<disk, record, cacheFile, hasCache, walk, ops, cleaner,
                   history>>

\* addDevice; deviceStateChanged of DeviceDb writes the record, that of
\* MediaIndexer resets the dirty flags, waits for it, and asks for a scan.
AddDevice ==
    /\ pc = "idle" /\ device # "here" /\ cleanups < MaxCleanups
    /\ device' = "here"
    /\ newMounted' = (device = "unknown")
    /\ record' = IF record = "stored" THEN record ELSE "sent"
    /\ SetDirty(FALSE)
    /\ pc' = "queued"
    /\ UNCHANGED <<disk, cacheFile, hasCache, walk, ops, cleaner, history>>

\* The device is announced or injected while it is there.
AddAgain ==
    /\ pc = "idle" /\ device = "here"
    /\ newMounted' = FALSE
    /\ UNCHANGED <<disk, stores, pc, device, walk, ops, cleaner, history>>

\* DeviceDb::updateDevice gets to the database.
RecordDevice ==
    /\ pc # "off" /\ record = "sent"
    /\ record' = "stored"
    /\ UNCHANGED <<disk, rows, cacheFile, hasCache, pc, device, newMounted,
                   walk, ops, cleaner, history>>

\* removeDevice, once the device reports Idle; its rows are marked dirty.
RemoveDevice ==
    /\ pc = "idle" /\ device = "here"
    /\ device' = "away"
    /\ SetDirty(TRUE)
    /\ UNCHANGED <<disk, record, cacheFile, hasCache, pc, newMounted, walk,
                   ops, cleaner, history>>

RequestMediaScan ==
    /\ pc = "idle" /\ device = "here" /\ cleanups < MaxCleanups
    /\ pc' = "queued"
    /\ UNCHANGED <<disk, stores, device, newMounted, walk, ops, cleaner,
                   history>>

\* Somebody writes or deletes a file, while the device is here or elsewhere;
\* a walk sees the disk as it is when the walk begins.
ChangeDisk ==
    /\ pc # "walk"
    /\ \E f \in Files, h \in Hashes \cup {NoFile} :
        h # disk[f] /\ disk' = [disk EXCEPT ![f] = h]
    /\ complete' = FALSE
    /\ UNCHANGED <<stores, pc, device, newMounted, walk, ops, cleaner, torn,
                   owed, missed>>

-----------------------------------------------------------------------------
(* The walk: Plugin::scan, with the cache or without.                      *)

\* Mistake: the file stays where it is.
ReadCacheKeeps ==
    /\ ~newMounted /\ hasCache
    /\ withCache' = TRUE
    /\ cacheMap' = cacheFile
    /\ UNCHANGED <<cacheFile, hasCache>>

\* readCache takes the file's contents and removes the file.
ReadCache ==
    /\ ~newMounted /\ hasCache
    /\ withCache' = TRUE
    /\ cacheMap' = cacheFile
    /\ cacheFile' = Nothing /\ hasCache' = FALSE

\* createCache: an empty one; the file, if there is one, is left alone.
CreateCache ==
    /\ newMounted \/ ~hasCache
    /\ withCache' = FALSE
    /\ cacheMap' = Nothing
    /\ UNCHANGED <<cacheFile, hasCache>>

BeginWalk ==
    /\ pc = "queued"
    /\ pc' = "walk"
    /\ ReadCache \/ CreateCache
    /\ toVisit' = There(disk)
    /\ cacheItems' = Nothing
    /\ complete' = TRUE
    /\ missed' = missed \cup
          {f \in Files : rows[f] # {} /\ disk[f] = NoFile /\ cacheMap'[f] = NoFile}
    /\ UNCHANGED <<disk, rows, record, device, newMounted, ops, cleaner, torn,
                   owed>>

\* Mistake: isExist does not carry an item over to the next cache.
VisitedForgets(f) ==
    /\ pc = "walk" /\ f \in toVisit
    /\ toVisit' = toVisit \ {f}
    /\ cacheMap' = [cacheMap EXCEPT ![f] = NoFile]
    /\ cacheItems' =
          IF cacheMap[f] = disk[f] THEN cacheItems
          ELSE [cacheItems EXCEPT ![f] = disk[f]]
    /\ UNCHANGED <<disk, stores, pc, device, newMounted, withCache, cleaner,
                   history>>

\* What isExist and insertItem do to the cache, whatever the answer.
Visited(f) ==
    /\ pc = "walk" /\ f \in toVisit
    /\ toVisit' = toVisit \ {f}
    /\ cacheMap' = [cacheMap EXCEPT ![f] = NoFile]
    /\ cacheItems' = [cacheItems EXCEPT ![f] = disk[f]]
    /\ UNCHANGED <<disk, stores, pc, device, newMounted, withCache, cleaner,
                   history>>

\* The walk is over, its cache object and iterator are gone.
WalkOver ==
    /\ toVisit' = {} /\ withCache' = FALSE
    /\ cacheMap' = Nothing /\ cacheItems' = Nothing

\* Mistake: the hash is not compared.
IsExistByName(f) == withCache /\ cacheMap[f] # NoFile

IsExist(f) == withCache /\ cacheMap[f] = disk[f]

Ask(method, f, h) ==
    ops' = ops \cup {[method |-> method, file |-> f, hash |-> h]}

SkipCached(f)    == Visited(f) /\ IsExist(f) /\ UNCHANGED ops
PutMeta(f)       == Visited(f) /\ ~IsExist(f) /\ newMounted
                    /\ Ask("put", f, disk[f])
MergePut(f)      == Visited(f) /\ ~IsExist(f) /\ ~newMounted
                    /\ NeedUpdate(f) /\ Ask("mergePut", f, disk[f])
UnflagDirty(f)   == Visited(f) /\ ~IsExist(f) /\ ~newMounted
                    /\ UpToDate(f) /\ Ask("unflagDirty", f, disk[f])

\* What remains in the cache is taken for gone: its rows are to be deleted.
RequestDeletes ==
    /\ pc' = "generate"
    /\ ops' = ops \cup {[method |-> "del", file |-> f, hash |-> cacheMap[f]] :
                          f \in There(cacheMap)}

EndWalk ==
    /\ pc = "walk" /\ toVisit = {}
    /\ RequestDeletes
    /\ UNCHANGED <<disk, stores, device, newMounted, walk, cleaner, history>>

\* The iterator throws.  With the cache the walk goes on to its end, without
\* it no cache file is written.
WalkThrows ==
    /\ "walk" \in Faults
    /\ pc = "walk" /\ toVisit # {}
    /\ IF withCache
       THEN RequestDeletes /\ UNCHANGED <<walk, torn>>
       ELSE pc' = "work" /\ WalkOver /\ torn' = TRUE /\ UNCHANGED ops
    /\ complete' = FALSE
    /\ UNCHANGED <<disk, stores, device, newMounted, cleaner, owed, missed>>

\* The cache file is written; or the old one is removed and it cannot be.
GenerateCacheFile ==
    /\ pc = "generate"
    /\ pc' = "work"
    /\ \/ cacheFile' = cacheItems /\ hasCache' = TRUE
       \/ "cache" \in Faults /\ cacheFile' = Nothing /\ hasCache' = FALSE
    /\ WalkOver
    /\ torn' = (torn /\ toVisit # {})
    /\ UNCHANGED <<disk, rows, record, device, newMounted, ops, cleaner,
                   complete, owed, missed>>

-----------------------------------------------------------------------------
(* Answers, and the cleanup after the scan.                                *)

Answer(o) ==
    /\ o \in ops
    /\ ops' = ops \ {o}
    /\ rows' = [rows EXCEPT ![o.file] = Applied(o, @)]
    /\ IF o.method \in {"put", "mergePut"}
          /\ cacheFile[o.file] \in {NoFile, o.hash}
       THEN owed' = owed \ {o.file} ELSE UNCHANGED owed
    /\ IF o.method = "put" /\ rows[o.file] # {}
       THEN missed' = missed \cup {o.file} ELSE UNCHANGED missed
    /\ UNCHANGED <<disk, record, cacheFile, hasCache, pc, device, newMounted,
                   walk, cleaner, complete, torn>>

\* Mistake: the state is not changed.
FinishStays ==
    /\ pc = "work" /\ ops = {}
    /\ cleanups' = cleanups + 1
    /\ UNCHANGED <<disk, stores, pc, device, newMounted, walk, ops, doomed,
                   history>>

\* processingDone: Idle is reported, the cleanup task activated, when the
\* counters say that everything is answered - see ScanPipeline.
FinishScan ==
    /\ pc = "work" /\ ops = {}
    /\ pc' = "idle"
    /\ cleanups' = cleanups + 1
    /\ UNCHANGED <<disk, stores, device, newMounted, walk, ops, doomed, history>>

\* removeDirty: the cleanup task's search reaches the database.
SearchDirty ==
    /\ pc # "off" /\ cleanups > 0
    /\ cleanups' = cleanups - 1
    /\ doomed' = doomed \cup {f \in Files : \E r \in rows[f] : r.dirty}
    /\ UNCHANGED <<disk, stores, pc, device, newMounted, walk, ops, history>>

\* ... and one of the deletions that its answer leads to.
DeleteDirty(f) ==
    /\ f \in doomed
    /\ doomed' = doomed \ {f}
    /\ rows' = [rows EXCEPT ![f] = {}]
    /\ owed' = owed \cup {f}
    /\ UNCHANGED <<disk, record, cacheFile, hasCache, pc, device, newMounted,
                   walk, ops, cleanups, complete, torn, missed>>

\* The service stops; what was on its way to the database is lost.
Crash ==
    /\ "crash" \in Faults /\ pc # "off"
    /\ pc' = "off"
    /\ device' = "unknown" /\ newMounted' = TRUE
    /\ record' = IF record = "sent" THEN "none" ELSE record
    /\ WalkOver
    /\ ops' = {} /\ cleanups' = 0 /\ doomed' = {}
    /\ complete' = FALSE
    /\ torn' = (torn \/ pc \in {"walk", "generate"})
    /\ owed' = IF hasCache THEN owed \cup {o.file : o \in ops} ELSE owed
    /\ UNCHANGED <<disk, rows, cacheFile, hasCache, missed>>

-----------------------------------------------------------------------------
\* The service is started for the first time.
Init ==
    /\ disk \in Contents
    /\ rows = [f \in Files |-> {}] /\ record = "none"
    /\ cacheFile = Nothing /\ hasCache = FALSE
    /\ pc = "off" /\ device = "unknown" /\ newMounted = TRUE
    /\ toVisit = {} /\ withCache = FALSE
    /\ cacheMap = Nothing /\ cacheItems = Nothing
    /\ ops = {} /\ cleanups = 0 /\ doomed = {}
    /\ complete = FALSE /\ torn = FALSE /\ owed = {} /\ missed = {}

Visit(f) == SkipCached(f) \/ PutMeta(f) \/ MergePut(f) \/ UnflagDirty(f)

Next ==
    \/ StartService \/ AddDevice \/ AddAgain \/ RecordDevice \/ RemoveDevice
    \/ RequestMediaScan \/ ChangeDisk
    \/ BeginWalk \/ EndWalk \/ WalkThrows \/ GenerateCacheFile
    \/ \E f \in Files : Visit(f) \/ DeleteDirty(f)
    \/ \E o \in ops : Answer(o)
    \/ FinishScan \/ SearchDirty \/ Crash

Spec == Init /\ [][Next]_vars

-----------------------------------------------------------------------------
(* Properties.                                                             *)
(*                                                                         *)
(* History: complete - the last scan saw the whole disk as it still is;    *)
(* torn - a walk without the cache was cut short, so that the cache file   *)
(* of the walk before is still there; owed - files that the cache may      *)
(* promise without a row, since a crash lost the answer or the cleanup     *)
(* deleted the row; missed - files with a row that a put doubled, or that  *)
(* were gone when a walk began and that its cache did not name.            *)

Current == pc = "idle" /\ device = "here" /\ complete

RowOf(f) ==
    IF disk[f] = NoFile THEN {} ELSE {[hash |-> disk[f], dirty |-> FALSE]}

\* When a device reports Idle, its rows are its files, each with the hash of
\* the file and none of them dirty - through crashes, lost caches and walks cut
\* short, but for the files that the history names.
IndexIsDisk ==
    Current => \A f \in Files \ (owed \cup missed) : rows[f] = RowOf(f)

\* A file the cache vouches for is in the database or on its way there, so that
\* a walk may skip it ("not needed extraction") at any later time.
CacheIsTrue ==
    \A f \in There(cacheFile) \ owed :
        \/ \E r \in rows[f] : r.hash = cacheFile[f]
        \/ \E o \in ops : o.file = f /\ o.hash = cacheFile[f]

\* The cache names every file that has a row, so that a walk with the cache
\* finds out which of them are gone.
CacheCoversRows ==
    pc = "idle" /\ hasCache /\ ~torn =>
        \A f \in Files \ (owed \cup missed) :
            rows[f] # {} => cacheFile[f] # NoFile

\* Every file of a device that reports Idle has a row: the cleanup task deletes
\* only what is "not matched to media files".
FilesAreIndexed ==
    Current => \A f \in There(disk) : \E r \in rows[f] : r.hash = disk[f]

-----------------------------------------------------------------------------
(* Inductive invariants, named part by part.                               *)

\* The caches in memory live as long as the walk; a walk that is not a first
\* scan has no cache file behind it.
WalkInv ==
    /\ pc \notin {"walk", "generate"} =>
          cacheItems = Nothing /\ ~withCache /\ toVisit = {}
    /\ pc = "walk" =>
          /\ \A f \in toVisit : disk[f] # NoFile /\ cacheItems[f] = NoFile
          /\ \A f \in There(cacheMap) : cacheItems[f] = NoFile
    /\ ~withCache => cacheMap = Nothing
    /\ withCache => ~newMounted
    /\ ~hasCache => cacheFile = Nothing
    /\ pc \in {"walk", "generate"} /\ ~newMounted => cacheFile = Nothing
    /\ pc \in {"queued", "walk", "generate", "work"} => cleanups < MaxCleanups

\* Operations belong to the scan under way, one for a file, and agree with what
\* its walk has noted.
OpsInv ==
    /\ pc \in {"off", "idle", "queued"} => ops = {}
    /\ \A o, p \in ops : o.file = p.file => o = p
    /\ \A o \in ops :
          /\ pc = "walk" => o.file \notin toVisit /\ cacheMap[o.file] = NoFile
          /\ o.method = "del" =>
                cacheFile[o.file] = NoFile /\ cacheItems[o.file] = NoFile
          /\ o.method # "del" /\ pc \in {"walk", "generate"} =>
                cacheItems[o.file] = o.hash
          /\ o.method = "mergePut" => cacheFile[o.file] \in {NoFile, o.hash}
          /\ o.method = "unflagDirty" =>
                o.file \in owed \/ \E r \in rows[o.file] : r.hash = o.hash

\* A row of version h, or an operation that will leave one.
Backed(f, h) ==
    \/ f \in owed
    \/ \E r \in rows[f] : r.hash = h
    \/ \E o \in ops : o.file = f /\ o.hash = h

\* What CacheIsTrue says of the file holds of the caches in memory: the one
\* a walk was given, and the one it is making.
ClaimsInv ==
    \A f \in Files :
        /\ cacheFile[f] # NoFile => Backed(f, cacheFile[f])
        /\ cacheItems[f] # NoFile => Backed(f, cacheItems[f])
        /\ pc = "walk" /\ cacheMap[f] # NoFile => Backed(f, cacheMap[f])

IInv == TypeOK /\ WalkInv /\ OpsInv /\ ClaimsInv

Safe == Files \ (owed \cup missed)
Deleting(f) == \E o \in ops : o.file = f /\ o.method = "del"
InCaches(f) == cacheItems[f] # NoFile \/ cacheMap[f] # NoFile

\* What CacheCoversRows says of the cache file, from the walk that makes it to
\* the walk that uses it.  A cache left behind by a walk that was cut short
\* covers nothing, until a walk has seen every file again.
CoverInv ==
    /\ pc \notin {"walk", "generate"} /\ hasCache /\ ~torn =>
          /\ \A f \in Safe :
                rows[f] # {} => cacheFile[f] # NoFile \/ Deleting(f)
          /\ \A o \in ops : o.method # "del" => cacheFile[o.file] # NoFile
    /\ pc = "walk" =>
          \A f \in Files :
             /\ ~Deleting(f)
             /\ f \in Safe /\ rows[f] # {} =>
                   InCaches(f) \/ (f \in toVisit /\ (torn \/ ~withCache))
    /\ pc = "generate" =>
          \A f \in Safe :
             rows[f] # {} => \/ cacheItems[f] # NoFile
                             \/ Deleting(f)
                             \/ torn /\ toVisit # {}

\* A device that is here has no dirty row, and only a put makes two rows of
\* one file.
RowsInv ==
    /\ device = "here" => \A f \in Files : \A r \in rows[f] : ~r.dirty
    /\ \A f \in Files \ missed : \A r, s \in rows[f] : r = s

\* The walk or an answer is still to settle what the rows of f are.
Open(f) ==
    \/ \E o \in ops : o.file = f
    \/ pc = "walk" /\ (f \in toVisit \/ cacheMap[f] # NoFile)

\* What IndexIsDisk says of an idle device, from the beginning of the walk: an
\* operation agrees with the disk, and so do the rows no operation waits for.
DiskInv ==
    /\ pc = "walk" =>
          \A f \in Files :
             cacheMap[f] # NoFile /\ disk[f] # NoFile => f \in toVisit
    /\ complete /\ device = "here" /\ pc # "queued" =>
          /\ \A o \in ops :
                disk[o.file] = IF o.method = "del" THEN NoFile ELSE o.hash
          /\ \A f \in Safe : ~Open(f) => rows[f] = RowOf(f)

IndexInv == IInv /\ CoverInv /\ RowsInv /\ DiskInv
=============================================================================
