-------------------------- MODULE MediaIndexProofs --------------------------
(***************************************************************************)
(* What the cache file says of the database is true at any time, for any   *)
(* files, versions, errors and crashes; and the rows of a device that      *)
(* reports Idle are its files.                                             *)
(***************************************************************************)
EXTENDS MediaIndex, TLAPS

-----------------------------------------------------------------------------
(* Rows.                                                                   *)

LEMMA FlaggedRows ==
    ASSUME NEW R \in SUBSET Row, NEW d \in BOOLEAN
    PROVE  /\ Flagged(R, d) \in SUBSET Row
           /\ \A h : (\E r \in Flagged(R, d) : r.hash = h)
                       <=> (\E r \in R : r.hash = h)
  <1> DEFINE Set(r) == [r EXCEPT !.dirty = d]
  <1>1. \A r \in R : Set(r) \in Row /\ Set(r).hash = r.hash
    BY DEF Row
  <1>2. Flagged(R, d) = {Set(r) : r \in R}
    BY DEF Flagged
  <1> HIDE DEF Set
  <1> QED
    BY <1>1, <1>2

LEMMA SetDirtyRows ==
    ASSUME TypeOK, NEW d \in BOOLEAN, SetDirty(d)
    PROVE  /\ rows' \in [Files -> SUBSET Row]
           /\ \A f \in Files : \A h : (\E r \in rows'[f] : r.hash = h)
                                    <=> (\E r \in rows[f] : r.hash = h)
  <1>1. ASSUME NEW f \in Files
        PROVE  /\ rows'[f] \in SUBSET Row
               /\ \A h : (\E r \in rows'[f] : r.hash = h)
                           <=> (\E r \in rows[f] : r.hash = h)
    <2>1. rows[f] \in SUBSET Row
      BY DEF TypeOK
    <2>2. rows'[f] = Flagged(rows[f], d)
      BY DEF SetDirty
    <2>3. /\ Flagged(rows[f], d) \in SUBSET Row
          /\ \A h : (\E r \in Flagged(rows[f], d) : r.hash = h)
                      <=> (\E r \in rows[f] : r.hash = h)
      BY <2>1, FlaggedRows
    <2> QED
      BY <2>2, <2>3
  <1>2. rows' \in [Files -> SUBSET Row]
    BY <1>1 DEF SetDirty
  <1> QED
    BY <1>1, <1>2

LEMMA AppliedRows ==
    ASSUME NEW o \in Op, NEW R \in SUBSET Row
    PROVE  /\ Applied(o, R) \in SUBSET Row
           /\ o.method \in {"put", "mergePut"} =>
                 \E r \in Applied(o, R) : r.hash = o.hash
           /\ o.method = "put" => R \subseteq Applied(o, R)
           /\ o.method = "unflagDirty" =>
                 \A h : (\E r \in R : r.hash = h) =>
                           \E r \in Applied(o, R) : r.hash = h
  <1>1. Fresh(o) \in SUBSET Row /\ \E r \in Fresh(o) : r.hash = o.hash
    <2>1. o.hash \in Hashes
      BY DEF Op
    <2> QED
      BY <2>1 DEF Fresh, Row
  <1>2. Flagged(R, FALSE) \in SUBSET Row
    BY FlaggedRows
  <1>3. o.method = "unflagDirty" => Flagged(R, FALSE) \subseteq Applied(o, R)
    BY DEF Applied
  <1>4. Applied(o, R) \in SUBSET Row
    BY <1>1, <1>2 DEF Applied
  <1>5. o.method \in {"put", "mergePut"} => \E r \in Applied(o, R) : r.hash = o.hash
    BY <1>1 DEF Applied
  <1>6. o.method = "put" => R \subseteq Applied(o, R)
    BY DEF Applied
  <1>7. o.method = "unflagDirty" =>
          \A h : (\E r \in R : r.hash = h) => \E r \in Applied(o, R) : r.hash = h
    <2>1. \A h : (\E r \in R : r.hash = h) => \E r \in Flagged(R, FALSE) : r.hash = h
      BY FlaggedRows, Zenon
    <2> QED
      BY <1>3, <2>1
  <1> QED
    BY <1>4, <1>5, <1>6, <1>7

-----------------------------------------------------------------------------
(* Types.                                                                  *)

LEMMA NothingType == Nothing \in Contents
  BY DEF Nothing, Contents

LEMMA InitInv == Init => IInv
  <1> SUFFICES ASSUME Init PROVE IInv
    OBVIOUS
  <1>1. TypeOK
    <2>1. rows \in [Files -> SUBSET Row] /\ 0 \in 0 .. MaxCleanups
      BY CleanupsAssumption DEF Init
    <2> QED
      BY <2>1, NothingType DEF Init, TypeOK
  <1>2. WalkInv /\ OpsInv
    BY DEF Init, WalkInv, OpsInv
  <1>3. ClaimsInv
    BY DEF Init, ClaimsInv, Nothing
  <1> QED
    BY <1>1, <1>2, <1>3 DEF IInv

LEMMA VisitType ==
    ASSUME TypeOK, WalkInv, NEW f \in Files, Visit(f)
    PROVE  TypeOK'
  <1>1. Visited(f) /\ f \in toVisit /\ disk[f] \in Hashes
    BY DEF Visit, SkipCached, PutMeta, MergePut, UnflagDirty, Visited,
           WalkInv, TypeOK, Contents
  <1>2. ops' \subseteq Op
    BY <1>1 DEF Visit, SkipCached, PutMeta, MergePut, UnflagDirty, Ask, Op,
                TypeOK
  <1> QED
    BY <1>1, <1>2 DEF Visited, TypeOK, Contents, stores, history, walk, cleaner

LEMMA StepTypeOK ==
    ASSUME TypeOK, WalkInv, [Next]_vars
    PROVE  TypeOK'
  <1> USE DEF stores, walk, cleaner, history
  <1>1. CASE StartService
    BY <1>1, SetDirtyRows DEF StartService, TypeOK
  <1>2. CASE AddDevice
    BY <1>2, SetDirtyRows DEF AddDevice, TypeOK
  <1>3. CASE AddAgain \/ RecordDevice \/ RequestMediaScan
    BY <1>3 DEF AddAgain, RecordDevice, RequestMediaScan, TypeOK
  <1>4. CASE RemoveDevice
    BY <1>4, SetDirtyRows DEF RemoveDevice, TypeOK
  <1>5. CASE ChangeDisk
    BY <1>5 DEF ChangeDisk, TypeOK, Contents
  <1>6. CASE BeginWalk
    BY <1>6, NothingType
    DEF BeginWalk, ReadCache, CreateCache, TypeOK, There
  <1>7. CASE EndWalk \/ WalkThrows
    <2>1. \A f \in There(cacheMap) : cacheMap[f] \in Hashes /\ f \in Files
      BY DEF There, TypeOK, Contents
    <2>2. RequestDeletes => ops' \subseteq Op
      BY <2>1 DEF RequestDeletes, TypeOK, Op
    <2> QED
      BY <1>7, <2>2, NothingType
      DEF EndWalk, WalkThrows, RequestDeletes, WalkOver, TypeOK
  <1>8. CASE GenerateCacheFile
    BY <1>8, NothingType DEF GenerateCacheFile, WalkOver, TypeOK
  <1>9. ASSUME NEW f \in Files, Visit(f) PROVE TypeOK'
    BY <1>9, VisitType
  <1>10. ASSUME NEW f \in Files, DeleteDirty(f) PROVE TypeOK'
    BY <1>10 DEF DeleteDirty, TypeOK
  <1>11. ASSUME NEW o \in ops, Answer(o) PROVE TypeOK'
    <2>1. o \in Op /\ o.file \in Files /\ rows[o.file] \in SUBSET Row
      BY DEF TypeOK, Op
    <2>2. Applied(o, rows[o.file]) \in SUBSET Row
      BY <2>1, AppliedRows
    <2>3. rows' \in [Files -> SUBSET Row]
      BY <1>11, <2>2 DEF Answer, TypeOK
    <2>4. ops' \subseteq Op /\ owed' \subseteq Files /\ missed' \subseteq Files
      BY <1>11, <2>1 DEF Answer, TypeOK
    <2> QED
      BY <1>11, <2>3, <2>4 DEF Answer, TypeOK
  <1>12. CASE FinishScan \/ SearchDirty
    <2>1. cleanups' \in 0 .. MaxCleanups
      BY <1>12, CleanupsAssumption DEF FinishScan, SearchDirty, TypeOK, WalkInv
    <2> QED
      BY <1>12, <2>1 DEF FinishScan, SearchDirty, TypeOK
  <1>13. CASE Crash
    <2>1. torn' \in BOOLEAN
      BY <1>13, Zenon DEF Crash
    <2>2. \A o \in ops : o.file \in Files
      BY DEF TypeOK, Op
    <2>3. owed' \subseteq Files
      BY <1>13, <2>2 DEF Crash, TypeOK
    <2>4. cleanups' \in 0 .. MaxCleanups
      BY <1>13, CleanupsAssumption DEF Crash
    <2>5. record' \in {"none", "sent", "stored"}
      BY <1>13 DEF Crash, TypeOK
    <2> QED
      BY <1>13, <2>1, <2>3, <2>4, <2>5, NothingType DEF Crash, WalkOver, TypeOK
  <1>14. CASE UNCHANGED vars
    BY <1>14 DEF vars, TypeOK
  <1> QED
    BY <1>1, <1>2, <1>3, <1>4, <1>5, <1>6, <1>7, <1>8, <1>9, <1>10, <1>11,
       <1>12, <1>13, <1>14 DEF Next
-----------------------------------------------------------------------------
(* The walk.                                                               *)

\* What a walk step does, whatever it asks for.
LEMMA VisitIsVisited ==
    ASSUME NEW f \in Files, Visit(f)
    PROVE  Visited(f) /\ ops \subseteq ops'
  BY DEF Visit, SkipCached, PutMeta, MergePut, UnflagDirty, Ask

LEMMA StepWalkInv ==
    ASSUME TypeOK, WalkInv, [Next]_vars
    PROVE  WalkInv'
  <1> USE DEF stores, walk, cleaner, history
  <1>1. CASE StartService \/ AddDevice \/ AddAgain \/ RemoveDevice
    <2>1. /\ pc \in {"off", "idle"} /\ pc' \in {"idle", "queued"}
          /\ pc' = "queued" => cleanups < MaxCleanups
          /\ UNCHANGED <<walk, cacheFile, hasCache, cleanups>>
      BY <1>1 DEF StartService, AddDevice, AddAgain, RemoveDevice
    <2> QED
      BY <2>1 DEF WalkInv
  <1>2. CASE RecordDevice \/ RequestMediaScan \/ ChangeDisk
    BY <1>2 DEF RecordDevice, RequestMediaScan, ChangeDisk, WalkInv
  <1>3. CASE BeginWalk
    <2>1. \A f \in Files : cacheItems'[f] = NoFile
      BY <1>3 DEF BeginWalk, Nothing
    <2>2. cacheFile' = Nothing \/ newMounted
      BY <1>3 DEF BeginWalk, ReadCache, CreateCache, WalkInv
    <2> QED
      BY <1>3, <2>1, <2>2
      DEF BeginWalk, ReadCache, CreateCache, There, WalkInv
  <1>4. CASE EndWalk
    BY <1>4 DEF EndWalk, RequestDeletes, WalkInv
  <1>5. CASE WalkThrows
    BY <1>5 DEF WalkThrows, RequestDeletes, WalkOver, WalkInv
  <1>6. CASE GenerateCacheFile
    BY <1>6 DEF GenerateCacheFile, WalkOver, WalkInv
  <1>7. ASSUME NEW f \in Files, Visit(f) PROVE WalkInv'
    <2>1. Visited(f)
      BY <1>7, VisitIsVisited
    <2>2. \A g \in toVisit' : g \in toVisit /\ cacheItems'[g] = cacheItems[g]
      BY <2>1 DEF Visited, TypeOK, Contents
    <2>3. ~withCache => cacheMap' = Nothing
      BY <2>1 DEF Visited, WalkInv, Nothing
    <2>4. \A g \in There(cacheMap') :
             g \in There(cacheMap) /\ cacheItems'[g] = cacheItems[g]
      BY <2>1 DEF Visited, There, TypeOK, Contents
    <2> QED
      BY <2>1, <2>2, <2>3, <2>4 DEF Visited, WalkInv
  <1>8. ASSUME NEW f \in Files, DeleteDirty(f) PROVE WalkInv'
    BY <1>8 DEF DeleteDirty, WalkInv
  <1>9. ASSUME NEW o \in ops, Answer(o) PROVE WalkInv'
    BY <1>9 DEF Answer, WalkInv
  <1>10. CASE FinishScan \/ SearchDirty
    BY <1>10, CleanupsAssumption DEF FinishScan, SearchDirty, WalkInv, TypeOK
  <1>11. CASE Crash
    BY <1>11 DEF Crash, WalkOver, WalkInv
  <1>12. CASE UNCHANGED vars
    BY <1>12 DEF vars, WalkInv
  <1> QED
    BY <1>1, <1>2, <1>3, <1>4, <1>5, <1>6, <1>7, <1>8, <1>9, <1>10, <1>11,
       <1>12 DEF Next

-----------------------------------------------------------------------------
(* The operations.                                                         *)

LEMMA StepOpsInv ==
    ASSUME TypeOK, WalkInv, OpsInv, [Next]_vars
    PROVE  OpsInv'
  <1> USE DEF stores, walk, cleaner, history
  <1>0. \A o \in ops : o \in Op /\ o.file \in Files
    BY DEF TypeOK, Op
  <1>1. CASE StartService \/ AddDevice \/ RemoveDevice
    BY <1>1 DEF StartService, AddDevice, RemoveDevice, OpsInv
  <1>2. CASE AddAgain \/ RecordDevice \/ RequestMediaScan \/ ChangeDisk
    BY <1>2 DEF AddAgain, RecordDevice, RequestMediaScan, ChangeDisk, OpsInv
  <1>3. CASE BeginWalk
    BY <1>3 DEF BeginWalk, OpsInv
  <1>4. CASE EndWalk \/ (WalkThrows /\ withCache)
    <2>1. pc = "walk" /\ RequestDeletes /\ UNCHANGED <<walk, stores, owed>>
      BY <1>4 DEF EndWalk, WalkThrows
    <2>2. ASSUME NEW o \in ops' PROVE \/ o \in ops
                                      \/ /\ o.method = "del"
                                         /\ cacheMap[o.file] # NoFile
                                         /\ o.hash = cacheMap[o.file]
                                         /\ o.file \in Files
      BY <2>1 DEF RequestDeletes, There
    <2>3. \A o \in ops : cacheMap[o.file] = NoFile
      BY <2>1 DEF OpsInv
    <2>4. ASSUME NEW o \in ops', NEW p \in ops', o.file = p.file PROVE o = p
      <3>1. CASE o \in ops /\ p \in ops
        BY <2>4, <3>1 DEF OpsInv
      <3>2. CASE o \notin ops /\ p \notin ops
        BY <2>1, <2>4, <3>2 DEF RequestDeletes
      <3> QED
        BY <2>2, <2>3, <2>4, <3>1, <3>2
    <2>5. ASSUME NEW f \in Files, cacheMap[f] # NoFile
          PROVE  cacheFile[f] = NoFile /\ cacheItems[f] = NoFile
      BY <2>1, <2>5 DEF WalkInv, Nothing, There
    <2> QED
      BY <2>1, <2>2, <2>4, <2>5 DEF OpsInv, RequestDeletes
  <1>5. CASE WalkThrows /\ ~withCache
    BY <1>0, <1>5 DEF WalkThrows, WalkOver, OpsInv, Nothing
  <1>6. CASE GenerateCacheFile
    BY <1>0, <1>6 DEF GenerateCacheFile, WalkOver, OpsInv, Nothing
  <1>7. ASSUME NEW f \in Files, Visit(f) PROVE OpsInv'
    <2>1. /\ Visited(f) /\ pc = "walk" /\ f \in toVisit
          /\ UNCHANGED <<pc, cacheFile, rows, owed>>
      BY <1>7, VisitIsVisited DEF Visited
    <2>2. \A o \in ops : o.file # f
      BY <2>1 DEF OpsInv
    <2>3. \A g \in Files : g # f => /\ cacheMap'[g] = cacheMap[g]
                                    /\ cacheItems'[g] = cacheItems[g]
      BY <2>1 DEF Visited, TypeOK, Contents
    <2>4. cacheMap'[f] = NoFile /\ cacheItems'[f] = disk[f] /\ f \notin toVisit'
      BY <2>1 DEF Visited, TypeOK, Contents
    <2>5. ASSUME NEW o \in ops', o \notin ops
          PROVE  /\ o.file = f /\ o.hash = disk[f] /\ o.method # "del"
                 /\ o.method = "mergePut" => cacheFile[f] = NoFile
                 /\ o.method = "unflagDirty" => \E r \in rows[f] : r.hash = o.hash
      <3>1. CASE SkipCached(f)
        BY <2>5, <3>1 DEF SkipCached
      <3>2. CASE PutMeta(f)
        BY <2>5, <3>2 DEF PutMeta, Ask
      <3>3. CASE MergePut(f)
        <4>1. cacheFile[f] = NoFile
          BY <2>1, <3>3 DEF MergePut, WalkInv, Nothing
        <4> QED
          BY <2>5, <3>3, <4>1 DEF MergePut, Ask
      <3>4. CASE UnflagDirty(f)
        BY <2>5, <3>4 DEF UnflagDirty, Ask, UpToDate
      <3> QED
        BY <1>7, <3>1, <3>2, <3>3, <3>4 DEF Visit
    <2>6. \A o, p \in ops' : o \notin ops /\ p \notin ops => o = p
      BY <1>7 DEF Visit, SkipCached, PutMeta, MergePut, UnflagDirty, Ask
    <2>7. \A o, p \in ops' : o.file = p.file => o = p
      BY <2>2, <2>5, <2>6 DEF OpsInv
    <2>8. toVisit' \subseteq toVisit
      BY <2>1 DEF Visited
    <2>9. ASSUME NEW o \in ops'
          PROVE  /\ o.file \notin toVisit' /\ cacheMap'[o.file] = NoFile
                 /\ o.method = "del" =>
                       cacheFile[o.file] = NoFile /\ cacheItems'[o.file] = NoFile
                 /\ o.method # "del" => cacheItems'[o.file] = o.hash
                 /\ o.method = "mergePut" => cacheFile[o.file] \in {NoFile, o.hash}
                 /\ o.method = "unflagDirty" =>
                       o.file \in owed \/ \E r \in rows[o.file] : r.hash = o.hash
      <3>1. CASE o \in ops
        BY <1>0, <2>1, <2>2, <2>3, <2>8, <3>1 DEF OpsInv
      <3>2. CASE o \notin ops
        BY <2>4, <2>5, <3>2
      <3> QED
        BY <3>1, <3>2
    <2> QED
      BY <2>1, <2>7, <2>9 DEF OpsInv
  <1>8. ASSUME NEW f \in Files, DeleteDirty(f) PROVE OpsInv'
    <2>1. \A o \in ops : o.file = f \/ rows'[o.file] = rows[o.file]
      BY <1>0, <1>8 DEF DeleteDirty, TypeOK
    <2> QED
      BY <1>8, <2>1 DEF DeleteDirty, OpsInv
  <1>9. ASSUME NEW o \in ops, Answer(o) PROVE OpsInv'
    <2>1. \A p \in ops' : p \in ops /\ p.file # o.file
      BY <1>9 DEF Answer, OpsInv
    <2>2. \A p \in ops' : rows'[p.file] = rows[p.file]
      BY <1>0, <1>9, <2>1 DEF Answer, TypeOK
    <2>3. \A p \in ops' : p.file \in owed => p.file \in owed'
      BY <1>9, <2>1 DEF Answer
    <2> QED
      BY <1>9, <2>1, <2>2, <2>3 DEF Answer, OpsInv
  <1>10. CASE FinishScan \/ SearchDirty
    BY <1>10 DEF FinishScan, SearchDirty, OpsInv
  <1>11. CASE Crash
    BY <1>11 DEF Crash, OpsInv
  <1>12. CASE UNCHANGED vars
    BY <1>12 DEF vars, OpsInv
  <1> QED
    BY <1>1, <1>2, <1>3, <1>4, <1>5, <1>6, <1>7, <1>8, <1>9, <1>10, <1>11,
       <1>12 DEF Next
-----------------------------------------------------------------------------
(* The claims of the caches.                                               *)

\* Nothing but an answer and a crash takes away what backs a claim.
LEMMA BackedStays ==
    ASSUME ops \subseteq ops', owed \subseteq owed', NEW f \in Files, NEW h,
           (\E r \in rows[f] : r.hash = h) => f \in owed'
                                            \/ \E r \in rows'[f] : r.hash = h,
           Backed(f, h)
    PROVE  Backed(f, h)'
  BY DEF Backed

\* The answer to o leaves a row for what o backed, and rows of other files.
LEMMA AnswerKeeps ==
    ASSUME TypeOK, WalkInv, OpsInv, NEW o \in ops, Answer(o),
           NEW f \in Files, NEW h, h # NoFile,
           h = cacheFile[f] \/ h = cacheItems[f] \/ (pc = "walk" /\ h = cacheMap[f]),
           Backed(f, h)
    PROVE  Backed(f, h)'
  <1>1. o \in Op /\ o.file \in Files /\ rows[o.file] \in SUBSET Row
    BY DEF TypeOK, Op
  <1>2. CASE f # o.file
    <2>1. rows'[f] = rows[f] /\ (f \in owed => f \in owed')
      BY <1>1, <1>2 DEF Answer, TypeOK
    <2>2. \A p \in ops : p.file = f => p \in ops'
      BY <1>2 DEF Answer
    <2> QED
      BY <2>1, <2>2 DEF Backed
  <1>3. CASE f = o.file
    <2>1. rows'[f] = Applied(o, rows[f])
      BY <1>1, <1>3 DEF Answer, TypeOK
    <2>2. \A p \in ops : p.file = f => p = o
      BY <1>3 DEF OpsInv
    <2>3. \/ f \in owed
          \/ \E r \in rows[f] : r.hash = h
          \/ o.hash = h
      BY <2>2 DEF Backed
    <2>4. CASE o.method = "put"
      <3>1. /\ \E r \in rows'[f] : r.hash = o.hash
            /\ rows[f] \subseteq rows'[f]
        BY <1>1, <1>3, <2>1, <2>4, AppliedRows
      <3>2. h \in {cacheFile[f], o.hash}
        BY <1>3, <2>4 DEF OpsInv, WalkInv, Nothing
      <3>3. f \in owed => f \in owed' \/ cacheFile[f] \in {NoFile, o.hash}
        BY <1>3 DEF Answer
      <3> QED
        BY <2>3, <3>1, <3>2, <3>3 DEF Backed
    <2>5. CASE o.method = "mergePut"
      <3>1. \E r \in rows'[f] : r.hash = o.hash
        BY <1>1, <1>3, <2>1, <2>5, AppliedRows
      <3>2. h = o.hash
        BY <1>3, <2>5 DEF OpsInv, WalkInv, Nothing
      <3> QED
        BY <3>1, <3>2 DEF Backed
    <2>6. CASE o.method = "unflagDirty"
      <3>1. f \in owed \/ \E r \in rows[f] : r.hash = o.hash
        BY <1>3, <2>6 DEF OpsInv
      <3>2. f \in owed \/ \E r \in rows[f] : r.hash = h
        BY <2>3, <3>1
      <3>3. f \in owed => f \in owed'
        BY <2>6 DEF Answer
      <3>4. (\E r \in rows[f] : r.hash = h) => \E r \in rows'[f] : r.hash = h
        BY <1>1, <1>3, <2>1, <2>6, AppliedRows
      <3> QED
        BY <3>2, <3>3, <3>4 DEF Backed
    <2>7. CASE o.method = "del"
      BY <1>3, <2>7 DEF OpsInv
    <2> QED
      BY <1>1, <2>4, <2>5, <2>6, <2>7 DEF Op
  <1> QED
    BY <1>2, <1>3

LEMMA StepClaimsInv ==
    ASSUME IInv, [Next]_vars
    PROVE  ClaimsInv'
  <1> USE DEF stores, walk, cleaner, history
  <1>0. TypeOK /\ WalkInv /\ OpsInv /\ ClaimsInv
    BY DEF IInv
  <1>1. CASE StartService \/ AddDevice \/ RemoveDevice
    <2>1. /\ UNCHANGED <<ops, owed, cacheFile, cacheItems>> /\ pc' # "walk"
          /\ SetDirty(TRUE) \/ SetDirty(FALSE) \/ UNCHANGED rows
      BY <1>1 DEF StartService, AddDevice, RemoveDevice
    <2>2. \A f \in Files : \A h : (\E r \in rows[f] : r.hash = h)
                                => \E r \in rows'[f] : r.hash = h
      BY <1>0, <2>1, SetDirtyRows
    <2>3. \A f \in Files : \A h : Backed(f, h) => Backed(f, h)'
      BY <2>1, <2>2, BackedStays
    <2> QED
      BY <1>0, <2>1, <2>3 DEF ClaimsInv
  <1>2. CASE AddAgain \/ RecordDevice \/ RequestMediaScan \/ ChangeDisk
    BY <1>0, <1>2
    DEF AddAgain, RecordDevice, RequestMediaScan, ChangeDisk, ClaimsInv, Backed
  <1>3. CASE BeginWalk
    <2>1. UNCHANGED <<rows, ops, owed>>
      BY <1>3 DEF BeginWalk
    <2>2. \A f \in Files : /\ cacheFile'[f] \in {NoFile, cacheFile[f]}
                           /\ cacheMap'[f] \in {NoFile, cacheFile[f]}
                           /\ cacheItems'[f] = NoFile
      BY <1>3 DEF BeginWalk, ReadCache, CreateCache, Nothing
    <2> QED
      BY <1>0, <2>1, <2>2 DEF ClaimsInv, Backed
  <1>4. CASE EndWalk
    BY <1>0, <1>4 DEF EndWalk, RequestDeletes, ClaimsInv, Backed
  <1>5. CASE WalkThrows
    <2>1. ops \subseteq ops' /\ UNCHANGED <<rows, owed, cacheFile>> /\ pc' # "walk"
      BY <1>5 DEF WalkThrows, RequestDeletes
    <2>2. \A f \in Files : cacheItems'[f] \in {NoFile, cacheItems[f]}
      BY <1>5 DEF WalkThrows, WalkOver, Nothing
    <2> QED
      BY <1>0, <2>1, <2>2 DEF ClaimsInv, Backed
  <1>6. CASE GenerateCacheFile
    <2>1. UNCHANGED <<rows, ops, owed>> /\ pc' # "walk"
      BY <1>6 DEF GenerateCacheFile
    <2>2. \A f \in Files : /\ cacheFile'[f] \in {NoFile, cacheItems[f]}
                           /\ cacheItems'[f] = NoFile
      BY <1>6 DEF GenerateCacheFile, WalkOver, Nothing
    <2> QED
      BY <1>0, <2>1, <2>2 DEF ClaimsInv, Backed
  <1>7. ASSUME NEW f \in Files, Visit(f) PROVE ClaimsInv'
    <2>1. Visited(f) /\ ops \subseteq ops' /\ pc = "walk" /\ f \in toVisit
      BY <1>7, VisitIsVisited DEF Visited
    <2>2. UNCHANGED <<rows, owed, cacheFile>>
      BY <2>1 DEF Visited
    <2>3. \A g \in Files : \A h : Backed(g, h) => Backed(g, h)'
      BY <2>1, <2>2 DEF Backed
    <2>4. \A g \in Files : cacheMap'[g] \in {NoFile, cacheMap[g]}
      BY <1>0, <2>1 DEF Visited, TypeOK, Contents
    <2>5. \A g \in Files : g # f => cacheItems'[g] = cacheItems[g]
      BY <1>0, <2>1 DEF Visited, TypeOK, Contents
    <2>6. cacheItems'[f] = disk[f] /\ disk[f] # NoFile
      BY <1>0, <2>1 DEF Visited, TypeOK, Contents, WalkInv
    <2>7. Backed(f, disk[f])'
      <3>1. CASE SkipCached(f)
        <4>1. cacheMap[f] = disk[f] /\ UNCHANGED disk
          BY <2>1, <3>1 DEF SkipCached, IsExist, Visited
        <4>2. Backed(f, cacheMap[f])
          BY <1>0, <2>1, <2>6, <4>1 DEF ClaimsInv
        <4> QED
          BY <2>3, <4>1, <4>2
      <3>2. CASE PutMeta(f) \/ MergePut(f) \/ UnflagDirty(f)
        <4>1. \E o \in ops' : o.file = f /\ o.hash = disk[f]
          <5>1. PICK m : Ask(m, f, disk[f])
            BY <3>2 DEF PutMeta, MergePut, UnflagDirty
          <5>2. [method |-> m, file |-> f, hash |-> disk[f]] \in ops'
            BY <5>1 DEF Ask
          <5> QED
            BY <5>2
        <4>2. UNCHANGED disk
          BY <2>1 DEF Visited
        <4> QED
          BY <4>1, <4>2 DEF Backed
      <3> QED
        BY <1>7, <3>1, <3>2 DEF Visit
    <2>8. UNCHANGED disk
      BY <2>1 DEF Visited
    <2> QED
      BY <1>0, <2>1, <2>2, <2>3, <2>4, <2>5, <2>6, <2>7, <2>8 DEF ClaimsInv
  <1>8. ASSUME NEW f \in Files, DeleteDirty(f) PROVE ClaimsInv'
    <2>1. \A g \in Files : rows'[g] = rows[g] \/ g \in owed'
      BY <1>0, <1>8 DEF DeleteDirty, TypeOK
    <2>2. /\ owed \subseteq owed'
          /\ UNCHANGED <<ops, pc, cacheFile, cacheItems, cacheMap>>
      BY <1>8 DEF DeleteDirty
    <2> QED
      BY <1>0, <2>1, <2>2 DEF ClaimsInv, Backed
  <1>9. ASSUME NEW o \in ops, Answer(o) PROVE ClaimsInv'
    <2>1. UNCHANGED <<pc, cacheFile, cacheItems, cacheMap>>
      BY <1>9 DEF Answer
    <2> QED
      BY <1>0, <1>9, <2>1, AnswerKeeps DEF ClaimsInv
  <1>10. CASE FinishScan \/ SearchDirty
    BY <1>0, <1>10 DEF FinishScan, SearchDirty, ClaimsInv, Backed
  <1>11. CASE Crash
    <2>1. /\ UNCHANGED <<rows, cacheFile>> /\ pc' # "walk"
          /\ \A f \in Files : cacheItems'[f] = NoFile
      BY <1>11 DEF Crash, WalkOver, Nothing
    <2>2. ASSUME NEW f \in Files, cacheFile[f] # NoFile
          PROVE  f \in owed' \/ \E r \in rows[f] : r.hash = cacheFile[f]
      <3>1. hasCache
        BY <1>0, <2>2 DEF WalkInv, Nothing
      <3>2. Backed(f, cacheFile[f])
        BY <1>0, <2>2 DEF ClaimsInv
      <3> QED
        BY <1>11, <3>1, <3>2 DEF Crash, Backed
    <2> QED
      BY <2>1, <2>2 DEF ClaimsInv, Backed
  <1>12. CASE UNCHANGED vars
    BY <1>0, <1>12 DEF vars, ClaimsInv, Backed
  <1> QED
    BY <1>1, <1>2, <1>3, <1>4, <1>5, <1>6, <1>7, <1>8, <1>9, <1>10, <1>11,
       <1>12 DEF Next

-----------------------------------------------------------------------------
(* Theorems.                                                               *)

LEMMA Inductive == Spec => []IInv
  <1>1. IInv /\ [Next]_vars => IInv'
    BY StepTypeOK, StepWalkInv, StepOpsInv, StepClaimsInv DEF IInv
  <1> QED
    BY <1>1, InitInv, PTL DEF Spec

(* Every variable keeps its type; a scan under way has room for its        *)
(* cleanup, and runs on a device that is here.                             *)
THEOREM IndexTyping == Spec => []TypeOK
  <1>1. IInv => TypeOK
    BY DEF IInv
  <1> QED
    BY <1>1, Inductive, PTL

(* Through crashes, lost caches, walks cut short and any disk changes, the *)
(* cache file vouches only for what is in the database or on its way, but  *)
(* for files whose answer a crash lost or whose row the cleanup deleted.   *)
THEOREM CacheStaysTrue == Spec => []CacheIsTrue
  <1>1. IInv => CacheIsTrue
    BY DEF IInv, ClaimsInv, Backed, CacheIsTrue, There
  <1> QED
    BY <1>1, Inductive, PTL

-----------------------------------------------------------------------------
(***************************************************************************)
(* What a scan is for: when a device reports Idle, its rows are its files. *)
(* The invariants above say that the caches do not promise too             *)
(* much; those proved here say that they do not promise too little,    *)
(* and follow the rows from the walk to the last answer.                   *)
(***************************************************************************)

LEMMA InitIndexInv == Init => IndexInv
  <1> SUFFICES ASSUME Init PROVE IndexInv
    OBVIOUS
  <1>1. IInv
    BY InitInv
  <1>2. CoverInv
    BY DEF Init, CoverInv
  <1>3. RowsInv
    BY DEF Init, RowsInv
  <1>4. DiskInv
    BY DEF Init, DiskInv
  <1> QED
    BY <1>1, <1>2, <1>3, <1>4 DEF IndexInv

-----------------------------------------------------------------------------
(* The cache names every file that has a row.                              *)

LEMMA SetDirtyFiles ==
    ASSUME NEW d \in BOOLEAN, SetDirty(d)
    PROVE  \A f \in Files : rows'[f] # {} => rows[f] # {}
  BY DEF SetDirty, Flagged

\* The answer to o leaves the rows of other files alone, and makes a row only
\* for a file it was to write.
LEMMA AnswerRows ==
    ASSUME TypeOK, NEW o \in ops, Answer(o)
    PROVE  /\ o \in Op /\ o.file \in Files /\ rows[o.file] \in SUBSET Row
           /\ rows'[o.file] = Applied(o, rows[o.file])
           /\ \A f \in Files : f # o.file =>
                 /\ rows'[f] = rows[f]
                 /\ f \in Safe' => f \in Safe
                 /\ Deleting(f) => Deleting(f)'
           /\ o.method \notin {"put", "mergePut"} =>
                 /\ o.file \in Safe' => o.file \in Safe
                 /\ rows'[o.file] # {} => rows[o.file] # {}
           /\ o.method = "del" => rows'[o.file] = {}
  <1>1. o \in Op /\ o.file \in Files /\ rows[o.file] \in SUBSET Row
    BY DEF TypeOK, Op
  <1>2. rows' = [rows EXCEPT ![o.file] = Applied(o, rows[o.file])]
    BY DEF Answer
  <1>3. rows'[o.file] = Applied(o, rows[o.file])
    BY <1>1, <1>2 DEF TypeOK
  <1>4. ASSUME NEW f \in Files, f # o.file
        PROVE  /\ rows'[f] = rows[f]
               /\ f \in Safe' => f \in Safe
               /\ Deleting(f) => Deleting(f)'
    <2>1. rows'[f] = rows[f]
      BY <1>2, <1>4 DEF TypeOK
    <2>2. f \in Safe' => f \in Safe
      BY <1>4 DEF Answer, Safe
    <2>3. Deleting(f) => Deleting(f)'
      BY <1>4 DEF Answer, Deleting
    <2> QED
      BY <2>1, <2>2, <2>3
  <1>5. ASSUME o.method \notin {"put", "mergePut"}
        PROVE  /\ o.file \in Safe' => o.file \in Safe
               /\ rows'[o.file] # {} => rows[o.file] # {}
    BY <1>3, <1>5 DEF Answer, Safe, Applied, Flagged
  <1>6. o.method = "del" => rows'[o.file] = {}
    BY <1>3 DEF Applied
  <1> QED
    BY <1>1, <1>3, <1>4, <1>5, <1>6

\* A walk notes each file it visits in the next cache.
LEMMA VisitCovers ==
    ASSUME TypeOK, WalkInv, CoverInv, NEW f \in Files, Visit(f)
    PROVE  CoverInv'
  <1>1. /\ Visited(f) /\ f \in toVisit /\ pc = "walk" /\ pc' = "walk"
        /\ UNCHANGED <<rows, owed, missed, torn, withCache>>
    BY VisitIsVisited DEF Visited, stores, history
  <1>2. \A g \in Files : Deleting(g)' => Deleting(g)
    BY DEF Visit, SkipCached, PutMeta, MergePut, UnflagDirty, Ask, Deleting
  <1>3. InCaches(f)'
    BY <1>1 DEF Visited, InCaches, TypeOK, Contents, WalkInv
  <1>4. ASSUME NEW g \in Files, g # f
        PROVE  (InCaches(g) => InCaches(g)') /\ (g \in toVisit => g \in toVisit')
    BY <1>1, <1>4 DEF Visited, InCaches, TypeOK, Contents
  <1> QED
    BY <1>1, <1>2, <1>3, <1>4 DEF CoverInv, Safe

LEMMA AnswerCovers ==
    ASSUME TypeOK, WalkInv, OpsInv, CoverInv, NEW o \in ops, Answer(o)
    PROVE  CoverInv'
  <1>1. UNCHANGED <<pc, hasCache, torn, cacheFile, cacheItems, cacheMap,
                    toVisit, withCache>>
    BY DEF Answer, walk
  <1>2. ops' \subseteq ops /\ \A f : Deleting(f)' => Deleting(f)
    BY DEF Answer, Deleting
  <1>3. /\ o.file \in Files /\ o.hash # NoFile
        /\ o.method \in {"put", "mergePut", "unflagDirty", "del"}
    BY NoFileAssumption DEF TypeOK, Op
  <1>4. CASE pc \in {"walk", "generate"}
    <2>1. ASSUME NEW f \in Safe', rows'[f] # {}
          PROVE  \/ f = o.file /\ cacheItems[f] # NoFile
                 \/ /\ f \in Safe /\ rows[f] # {}
                    /\ Deleting(f) => Deleting(f)'
      <3>1. CASE f # o.file
        BY <2>1, <3>1, AnswerRows DEF Safe
      <3>2. CASE f = o.file /\ o.method \in {"put", "mergePut"}
        BY <1>3, <1>4, <3>2 DEF OpsInv
      <3>3. CASE f = o.file /\ o.method = "unflagDirty"
        BY <1>3, <1>4, <3>3 DEF OpsInv
      <3>4. CASE f = o.file /\ o.method = "del"
        BY <2>1, <3>4, AnswerRows
      <3> QED
        BY <1>3, <3>1, <3>2, <3>3, <3>4
    <2> QED
      BY <1>1, <1>2, <1>4, <2>1 DEF CoverInv, InCaches, Safe
  <1>5. CASE pc \notin {"walk", "generate"} /\ hasCache /\ ~torn
    <2>1. ASSUME NEW f \in Safe', rows'[f] # {}
          PROVE  cacheFile[f] # NoFile \/ Deleting(f)'
      <3>1. CASE f # o.file
        <4>1. f \in Safe /\ rows[f] # {} /\ (Deleting(f) => Deleting(f)')
          BY <2>1, <3>1, AnswerRows DEF Safe
        <4> QED
          BY <1>5, <4>1 DEF CoverInv
      <3>2. CASE f = o.file /\ o.method # "del"
        BY <1>5, <3>2 DEF CoverInv
      <3>3. CASE f = o.file /\ o.method = "del"
        BY <2>1, <3>3, AnswerRows
      <3> QED
        BY <3>1, <3>2, <3>3
    <2>2. \A p \in ops' : p.method # "del" => cacheFile[p.file] # NoFile
      BY <1>2, <1>5 DEF CoverInv
    <2> QED
      BY <1>1, <1>5, <2>1, <2>2 DEF CoverInv
  <1> QED
    BY <1>1, <1>4, <1>5 DEF CoverInv

LEMMA StepCoverInv ==
    ASSUME IndexInv, [Next]_vars
    PROVE  CoverInv'
  <1> USE DEF stores, walk, cleaner, history
  <1>0. TypeOK /\ WalkInv /\ OpsInv /\ CoverInv /\ DiskInv
    BY DEF IndexInv, IInv
  <1>1. CASE StartService \/ AddDevice \/ RemoveDevice
    <2>1. /\ pc \notin {"walk", "generate"} /\ pc' \notin {"walk", "generate"}
          /\ UNCHANGED <<hasCache, cacheFile, torn, ops, owed, missed>>
          /\ SetDirty(TRUE) \/ SetDirty(FALSE) \/ UNCHANGED rows
      BY <1>1 DEF StartService, AddDevice, RemoveDevice
    <2>2. \A f \in Files : rows'[f] # {} => rows[f] # {}
      BY <2>1, SetDirtyFiles
    <2> QED
      BY <1>0, <2>1, <2>2 DEF CoverInv, Deleting, Safe
  <1>2. CASE AddAgain \/ RecordDevice \/ RequestMediaScan \/ ChangeDisk
             \/ FinishScan \/ SearchDirty \/ UNCHANGED vars
    <2>1. /\ pc' = pc \/ {pc, pc'} \cap {"walk", "generate"} = {}
          /\ UNCHANGED <<rows, hasCache, cacheFile, cacheItems, cacheMap,
                         toVisit, withCache, torn, ops, owed, missed>>
      BY <1>2 DEF AddAgain, RecordDevice, RequestMediaScan, ChangeDisk,
                  FinishScan, SearchDirty, vars
    <2> QED
      BY <1>0, <2>1 DEF CoverInv, Deleting, InCaches, Safe
  <1>3. CASE BeginWalk
    <2>1. /\ pc = "queued" /\ pc' = "walk" /\ ops = {} /\ ops' = {}
          /\ UNCHANGED <<rows, torn, owed, disk>>
      BY <1>0, <1>3 DEF BeginWalk, OpsInv
    <2>2. ASSUME NEW f \in Safe', rows[f] # {}
          PROVE  /\ f \in Safe
                 /\ cacheMap'[f] # NoFile \/ f \in toVisit'
      BY <1>3, <2>2 DEF BeginWalk, Safe, There
    <2>3. ASSUME withCache', ~torn, NEW f \in Safe, rows[f] # {}
          PROVE  cacheMap'[f] # NoFile
      <3>1. hasCache /\ cacheMap' = cacheFile
        BY <1>3, <2>3 DEF BeginWalk, ReadCache, CreateCache
      <3> QED
        BY <1>0, <2>1, <2>3, <3>1 DEF CoverInv, Deleting
    <2> QED
      BY <2>1, <2>2, <2>3 DEF CoverInv, Deleting, InCaches
  <1>4. CASE EndWalk \/ (WalkThrows /\ withCache)
    <2>1. /\ pc = "walk" /\ RequestDeletes /\ pc' = "generate"
          /\ UNCHANGED <<rows, cacheItems, toVisit, torn, owed, missed>>
          /\ toVisit = {} \/ withCache
      BY <1>4 DEF EndWalk, WalkThrows, RequestDeletes
    <2>2. ASSUME NEW f \in Files, cacheMap[f] # NoFile PROVE Deleting(f)'
      <3>1. [method |-> "del", file |-> f, hash |-> cacheMap[f]] \in ops'
        BY <2>1, <2>2 DEF RequestDeletes, There
      <3> QED
        BY <3>1 DEF Deleting
    <2>3. ASSUME NEW f \in Safe, rows[f] # {}
          PROVE  InCaches(f) \/ (torn /\ toVisit # {})
      BY <1>0, <2>1, <2>3 DEF CoverInv, Safe
    <2> QED
      BY <2>1, <2>2, <2>3 DEF CoverInv, InCaches, Safe
  <1>5. CASE WalkThrows /\ ~withCache
    BY <1>5 DEF WalkThrows, CoverInv
  <1>6. CASE GenerateCacheFile
    <2>1. pc = "generate" /\ pc' = "work" /\ UNCHANGED <<rows, ops, owed, missed>>
      BY <1>6 DEF GenerateCacheFile
    <2>2. CASE hasCache' /\ ~torn'
      <3>1. cacheFile' = cacheItems /\ ~(torn /\ toVisit # {})
        BY <1>6, <2>2 DEF GenerateCacheFile
      <3>2. \A o \in ops : o.hash # NoFile
        BY <1>0, NoFileAssumption DEF TypeOK, Op
      <3>3. \A o \in ops : o.method # "del" => cacheItems[o.file] # NoFile
        BY <1>0, <2>1, <3>2 DEF OpsInv
      <3> QED
        BY <1>0, <2>1, <3>1, <3>3 DEF CoverInv, Deleting, Safe
    <2> QED
      BY <2>1, <2>2 DEF CoverInv
  <1>7. ASSUME NEW f \in Files, Visit(f) PROVE CoverInv'
    BY <1>0, <1>7, VisitCovers
  <1>8. ASSUME NEW f \in Files, DeleteDirty(f) PROVE CoverInv'
    <2>1. UNCHANGED <<pc, hasCache, torn, cacheFile, cacheItems, cacheMap,
                      toVisit, withCache, ops>>
      BY <1>8 DEF DeleteDirty
    <2>2. \A g \in Safe' : g \in Safe /\ rows'[g] = rows[g]
      BY <1>0, <1>8 DEF DeleteDirty, Safe, TypeOK
    <2> QED
      BY <1>0, <2>1, <2>2 DEF CoverInv, Deleting, InCaches, Safe
  <1>9. ASSUME NEW o \in ops, Answer(o) PROVE CoverInv'
    BY <1>0, <1>9, AnswerCovers
  <1>10. CASE Crash
    <2>1. /\ pc' = "off" /\ ops' = {}
          /\ UNCHANGED <<rows, cacheFile, hasCache, missed>>
          /\ owed' = IF hasCache THEN owed \cup {o.file : o \in ops} ELSE owed
          /\ ~torn' => ~torn /\ pc \notin {"walk", "generate"}
      BY <1>10 DEF Crash
    <2>2. ASSUME hasCache, NEW f \in Safe' PROVE f \in Safe /\ ~Deleting(f)
      BY <2>1, <2>2 DEF Safe, Deleting
    <2> QED
      BY <1>0, <2>1, <2>2 DEF CoverInv
  <1> QED
    BY <1>1, <1>2, <1>3, <1>4, <1>5, <1>6, <1>7, <1>8, <1>9, <1>10 DEF Next

-----------------------------------------------------------------------------
(* The rows of a device that is here.                                      *)

LEMMA FlaggedOne ==
    ASSUME NEW R \in SUBSET Row, NEW d \in BOOLEAN, NEW r \in R,
           \A s \in R : s = r
    PROVE  Flagged(R, d) = {[hash |-> r.hash, dirty |-> d]}
  <1>1. R = {r} /\ r \in Row
    OBVIOUS
  <1>2. [r EXCEPT !.dirty = d] = [hash |-> r.hash, dirty |-> d]
    BY <1>1 DEF Row
  <1> QED
    BY <1>1, <1>2 DEF Flagged

\* Setting the dirty flag makes no two rows out of one.
LEMMA FlaggedKeeps ==
    ASSUME NEW R \in SUBSET Row, NEW d \in BOOLEAN
    PROVE  /\ \A r \in Flagged(R, d) : r.dirty = d
           /\ (\A r, s \in R : r = s) => \A r, s \in Flagged(R, d) : r = s
  <1>1. \A r \in R : [r EXCEPT !.dirty = d].dirty = d
    BY DEF Row
  <1> QED
    BY <1>1 DEF Flagged

LEMMA SetDirtyKeeps ==
    ASSUME TypeOK, RowsInv, NEW d \in BOOLEAN, SetDirty(d), missed' = missed,
           d => device' # "here"
    PROVE  RowsInv'
  <1>1. ASSUME NEW f \in Files
        PROVE  /\ \A r \in rows'[f] : r.dirty = d
               /\ f \notin missed => \A r, s \in rows'[f] : r = s
    <2>1. rows[f] \in SUBSET Row /\ rows'[f] = Flagged(rows[f], d)
      BY DEF SetDirty, TypeOK
    <2>2. f \notin missed => \A r, s \in rows[f] : r = s
      BY DEF RowsInv
    <2> QED
      BY <2>1, <2>2, FlaggedKeeps
  <1> QED
    BY <1>1 DEF RowsInv

\* The rows of the file an operation was for: one, and not dirty.
LEMMA AnswerOneRow ==
    ASSUME TypeOK, RowsInv, NEW o \in ops, Answer(o)
    PROVE  /\ \A r \in rows'[o.file] : device = "here" => ~r.dirty
           /\ o.file \notin missed' => \A r, s \in rows'[o.file] : r = s
  <1> DEFINE R == rows[o.file]
  <1>1. /\ o.file \in Files /\ R \in SUBSET Row
        /\ rows'[o.file] = Applied(o, R)
        /\ o.method \in {"put", "mergePut", "unflagDirty", "del"}
    BY AnswerRows DEF Op
  <1>2. /\ \A r \in R : device = "here" => ~r.dirty
        /\ o.file \notin missed => \A r, s \in R : r = s
    BY <1>1 DEF RowsInv
  <1>3. o.file \notin missed' => o.file \notin missed
                              /\ (o.method = "put" => R = {})
    BY <1>1 DEF Answer
  <1>4. /\ \A r \in Flagged(R, FALSE) : ~r.dirty
        /\ (\A r, s \in R : r = s) => \A r, s \in Flagged(R, FALSE) : r = s
    BY <1>1, FlaggedKeeps
  <1>5. \A r \in Fresh(o) : ~r.dirty /\ \A s \in Fresh(o) : r = s
    BY DEF Fresh
  <1> HIDE DEF R
  <1>6. CASE o.method = "put"
    <2>1. rows'[o.file] = Fresh(o) \cup R
      BY <1>1, <1>6 DEF Applied
    <2> QED
      BY <1>2, <1>3, <1>5, <1>6, <2>1 DEF R
  <1>7. CASE o.method = "mergePut"
    <2>1. rows'[o.file] = Fresh(o)
      BY <1>1, <1>7 DEF Applied
    <2> QED
      BY <1>2, <1>5, <2>1 DEF R
  <1>8. CASE o.method = "unflagDirty"
    <2>1. rows'[o.file] = Flagged(R, FALSE)
      BY <1>1, <1>8 DEF Applied
    <2> QED
      BY <1>2, <1>3, <1>4, <2>1 DEF R
  <1>9. CASE o.method = "del"
    BY <1>1, <1>2, <1>9 DEF Applied, R
  <1> QED
    BY <1>1, <1>6, <1>7, <1>8, <1>9

LEMMA StepRowsInv ==
    ASSUME TypeOK, RowsInv, [Next]_vars
    PROVE  RowsInv'
  <1> USE DEF stores, walk, cleaner, history
  <1>1. CASE StartService \/ AddDevice \/ RemoveDevice
    <2>1. /\ missed' = missed
          /\ \/ SetDirty(TRUE) /\ device' # "here"
             \/ SetDirty(FALSE)
             \/ UNCHANGED rows /\ device' # "here"
      BY <1>1 DEF StartService, AddDevice, RemoveDevice
    <2>2. CASE UNCHANGED rows /\ device' # "here"
      BY <2>1, <2>2 DEF RowsInv
    <2> QED
      BY <2>1, <2>2, SetDirtyKeeps
  <1>2. CASE AddAgain \/ RecordDevice \/ RequestMediaScan \/ ChangeDisk
             \/ EndWalk \/ WalkThrows \/ GenerateCacheFile
             \/ FinishScan \/ SearchDirty \/ UNCHANGED vars
    BY <1>2 DEF AddAgain, RecordDevice, RequestMediaScan, ChangeDisk, EndWalk,
                WalkThrows, GenerateCacheFile, FinishScan, SearchDirty, vars,
                RowsInv
  <1>3. CASE BeginWalk
    BY <1>3 DEF BeginWalk, RowsInv
  <1>4. ASSUME NEW f \in Files, Visit(f) PROVE RowsInv'
    BY <1>4, VisitIsVisited DEF Visited, RowsInv
  <1>5. ASSUME NEW f \in Files, DeleteDirty(f) PROVE RowsInv'
    BY <1>5 DEF DeleteDirty, RowsInv, TypeOK
  <1>6. ASSUME NEW o \in ops, Answer(o) PROVE RowsInv'
    <2>1. device' = device /\ missed \subseteq missed'
      BY <1>6 DEF Answer
    <2>2. \A f \in Files : f # o.file => rows'[f] = rows[f]
      BY <1>6, AnswerRows
    <2>3. /\ \A r \in rows'[o.file] : device = "here" => ~r.dirty
          /\ o.file \notin missed' => \A r, s \in rows'[o.file] : r = s
      BY <1>6, AnswerOneRow
    <2> QED
      BY <2>1, <2>2, <2>3 DEF RowsInv
  <1>7. CASE Crash
    BY <1>7 DEF Crash, RowsInv
  <1> QED
    BY <1>1, <1>2, <1>3, <1>4, <1>5, <1>6, <1>7 DEF Next

-----------------------------------------------------------------------------
(* The rows and the disk.                                                  *)

\* One row, not dirty, of the version that is on the disk.
LEMMA OneRowIsRowOf ==
    ASSUME TypeOK, RowsInv, device = "here", NEW f \in Files \ missed,
           NEW r \in rows[f], r.hash = disk[f], disk[f] # NoFile
    PROVE  rows[f] = RowOf(f)
  <1>1. rows[f] = {r} /\ r \in Row /\ ~r.dirty
    BY DEF RowsInv, TypeOK
  <1>2. r = [hash |-> disk[f], dirty |-> FALSE]
    BY <1>1 DEF Row
  <1> QED
    BY <1>1, <1>2 DEF RowOf

\* Every file was visited or is not there; what the cache still names is gone.
LEMMA BeginSettles ==
    ASSUME OpsInv, BeginWalk
    PROVE  DiskInv'
  <1>1. /\ pc = "queued" /\ pc' = "walk" /\ toVisit' = There(disk)
        /\ UNCHANGED <<disk, rows>>
        /\ missed' = missed \cup {f \in Files : rows[f] # {} /\ disk[f] = NoFile
                                                /\ cacheMap'[f] = NoFile}
        /\ ops' = {}
    BY DEF BeginWalk, OpsInv
  <1>2. ASSUME NEW f \in Safe', ~Open(f)' PROVE rows'[f] = RowOf(f)'
    <2>1. f \in Files /\ f \notin missed'
      BY DEF Safe
    <2>2. disk[f] = NoFile /\ cacheMap'[f] = NoFile
      BY <1>1, <1>2, <2>1 DEF Open, There
    <2>3. rows[f] = {}
      BY <1>1, <2>1, <2>2
    <2> QED
      BY <1>1, <2>2, <2>3 DEF RowOf
  <1> QED
    BY <1>1, <1>2 DEF DiskInv, There

LEMMA VisitSettles ==
    ASSUME IInv, RowsInv, DiskInv, NEW f \in Files, Visit(f)
    PROVE  DiskInv'
  <1>0. TypeOK /\ WalkInv /\ OpsInv /\ ClaimsInv
    BY DEF IInv
  <1>1. /\ Visited(f) /\ ops \subseteq ops' /\ f \in toVisit
        /\ pc = "walk" /\ pc' = "walk"
        /\ UNCHANGED <<disk, rows, device, complete, owed, missed>>
    BY VisitIsVisited DEF Visited, stores, history
  <1>2. /\ disk[f] # NoFile /\ cacheMap'[f] = NoFile /\ f \notin toVisit'
        /\ \A g \in Files : g # f => /\ cacheMap'[g] = cacheMap[g]
                                     /\ g \in toVisit => g \in toVisit'
    BY <1>0, <1>1 DEF Visited, WalkInv, TypeOK, Contents
  <1>3. \A o \in ops' \ ops :
           o.file = f /\ o.hash = disk[f] /\ o.method # "del"
    BY DEF Visit, SkipCached, PutMeta, MergePut, UnflagDirty, Ask
  <1>4. ASSUME complete, device = "here", NEW g \in Safe, ~Open(g)'
        PROVE  rows[g] = RowOf(g)
    <2>1. CASE g # f
      <3>1. ~Open(g)
        BY <1>1, <1>2, <1>4, <2>1 DEF Open, Safe
      <3> QED
        BY <1>1, <1>4, <3>1 DEF DiskInv
    <2>2. CASE g = f
      <3>1. SkipCached(f)
        <4>1. ~(PutMeta(f) \/ MergePut(f) \/ UnflagDirty(f))
          <5>1. ASSUME NEW m, Ask(m, f, disk[f]) PROVE FALSE
            <6>1. [method |-> m, file |-> f, hash |-> disk[f]] \in ops'
              BY <5>1 DEF Ask
            <6> QED
              BY <1>4, <2>2, <6>1 DEF Open
          <5> QED
            BY <5>1 DEF PutMeta, MergePut, UnflagDirty
        <4> QED
          BY <4>1 DEF Visit
      <3>2. cacheMap[f] = disk[f]
        BY <3>1 DEF SkipCached, IsExist
      <3>3. f \notin owed /\ f \notin missed /\ \A o \in ops : o.file # f
        BY <1>1, <1>4, <2>2 DEF Open, Safe
      <3>4. Backed(f, disk[f])
        BY <1>0, <1>1, <1>2, <3>2 DEF ClaimsInv
      <3>5. \E r \in rows[f] : r.hash = disk[f]
        BY <3>3, <3>4 DEF Backed
      <3> QED
        BY <1>0, <1>2, <1>4, <2>2, <3>3, <3>5, OneRowIsRowOf
    <2> QED
      BY <2>1, <2>2
  <1>5. RowOf(f)' = RowOf(f) /\ \A g \in Files : RowOf(g)' = RowOf(g)
    BY <1>1 DEF RowOf
  <1> QED
    BY <1>1, <1>2, <1>3, <1>4, <1>5 DEF DiskInv, Safe

\* The answer makes the rows of its file what the operation says of the disk.
LEMMA AnswerSettles ==
    ASSUME IInv, RowsInv, RowsInv', DiskInv, NEW o \in ops, Answer(o)
    PROVE  DiskInv'
  <1>0. TypeOK /\ WalkInv /\ OpsInv
    BY DEF IInv
  <1>1. /\ UNCHANGED <<pc, disk, device, complete, toVisit, cacheMap>>
        /\ ops' = ops \ {o} /\ missed \subseteq missed'
    BY DEF Answer, walk
  <1>2. /\ o.file \in Files /\ o.hash \in Hashes /\ rows[o.file] \in SUBSET Row
        /\ rows'[o.file] = Applied(o, rows[o.file])
        /\ o.method \in {"put", "mergePut", "unflagDirty", "del"}
    BY <1>0, AnswerRows DEF Op
  <1>3. ASSUME complete, device = "here", pc # "queued", NEW f \in Safe',
               ~Open(f)'
        PROVE  rows'[f] = RowOf(f)
    <2>1. CASE f # o.file
      <3>1. f \in Safe /\ ~Open(f) /\ rows'[f] = rows[f]
        BY <1>0, <1>1, <1>3, <2>1, AnswerRows DEF Open, Safe
      <3> QED
        BY <1>3, <3>1 DEF DiskInv
    <2>2. CASE f = o.file /\ o.method # "del"
      <3>1. disk[f] = o.hash /\ o.hash # NoFile
        BY <1>2, <1>3, <2>2, NoFileAssumption DEF DiskInv
      <3>2. \E r \in rows'[f] : r.hash = o.hash
        <4>1. CASE o.method = "unflagDirty"
          <5>1. f \in Safe
            BY <1>0, <1>3, <2>2, <4>1, AnswerRows
          <5>2. \E r \in rows[f] : r.hash = o.hash
            BY <1>0, <2>2, <4>1, <5>1 DEF OpsInv, Safe
          <5> QED
            BY <1>0, <1>2, <2>2, <4>1, <5>2, AnswerRows, AppliedRows
        <4> QED
          BY <1>0, <1>2, <2>2, <4>1, AnswerRows, AppliedRows
      <3>3. TypeOK' /\ f \in Files /\ f \notin missed'
        <4>1. Next
          BY DEF Next
        <4> QED
          BY <1>0, <1>3, <4>1, StepTypeOK DEF Safe
      <3>4. (device = "here")' /\ disk'[f] = disk[f]
        BY <1>1, <1>3
      <3>5. rows'[f] = {[hash |-> disk[f], dirty |-> FALSE]}
        <4>1. PICK r \in rows'[f] : r.hash = o.hash
          BY <3>2
        <4>2. rows'[f] = {r} /\ r \in Row /\ ~r.dirty
          BY <3>3, <3>4, <4>1 DEF RowsInv, TypeOK
        <4> QED
          BY <3>1, <4>1, <4>2 DEF Row
      <3> QED
        BY <3>1, <3>5 DEF RowOf
    <2>3. CASE f = o.file /\ o.method = "del"
      <3>1. disk[f] = NoFile
        BY <1>3, <2>3 DEF DiskInv
      <3>2. rows'[f] = {}
        BY <1>0, <2>3, AnswerRows
      <3> QED
        BY <3>1, <3>2 DEF RowOf
    <2> QED
      BY <2>1, <2>2, <2>3
  <1>4. \A f : RowOf(f)' = RowOf(f)
    BY <1>1 DEF RowOf
  <1> QED
    BY <1>1, <1>3, <1>4 DEF DiskInv

LEMMA StepDiskInv ==
    ASSUME IndexInv, RowsInv', [Next]_vars
    PROVE  DiskInv'
  <1> USE DEF stores, walk, cleaner, history
  <1>0. IInv /\ TypeOK /\ WalkInv /\ OpsInv /\ RowsInv /\ DiskInv
    BY DEF IndexInv, IInv
  <1>1. CASE StartService \/ AddDevice \/ RemoveDevice \/ RequestMediaScan
    <2>1. pc' # "walk" /\ (device' # "here" \/ pc' = "queued")
      BY <1>1 DEF StartService, AddDevice, RemoveDevice, RequestMediaScan
    <2> QED
      BY <2>1 DEF DiskInv
  <1>2. CASE AddAgain \/ RecordDevice \/ SearchDirty \/ UNCHANGED vars
    BY <1>0, <1>2
    DEF AddAgain, RecordDevice, SearchDirty, vars, DiskInv, Open, Safe, RowOf
  <1>3. CASE ChangeDisk \/ Crash \/ (WalkThrows /\ ~withCache)
    BY <1>3 DEF ChangeDisk, Crash, WalkThrows, DiskInv
  <1>4. CASE BeginWalk
    BY <1>0, <1>4, BeginSettles
  <1>5. CASE EndWalk
    <2>1. /\ pc = "walk" /\ toVisit = {} /\ RequestDeletes /\ pc' = "generate"
          /\ UNCHANGED <<disk, rows, device, complete, owed, missed>>
      BY <1>5 DEF EndWalk, RequestDeletes
    <2>2. ops \subseteq ops'
      BY <2>1 DEF RequestDeletes
    <2>3. \A o \in ops' \ ops : o.method = "del" /\ disk[o.file] = NoFile
      BY <1>0, <2>1 DEF RequestDeletes, DiskInv, There
    <2>4. ASSUME NEW f \in Files, Open(f) PROVE Open(f)'
      <3>1. CASE cacheMap[f] # NoFile
        <4>1. [method |-> "del", file |-> f, hash |-> cacheMap[f]] \in ops'
          BY <2>1, <3>1 DEF RequestDeletes, There
        <4> QED
          BY <4>1 DEF Open
      <3> QED
        BY <2>1, <2>2, <2>4, <3>1 DEF Open
    <2> QED
      BY <1>0, <2>1, <2>3, <2>4 DEF DiskInv, Safe, RowOf
  <1>6. CASE WalkThrows /\ withCache
    BY <1>6 DEF WalkThrows, RequestDeletes, DiskInv
  <1>7. CASE GenerateCacheFile \/ FinishScan
    <2>1. /\ pc \in {"generate", "work"} /\ pc' \in {"work", "idle"}
          /\ UNCHANGED <<disk, rows, device, complete, ops, owed, missed>>
      BY <1>7 DEF GenerateCacheFile, FinishScan
    <2> QED
      BY <1>0, <2>1 DEF DiskInv, Open, Safe, RowOf
  <1>8. ASSUME NEW f \in Files, Visit(f) PROVE DiskInv'
    BY <1>0, <1>8, VisitSettles
  <1>9. ASSUME NEW f \in Files, DeleteDirty(f) PROVE DiskInv'
    <2>1. UNCHANGED <<pc, disk, device, complete, toVisit, cacheMap, ops>>
      BY <1>9 DEF DeleteDirty
    <2>2. \A g \in Safe' : g \in Safe /\ rows'[g] = rows[g]
      BY <1>0, <1>9 DEF DeleteDirty, Safe, TypeOK
    <2> QED
      BY <1>0, <2>1, <2>2 DEF DiskInv, Open, RowOf
  <1>10. ASSUME NEW o \in ops, Answer(o) PROVE DiskInv'
    BY <1>0, <1>10, AnswerSettles
  <1> QED
    BY <1>1, <1>2, <1>3, <1>4, <1>5, <1>6, <1>7, <1>8, <1>9, <1>10 DEF Next

-----------------------------------------------------------------------------
(* Theorems.                                                               *)

LEMMA IndexInductive == Spec => []IndexInv
  <1>1. IndexInv /\ [Next]_vars => IndexInv'
    <2> SUFFICES ASSUME IndexInv, [Next]_vars PROVE IndexInv'
      OBVIOUS
    <2>1. IInv'
      BY StepTypeOK, StepWalkInv, StepOpsInv, StepClaimsInv DEF IndexInv, IInv
    <2>2. CoverInv'
      BY StepCoverInv
    <2>3. RowsInv'
      BY StepRowsInv DEF IndexInv, IInv
    <2>4. DiskInv'
      BY <2>3, StepDiskInv
    <2> QED
      BY <2>1, <2>2, <2>3, <2>4 DEF IndexInv
  <1> QED
    BY <1>1, InitIndexInv, PTL DEF Spec

(* A device that reports Idle with a cache file, made by walks that were   *)
(* not cut short, has a name in it for every file with a row: the next     *)
(* walk finds out which files are gone.                                    *)
THEOREM CacheMissesNoRow == Spec => []CacheCoversRows
  <1>1. IndexInv => CacheCoversRows
    <2> SUFFICES ASSUME IndexInv, pc = "idle", hasCache, ~torn,
                        NEW f \in Files \ (owed \cup missed), rows[f] # {}
                 PROVE  cacheFile[f] # NoFile
      BY DEF CacheCoversRows
    <2>1. CoverInv /\ ops = {}
      BY DEF IndexInv, IInv, OpsInv
    <2> QED
      BY <2>1 DEF CoverInv, Deleting, Safe
  <1> QED
    BY <1>1, IndexInductive, PTL

(* When a device that is here reports Idle after a scan that saw the disk  *)
(* as it still is, its rows are its files, each with the hash of the file  *)
(* and none of them dirty - for any files and versions, any scans before,  *)
(* disk changes, lost caches and crashes, but for the files the history    *)
(* names.                                                                  *)
THEOREM IdleIsDisk == Spec => []IndexIsDisk
  <1>1. IndexInv => IndexIsDisk
    <2> SUFFICES ASSUME IndexInv, Current, NEW f \in Files \ (owed \cup missed)
                 PROVE  rows[f] = RowOf(f)
      BY DEF IndexIsDisk
    <2>1. DiskInv /\ pc = "idle" /\ device = "here" /\ complete /\ ops = {}
      BY DEF IndexInv, IInv, OpsInv, Current
    <2> QED
      BY <2>1 DEF DiskInv, Open, Safe
  <1> QED
    BY <1>1, IndexInductive, PTL

=============================================================================
