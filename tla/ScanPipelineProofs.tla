------------------------- MODULE ScanPipelineProofs -------------------------
(***************************************************************************)
(* Proofs about ScanPipeline, for any files, any FlushCount, any walks and *)
(* any bound on the scans.                                                 *)
(***************************************************************************)
EXTENDS ScanPipeline, TLAPS

-----------------------------------------------------------------------------
(* Types.                                                                  *)

LEMMA CalmNextIsNext == [CalmNext]_vars => [Next]_vars
  BY DEF CalmNext, Next

LEMMA InitTypeOK == Init => TypeOK
  <1> SUFFICES ASSUME Init PROVE TypeOK
    OBVIOUS
  <1>1. newMounted \in BOOLEAN /\ state \in {"Idle", "Inactive"}
    BY MountsAssumption DEF Init
  <1>2. walk \in [Classes -> SUBSET Item]
    BY DEF Init, NoWalk
  <1>3. ScansOK
    BY ScansAssumption DEF Init, ScansOK, Requesting
  <1>4. ThreadsOK
    BY DEF Init, ThreadsOK
  <1> QED
    BY <1>1, <1>2, <1>3, <1>4 DEF Init, TypeOK

LEMMA PopRequestScansOK ==
    ASSUME ScansOK, scanPc # "wait", PopRequest, UNCHANGED <<scanNo, main>>
    PROVE  ScansOK'
  <1>1. queue \in Nat /\ queue > 0 /\ scanNo \in Nat /\ MaxScans \in Nat
    BY ScansAssumption DEF ScansOK
  <1> QED
    BY <1>1 DEF ScansOK, PopRequest, Requesting

LEMMA FlushReturnsScansOK ==
    ASSUME ScansOK, FlushReturns, UNCHANGED <<scanNo, main>>
    PROVE  ScansOK' /\ flushing' = "none"
  <1>1. CASE scanPc = "check"
    BY <1>1, PopRequestScansOK DEF FlushReturns
  <1>2. CASE scanPc # "check"
    BY <1>2 DEF ScansOK, FlushReturns, Requesting
  <1> QED
    BY <1>1, <1>2

LEMMA ScanReturnsScansOK ==
    ASSUME ScansOK, ScanLists, ScanReturns, UNCHANGED <<scanNo, main>>
    PROVE  ScansOK' /\ scanPc' \notin {"walk", "notify", "list"}
  <1>1. CASE scanPc = "notify"
    BY <1>1 DEF ScansOK, ScanReturns, Requesting
  <1>2. CASE scanPc # "notify"
    BY <1>2, PopRequestScansOK DEF ScanLists, ScanReturns, PopRequest
  <1> QED
    BY <1>1, <1>2

\* A walk step leaves the scan thread where it is.
LEMMA WalkStepTypeOK == TypeOK /\ WalkStep => TypeOK'
  <1> SUFFICES ASSUME TypeOK, WalkStep PROVE TypeOK'
    OBVIOUS
  <1> USE DEF TypeOK, device, counters, buffers, scanner, parser, resets
  <1>1. /\ scanPc = "walk" /\ flushing = "none"
        /\ UNCHANGED <<scanPc, scanNo, queue, main, reply, putting, zeroed>>
    BY DEF WalkStep, FindItem, RequestDeleteItem, CountRemove, SkipCached,
           QueueForParser, UnflagDirty, CountDirty, Walking, ThreadsOK, NoItem
  <1>2. ScansOK'
    BY <1>1 DEF ScansOK, Requesting
  <1>3. hand.items \subseteq Item
    BY DEF ThreadsOK, Hand, NoItem
  <1>4. \A i \in Item : Visited(i) => walk' \in [Classes -> SUBSET Item]
    BY DEF Visited
  <1>5. ThreadsOK' <=> /\ flushing' \in {"none"} \cup Flush
                       /\ hand' \in Hand \cup {NoItem}
                       /\ hand' # NoItem => flushing' = "none"
    BY <1>1 DEF ThreadsOK
  <1> HIDE DEF TypeOK
  <1>6. ASSUME NEW i \in Item, FindItem(i) PROVE TypeOK'
    <2>1. hand' \in Hand /\ flushing' = flushing
      BY <1>6 DEF FindItem, Hand
    <2>2. crossed' \subseteq Item
      BY <1>6 DEF FindItem, Crosses, TypeOK
    <2> QED
      BY <1>1, <1>2, <1>4, <1>5, <1>6, <2>1, <2>2 DEF FindItem, TypeOK
  <1>7. ASSUME NEW i \in Item, RequestDeleteItem(i) PROVE TypeOK'
    <2>1. hand' \in Hand /\ flushing' = flushing
      BY <1>7 DEF RequestDeleteItem, Hand
    <2> QED
      BY <1>1, <1>2, <1>4, <1>5, <1>7, <2>1 DEF RequestDeleteItem, TypeOK
  <1>8. ASSUME NEW i \in Item, CountRemove(i) PROVE TypeOK'
    <2>1. hand' = NoItem /\ flushing' \in {"none"} \cup Flush
      BY <1>8 DEF CountRemove, FlushFull, Flush
    <2>2. crossed' \subseteq Item
      BY <1>8 DEF CountRemove, Crosses, TypeOK
    <2> QED
      BY <1>1, <1>2, <1>5, <1>8, <2>1, <2>2 DEF CountRemove, TypeOK
  <1>9. CASE SkipCached
    BY <1>1, <1>2, <1>3, <1>5, <1>9 DEF SkipCached, TypeOK
  <1>10. CASE QueueForParser
    BY <1>1, <1>2, <1>3, <1>5, <1>10 DEF QueueForParser, TypeOK
  <1>11. CASE UnflagDirty
    <2>1. hand' \in Hand /\ flushing' = flushing
      BY <1>3, <1>11 DEF UnflagDirty, Hand, NoItem, ThreadsOK, TypeOK
    <2> QED
      BY <1>1, <1>2, <1>3, <1>5, <1>11, <2>1 DEF UnflagDirty, TypeOK
  <1>12. CASE CountDirty
    <2>1. hand' = NoItem /\ flushing' \in {"none"} \cup Flush
      BY <1>12 DEF CountDirty, FlushFull, Flush
    <2> QED
      BY <1>1, <1>2, <1>3, <1>5, <1>12, <2>1 DEF CountDirty, TypeOK
  <1> QED
    BY <1>6, <1>7, <1>8, <1>9, <1>10, <1>11, <1>12 DEF WalkStep

LEMMA ScanThreadTypeOK == TypeOK /\ ScanThread => TypeOK'
  <1> SUFFICES ASSUME TypeOK, ScanThread PROVE TypeOK'
    OBVIOUS
  <1> USE DEF TypeOK, device, counters, buffers, scanner, parser, resets
  <1>1. CASE BeginScan
    <2>1. PICK p \in Plans[newMounted] : walk' = [c \in Classes |-> {scanNo + 1} \X p[c]]
      BY <1>1 DEF BeginScan
    <2>2. p \in [Classes -> SUBSET Files]
      BY <2>1, PlansAssumption DEF PlanSpace
    <2>3. scanNo + 1 \in 1 .. MaxScans
      BY <1>1, ScansAssumption DEF BeginScan, ScansOK
    <2>4. walk' \in [Classes -> SUBSET Item]
      BY <2>1, <2>2, <2>3 DEF Item
    <2>5. ScansOK' /\ ThreadsOK'
      BY <1>1, <2>3, ScansAssumption
      DEF BeginScan, ScansOK, ThreadsOK, Requesting
    <2> QED
      BY <1>1, <2>3, <2>4, <2>5 DEF BeginScan
  <1>2. CASE WalkStep
    BY <1>2, WalkStepTypeOK
  <1>3. CASE EndWalk
    BY <1>3 DEF EndWalk, Walking, ScansOK, ThreadsOK, Requesting
  <1>4. CASE ScanSeesAvailable
    BY <1>4, ScanReturnsScansOK DEF ScanSeesAvailable, ScanLists, ThreadsOK,
                                    LockFree
  <1>5. CASE ScanZeroes
    BY <1>5 DEF ScanZeroes, ScanLists, ZeroCounters, ScansOK, ThreadsOK,
                Requesting
  <1>6. CASE ScanClears
    <2>1. ScanLists
      BY <1>6 DEF ScanClears, ThreadsOK, ScanLists
    <2>2. crossed' \subseteq Item
      BY <1>6 DEF ScanClears, ClearBuffers, ThreadsOK, Hand, NoItem
    <2> QED
      BY <1>6, <2>1, <2>2, ScanReturnsScansOK
      DEF ScanClears, ClearBuffers, ScanLists, ThreadsOK
  <1>7. CASE ScanChecksDone
    BY <1>7 DEF ScanChecksDone, ScanChecks, ScansOK, ThreadsOK, Requesting
  <1>8. CASE ScanFinishes
    BY <1>8 DEF ScanFinishes, FinishScan, ScansOK, ThreadsOK, Requesting
  <1>9. CASE ScanChecksNothing
    BY <1>9, PopRequestScansOK
    DEF ScanChecksNothing, ScanChecks, PopRequest, ThreadsOK
  <1>10. CASE ScanChecksFlush
    BY <1>10 DEF ScanChecksFlush, ScanChecks, Flush, ScansOK, ThreadsOK,
                 Requesting
  <1>11. CASE FlushTakesBuffer
    BY <1>11 DEF FlushTakesBuffer, Message, ScansOK, ThreadsOK, Requesting
  <1>12. CASE FlushFindsNothing
    BY <1>12, FlushReturnsScansOK
    DEF FlushFindsNothing, FlushReturns, PopRequest, ThreadsOK
  <1>13. CASE SendFlush
    <2>1. batch \in Message
      BY <1>13 DEF SendFlush, NoBatch, Flush
    <2>2. flushing' = "none" /\ ScansOK'
      BY <1>13, FlushReturnsScansOK DEF SendFlush
    <2>3. ThreadsOK'
      BY <1>13, <2>2 DEF SendFlush, FlushReturns, PopRequest, ThreadsOK
    <2> QED
      BY <1>13, <2>1, <2>2, <2>3 DEF SendFlush, Send
  <1> QED
    BY <1>1, <1>2, <1>3, <1>4, <1>5, <1>6, <1>7, <1>8, <1>9, <1>10, <1>11,
       <1>12, <1>13
    DEF ScanThread

LEMMA ParserThreadsTypeOK == TypeOK /\ ParserThreads => TypeOK'
  <1> SUFFICES ASSUME TypeOK, ParserThreads PROVE TypeOK'
    OBVIOUS
  <1> USE DEF TypeOK, device, counters, buffers, scanner, parser, resets
  <1>0. UNCHANGED <<scanner, main, reply, hand, zeroed>>
    BY DEF ParserThreads, PutMeta, MergePut, CountPut, FlushPut, FlushIf,
           SendPut
  <1>7. putting \in Put \cup {NoItem} /\ putting.items \subseteq Item
    BY DEF ThreadsOK, Put, NoItem
  <1>8. putting' \in Put \cup {NoItem}
    <2>1. ASSUME NEW i \in Item, PutMeta(i) PROVE putting' \in Put
      BY <2>1 DEF PutMeta, Put
    <2>2. CountPut => putting' \in Put
      BY <1>7 DEF CountPut, Put, NoItem
    <2> QED
      BY <1>7, <2>1, <2>2
      DEF ParserThreads, MergePut, FlushPut, FlushIf, SendPut
  <1>1. ScansOK' /\ ThreadsOK'
    BY <1>0, <1>8 DEF ScansOK, ThreadsOK, Requesting
  <1>2. CASE SendPut
    <2>1. batch \in Message
      BY <1>2 DEF SendPut, NoBatch
    <2> QED
      BY <1>1, <1>2, <2>1 DEF SendPut, Send
  <1>3. ASSUME NEW i \in Item, PutMeta(i) PROVE TypeOK'
    BY <1>1, <1>3 DEF PutMeta
  <1>4. ASSUME NEW i \in Item, MergePut(i) PROVE TypeOK'
    <2>1. [method |-> "mergePut", items |-> {i}] \in Message
      BY DEF Message
    <2> QED
      BY <1>1, <1>4, <2>1 DEF MergePut, Send
  <1>5. CASE CountPut
    BY <1>1, <1>5, <1>7 DEF CountPut
  <1>6. CASE FlushPut
    <2>1. [method |-> "put", items |-> firstBuf] \in Message
      BY DEF Message
    <2> QED
      BY <1>1, <1>6, <2>1 DEF FlushPut, FlushIf
  <1> QED
    BY <1>2, <1>3, <1>4, <1>5, <1>6 DEF ParserThreads

LEMMA ReplyThreadTypeOK == TypeOK /\ ReplyThread => TypeOK'
  <1> SUFFICES ASSUME TypeOK, ReplyThread PROVE TypeOK'
    OBVIOUS
  <1> USE DEF TypeOK, ScansOK, ThreadsOK, Requesting, device, counters,
              buffers, scanner, parser, resets
  <1>1. ASSUME NEW m \in flight, CountReply(m) PROVE TypeOK'
    <2>1. m.items \subseteq Item
      BY DEF Message
    <2> QED
      BY <1>1, <2>1 DEF CountReply
  <1>2. CASE ReplyChecksDone
    BY <1>2 DEF ReplyChecksDone
  <1>3. CASE ReplyFinishes
    BY <1>3 DEF ReplyFinishes, FinishScan
  <1>4. CASE ReplySeesAvailable
    BY <1>4 DEF ReplySeesAvailable
  <1>5. CASE ReplyZeroes
    BY <1>5 DEF ReplyZeroes, ZeroCounters
  <1>6. CASE ReplyClears
    <2>1. crossed' \subseteq Item
      BY <1>6 DEF ReplyClears, ClearBuffers, Hand, NoItem
    <2> QED
      BY <1>6, <2>1 DEF ReplyClears, ClearBuffers
  <1>7. CASE ReplyChecksNothing
    BY <1>7 DEF ReplyChecksNothing
  <1>8. CASE ReplyChecksFlush
    BY <1>8 DEF ReplyChecksFlush
  <1>9. CASE ReplyFlushes
    BY <1>9 DEF ReplyFlushes
  <1> QED
    BY <1>1, <1>2, <1>3, <1>4, <1>5, <1>6, <1>7, <1>8, <1>9 DEF ReplyThread

LEMMA MainThreadTypeOK == TypeOK /\ MainThread => TypeOK'
  <1> SUFFICES ASSUME TypeOK, MainThread PROVE TypeOK'
    OBVIOUS
  <1> USE DEF TypeOK, ThreadsOK, device, counters, buffers, scanner, parser,
              resets
  <1>1. CASE ScanResets
    BY <1>1 DEF ScanResets, ZeroCounters, ScansOK, Requesting
  <1>2. CASE MainClears
    <2>1. crossed' \subseteq Item
      BY <1>2 DEF MainClears, ClearBuffers, Hand, NoItem
    <2>2. ScansOK'
      BY <1>2 DEF MainClears, ScansOK, Requesting
    <2> QED
      BY <1>2, <2>1, <2>2 DEF MainClears, ClearBuffers
  <1>3. CASE PushRequest
    BY <1>3, ScansAssumption DEF PushRequest, ScanFree, ScansOK, Requesting
  <1> QED
    BY <1>1, <1>2, <1>3 DEF MainThread

LEMMA ErrorsTypeOK == TypeOK /\ Errors => TypeOK'
  <1> SUFFICES ASSUME TypeOK, Errors PROVE TypeOK'
    OBVIOUS
  <1> USE DEF TypeOK, ScansOK, ThreadsOK, Requesting, device, counters,
              buffers, scanner, parser, resets
  <1>1. CASE WalkThrows
    <2>1. walk["gone"] \cup walk["hit"] \subseteq Item
      BY DEF Classes
    <2>2. walk' \in [Classes -> SUBSET Item]
      BY <1>1, <2>1 DEF WalkThrows, NoWalk
    <2> QED
      BY <1>1, <2>2 DEF WalkThrows
  <1>2. ASSUME NEW i \in Item, ParserThrows(i) PROVE TypeOK'
    BY <1>2 DEF ParserThrows
  <1> QED
    BY <1>1, <1>2 DEF Errors

LEMMA EventsTypeOK ==
    TypeOK /\ (Events \/ DeviceAdded \/ PushDeviceList) => TypeOK'
  <1> SUFFICES ASSUME TypeOK, Events \/ DeviceAdded \/ PushDeviceList
               PROVE  TypeOK'
    OBVIOUS
  <1> USE DEF TypeOK, ThreadsOK, device, counters, buffers, scanner, parser,
              resets
  <1>1. CASE DeviceAddedAgain
    <2>1. ScansOK' /\ ThreadsOK'
      BY <1>1 DEF DeviceAddedAgain, ScansOK, Requesting
    <2> QED
      BY <1>1, <2>1 DEF DeviceAddedAgain
  <1>2. CASE DeviceRemoved
    <2>1. ScansOK'
      BY <1>2 DEF DeviceRemoved, ScansOK, Requesting
    <2>2. ThreadsOK'
      BY <1>2 DEF DeviceRemoved, ZeroCounters
    <2> QED
      BY <1>2, <2>1, <2>2 DEF DeviceRemoved, ZeroCounters
  <1>3. CASE RequestMediaScan
    <2>1. ScansOK'
      BY <1>3, ScansAssumption
      DEF RequestMediaScan, MayRequest, ScanFree, ScansOK, Requesting
    <2> QED
      BY <1>3, <2>1 DEF RequestMediaScan, ZeroCounters
  <1>4. CASE DeviceAdded
    <2>1. ScansOK'
      BY <1>4, ScansAssumption
      DEF DeviceAdded, MayRequest, ScanFree, ScansOK, Requesting
    <2> QED
      BY <1>4, <2>1 DEF DeviceAdded
  <1>5. CASE PushDeviceList
    BY <1>5 DEF PushDeviceList, ZeroCounters, ScansOK, Requesting
  <1> QED
    BY <1>1, <1>2, <1>3, <1>4, <1>5 DEF Events

LEMMA StepTypeOK == TypeOK /\ [Next]_vars => TypeOK'
  <1>1. TypeOK /\ UNCHANGED vars => TypeOK'
    BY DEF TypeOK, ScansOK, ThreadsOK, Requesting, vars, device, counters,
           buffers, scanner, parser, resets
  <1> QED
    BY <1>1, ScanThreadTypeOK, ParserThreadsTypeOK, ReplyThreadTypeOK,
       MainThreadTypeOK, ErrorsTypeOK, EventsTypeOK
    DEF Next, Threads

(* Whatever the environment does, every variable keeps its type, and the   *)
(* scans begun, queued and about to be queued stay within their bound: a   *)
(* request under way is never popped twice by scanLoop.                    *)
THEOREM Typing == Spec => []TypeOK
  <1> QED
    BY InitTypeOK, StepTypeOK, PTL DEF Spec

-----------------------------------------------------------------------------
(* One cleanup per scan.                                                   *)

LEMMA InitCleanupInv == Init => CleanupInv
  BY DEF Init, CleanupInv, Finishing

LEMMA StepCleanupInv == TypeOK /\ CleanupInv /\ [Next]_vars => CleanupInv'
  <1> SUFFICES ASSUME TypeOK, CleanupInv, [Next]_vars PROVE CleanupInv'
    OBVIOUS
  <1>0. /\ scanNo \in Nat /\ cleanups \in Nat
        /\ scanPc \in {"wait", "walk", "notify", "check", "done", "list"}
    BY DEF TypeOK, ScansOK
  <1>00. hand # NoItem => scanPc = "walk"
    BY DEF TypeOK, ThreadsOK
  \* Steps that begin no scan, end no walk and find nothing done.
  <1>1. ASSUME state' \in {"Idle", "Inactive"} \/ state' = state,
               UNCHANGED <<scanNo, cleanups>>,
               scanPc' = scanPc \/ (scanPc # "walk" /\ scanPc' \notin {"walk", "done"}),
               reply' = reply \/ reply' # "done"
        PROVE  CleanupInv'
    BY <1>0, <1>1 DEF CleanupInv, Finishing
  <1> USE DEF device, counters, scanner, buffers, parser, resets
  <1>2. CASE ScanThread
    <2>1. CASE BeginScan
      BY <2>1, <1>0 DEF BeginScan, CleanupInv, Finishing
    <2>2. CASE WalkStep
      BY <2>2, <1>1
      DEF WalkStep, FindItem, RequestDeleteItem, CountRemove, SkipCached,
          QueueForParser, UnflagDirty, CountDirty
    <2>3. CASE EndWalk
      BY <2>3, <1>0 DEF EndWalk, Walking, CleanupInv, Finishing
    <2>4. CASE ScanSeesAvailable
      BY <2>4, <1>1 DEF ScanSeesAvailable, ScanLists, ScanReturns, PopRequest
    <2>5. CASE ScanZeroes
      BY <2>5, <1>1 DEF ScanZeroes
    <2>6. CASE ScanClears
      <3>1. scanPc \in {"notify", "list"}
        BY <2>6 DEF ScanClears, TypeOK, ThreadsOK
      <3> QED
        BY <2>6, <3>1, <1>1 DEF ScanClears, ScanReturns, PopRequest
    <2>7. CASE ScanChecksDone
      BY <2>7, <1>0
      DEF ScanChecksDone, ScanChecks, CheckFree, AllDone, CleanupInv, Finishing
    <2>8. CASE ScanFinishes
      BY <2>8, <1>0 DEF ScanFinishes, FinishScan, CleanupInv, Finishing
    <2>9. CASE ScanChecksNothing
      BY <2>9, <1>1 DEF ScanChecksNothing, ScanChecks, PopRequest
    <2>10. CASE ScanChecksFlush
      BY <2>10, <1>1 DEF ScanChecksFlush
    <2>11. CASE FlushTakesBuffer
      BY <2>11, <1>1 DEF FlushTakesBuffer
    <2>12. CASE FlushFindsNothing
      BY <2>12, <1>1 DEF FlushFindsNothing, FlushReturns, PopRequest
    <2>13. CASE SendFlush
      BY <2>13, <1>1 DEF SendFlush, FlushReturns, PopRequest
    <2> QED
      BY <1>2, <2>1, <2>2, <2>3, <2>4, <2>5, <2>6, <2>7, <2>8, <2>9, <2>10,
         <2>11, <2>12, <2>13
      DEF ScanThread
  <1>3. CASE ParserThreads
    BY <1>3, <1>1
    DEF ParserThreads, SendPut, PutMeta, MergePut, CountPut, FlushPut, FlushIf
  <1>4. CASE ReplyThread
    <2>1. CASE ReplyChecksDone
      BY <2>1, <1>0
      DEF ReplyChecksDone, CheckFree, AllDone, CleanupInv, Finishing
    <2>2. CASE ReplyFinishes
      BY <2>2, <1>0 DEF ReplyFinishes, FinishScan, CleanupInv, Finishing
    <2>3. CASE ~ReplyChecksDone /\ ~ReplyFinishes
      BY <2>3, <1>4, <1>1
      DEF ReplyThread, CountReply, ReplySeesAvailable, ReplyZeroes,
          ReplyClears, ReplyChecksNothing, ReplyChecksFlush, ReplyFlushes
    <2> QED
      BY <2>1, <2>2, <2>3
  <1>5. CASE MainThread
    BY <1>5, <1>1 DEF MainThread, ScanResets, MainClears, PushRequest
  <1>6. CASE Errors
    BY <1>6, <1>1 DEF Errors, WalkThrows, ParserThrows
  <1>7. CASE Events \/ DeviceAdded \/ PushDeviceList
    BY <1>7, <1>1
    DEF Events, DeviceAdded, DeviceAddedAgain, DeviceRemoved,
        RequestMediaScan, PushDeviceList
  <1>8. CASE UNCHANGED vars
    BY <1>8, <1>1 DEF vars
  <1> QED
    BY <1>2, <1>3, <1>4, <1>5, <1>6, <1>7, <1>8 DEF Next, Threads

(* However the scan thread and the replies race for the end of a scan, and *)
(* whatever happens to the device meanwhile, processingDone activates the  *)
(* cleanup task at most once per scan.                                     *)
THEOREM OneCleanup == Spec => []CleanupOncePerScan
  <1>1. TypeOK /\ CleanupInv => CleanupOncePerScan
    BY DEF TypeOK, ScansOK, CleanupInv, CleanupOncePerScan, Finishing
  <1> QED
    BY <1>1, Typing, InitCleanupInv, StepCleanupInv, PTL DEF Spec

=============================================================================
