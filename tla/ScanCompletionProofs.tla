------------------------ MODULE ScanCompletionProofs ------------------------
(***************************************************************************)
(* Where the operations of a scan are, and what Idle means: an item is in  *)
(* one place at a time, and a device that reports Idle has none left.      *)
(***************************************************************************)
EXTENDS ScanPipelineProofs, FiniteSetTheorems

-----------------------------------------------------------------------------
(* Messages on their way.                                                  *)

LEMMA SendInFlight ==
    ASSUME NEW m, Send(m)
    PROVE  InFlight' = InFlight \cup m.items
  BY DEF Send, InFlight

LEMMA ReceiveInFlight ==
    ASSUME OperationsDisjoint, NEW m \in flight, flight' = flight \ {m}
    PROVE  /\ InFlight' = InFlight \ m.items
           /\ m.items \subseteq InFlight
  <1>1. \A x \in InFlight : \E n \in flight : x \in n.items
    BY DEF InFlight
  <1>2. \A n \in flight : n # m => n.items \cap m.items = {}
    BY DEF OperationsDisjoint
  <1>3. ASSUME NEW x \in InFlight \ m.items PROVE x \in InFlight'
    BY <1>1 DEF InFlight
  <1>4. ASSUME NEW x \in InFlight' PROVE x \in InFlight \ m.items
    BY <1>2 DEF InFlight
  <1>5. m.items \subseteq InFlight
    BY DEF InFlight
  <1> QED
    BY <1>3, <1>4, <1>5

-----------------------------------------------------------------------------
(* The walk.                                                               *)

\* What a step that visits nothing leaves of the items not visited.
LEMMA WalkStays ==
    ASSUME WalkOK, Visible(Pipeline), UNCHANGED <<walk, scanNo>>,
           scanPc' = scanPc \/ (scanPc # "walk" /\ scanPc' # "walk"),
           Pipeline' \subseteq Pipeline
    PROVE  WalkOK' /\ Visible(Pipeline)'
  <1>1. WalkOK'
    BY DEF WalkOK
  <1>2. Visible(Pipeline)'
    BY DEF Visible
  <1> QED
    BY <1>1, <1>2

\* An item is visited, and S is what has been visited before and the item.
LEMMA WalkAdvances ==
    ASSUME TypeOK, WalkOK, NEW S, Visible(S), NEW c \in Classes,
           NEW i \in walk[c], Visited(i), UNCHANGED <<scanNo, scanPc>>,
           NEW T, T \subseteq S \cup {i}
    PROVE  /\ WalkOK'
           /\ \A j \in T : j[1] <= scanNo'
           /\ \A d \in Classes : walk'[d] \cap T = {}
  <1>1. \A d \in Classes : walk'[d] = walk[d] \ {i}
    BY DEF Visited
  <1>2. i[1] = scanNo /\ scanNo \in Nat
    BY DEF WalkOK, TypeOK, ScansOK
  <1>3. \A d, e \in Classes : d # e => walk'[d] \cap walk'[e] = {}
    BY <1>1 DEF WalkOK
  <1>4. \A d \in Classes : walk'[d] \subseteq {scanNo'} \X Files
    BY <1>1 DEF WalkOK
  <1>5. scanPc # "walk" => walk = NoWalk /\ walk' = NoWalk
    BY DEF WalkOK, Visited, NoWalk
  <1>6. WalkOK'
    BY <1>3, <1>4, <1>5 DEF WalkOK, NoWalk
  <1>7. \A j \in T : j[1] <= scanNo'
    BY <1>2 DEF Visible
  <1>8. \A d \in Classes : walk'[d] \cap T = {}
    BY <1>1 DEF Visible
  <1> QED
    BY <1>6, <1>7, <1>8

\* A walk begins: none of its items has been seen before.
LEMMA WalkBegins ==
    ASSUME TypeOK, BeginScan, NEW S \in SUBSET Item, Visible(S)
    PROVE  /\ WalkOK'
           /\ \A j \in S : j[1] <= scanNo'
           /\ \A d \in Classes : walk'[d] \cap S = {}
  <1>1. PICK p \in Plans[newMounted] : walk' = [c \in Classes |-> {scanNo + 1} \X p[c]]
    BY DEF BeginScan
  <1>2. /\ p \in [Classes -> SUBSET Files]
        /\ \A c, d \in Classes : c # d => p[c] \cap p[d] = {}
    BY PlansAssumption DEF PlanSpace, TypeOK
  <1>3. scanNo \in Nat /\ scanNo' = scanNo + 1 /\ scanPc' = "walk"
    BY DEF TypeOK, ScansOK, BeginScan
  <1>4. \A d \in Classes : walk'[d] = {scanNo'} \X p[d]
    BY <1>1, <1>3
  <1>5. \A d \in Classes : walk'[d] \subseteq {scanNo'} \X Files
    BY <1>2, <1>4
  <1>6. \A d, e \in Classes : d # e => walk'[d] \cap walk'[e] = {}
    BY <1>2, <1>4
  <1>7. \A d \in Classes : \A j \in walk'[d] : j[1] = scanNo + 1
    BY <1>3, <1>4
  <1>8. \A j \in S : j[1] <= scanNo
    BY DEF Visible
  <1>9. \A d \in Classes : walk'[d] \cap S = {}
    <2> SUFFICES ASSUME NEW d \in Classes, NEW j \in walk'[d], j \in S
                 PROVE  FALSE
      OBVIOUS
    <2>1. j[1] = scanNo + 1 /\ j[1] <= scanNo
      BY <1>7, <1>8
    <2> QED
      BY <2>1, <1>3
  <1>10. WalkOK'
    BY <1>3, <1>5, <1>6 DEF WalkOK
  <1>11. \A j \in S : j[1] <= scanNo'
    <2> SUFFICES ASSUME NEW j \in S PROVE j[1] <= scanNo'
      OBVIOUS
    <2>1. j[1] \in Nat
      BY DEF Item
    <2> QED
      BY <2>1, <1>3, <1>8
  <1> QED
    BY <1>9, <1>10, <1>11

-----------------------------------------------------------------------------
(* An item is in one place.                                                *)

LEMMA PipelineType == TypeOK => Pipeline \in SUBSET Item
  <1> SUFFICES ASSUME TypeOK PROVE Pipeline \subseteq Item
    OBVIOUS
  <1>1. batch.items \subseteq Item
    BY DEF TypeOK, Message, NoBatch
  <1>2. InFlight \subseteq Item
    BY DEF TypeOK, Message, InFlight
  <1>3. InHand \subseteq Item
    BY DEF TypeOK, ThreadsOK, Hand, NoItem, InHand
  <1> QED
    BY <1>1, <1>2, <1>3 DEF TypeOK, Pipeline

LEMMA InitFlowInv == Init => FlowInv
  <1> SUFFICES ASSUME Init PROVE FlowInv
    OBVIOUS
  <1>1. Pipeline = {} /\ OperationsDisjoint
    BY DEF Init, NoBatch, NoItem, Found, Pipeline, InFlight, InHand,
           OperationsDisjoint
  <1>2. WalkOK
    BY DEF Init, WalkOK, NoWalk
  <1> QED
    BY <1>1, <1>2 DEF FlowInv, Visible

\* The scan thread's item is where it was, or nowhere.
LEMMA HandStays ==
    ASSUME UNCHANGED hand \/ hand'.step \notin Found
    PROVE  InHand' \subseteq InHand /\ (UNCHANGED hand => InHand' = InHand)
  BY DEF InHand

\* The places are where they were, except for some that lose items.
LEMMA FlowStays ==
    ASSUME FlowInv, UNCHANGED <<batch, flight, walk, scanNo>>,
           UNCHANGED hand \/ hand'.step \notin Found,
           parseQ' \subseteq parseQ, firstBuf' \subseteq firstBuf,
           reBuf' \subseteq reBuf,
           scanPc' = scanPc \/ (scanPc # "walk" /\ scanPc' # "walk")
    PROVE  FlowInv' /\ Pipeline' \subseteq Pipeline
  <1>1. InFlight' = InFlight /\ InHand' \subseteq InHand
    BY HandStays DEF InFlight
  <1>2. Pipeline' \subseteq Pipeline
    BY <1>1 DEF Pipeline
  <1>3. OperationsDisjoint'
    BY <1>1 DEF OperationsDisjoint, FlowInv
  <1> QED
    BY <1>2, <1>3, WalkStays DEF FlowInv

\* A reset empties the two buffers.
LEMMA FlowClears ==
    ASSUME FlowInv, NEW t, ClearBuffers(t),
           UNCHANGED <<hand, parseQ, batch, flight, walk, scanNo>>,
           scanPc' = scanPc \/ (scanPc # "walk" /\ scanPc' # "walk")
    PROVE  FlowInv' /\ Pipeline' \subseteq Pipeline
  BY FlowStays DEF ClearBuffers

\* A batch is made of the rescan buffer.
LEMMA FlowTakesBuffer ==
    ASSUME FlowInv, FlushTakesBuffer
    PROVE  FlowInv' /\ Pipeline' = Pipeline
  <1> USE DEF FlushTakesBuffer, BufferFree, scanner, parser
  <1>1. InFlight' = InFlight /\ InHand' = InHand
    BY DEF InFlight, InHand
  <1>2. batch.items = {} /\ batch'.items = reBuf /\ reBuf' = {}
    BY DEF NoBatch
  <1>3. Pipeline' = Pipeline
    BY <1>1, <1>2 DEF Pipeline
  <1>4. OperationsDisjoint'
    BY <1>1, <1>2 DEF OperationsDisjoint, FlowInv
  <1> QED
    BY <1>3, <1>4, WalkStays DEF FlowInv

\* A batch is sent.
LEMMA FlowSends ==
    ASSUME FlowInv, Send(batch), batch' = NoBatch,
           UNCHANGED <<hand, parser, buffers, walk, scanNo>>,
           scanPc' = scanPc \/ (scanPc # "walk" /\ scanPc' # "walk")
    PROVE  FlowInv' /\ Pipeline' = Pipeline
  <1> USE DEF buffers, parser
  <1>1. InFlight' = InFlight \cup batch.items /\ InHand' = InHand
    BY SendInFlight DEF InHand
  <1>2. batch'.items = {} /\ flight' = flight \cup {batch}
    BY DEF NoBatch, Send
  <1>3. Pipeline' = Pipeline
    BY <1>1, <1>2 DEF Pipeline
  <1>4. \A m \in flight : m.items \cap batch.items = {}
    BY DEF FlowInv, OperationsDisjoint, InFlight
  <1>5. \A m, n \in flight' : m # n => m.items \cap n.items = {}
    BY <1>2, <1>4 DEF FlowInv, OperationsDisjoint
  <1>6. OperationsDisjoint'
    BY <1>1, <1>2, <1>5 DEF OperationsDisjoint, FlowInv
  <1> QED
    BY <1>3, <1>6, WalkStays DEF FlowInv

\* A parsed item is sent at once.
LEMMA FlowMergePut ==
    ASSUME FlowInv, NEW i, MergePut(i)
    PROVE  FlowInv' /\ Pipeline' = Pipeline
  <1> USE DEF MergePut, buffers, scanner
  <1> DEFINE m == [method |-> "mergePut", items |-> {i}]
  <1>1. InFlight' = InFlight \cup {i} /\ InHand' = InHand
    BY SendInFlight DEF InHand
  <1>2. flight' = flight \cup {m} /\ parseQ' = parseQ \ {i} /\ i \in parseQ
    BY DEF Send
  <1>3. Pipeline' = Pipeline
    BY <1>1, <1>2 DEF Pipeline
  <1>4. \A n \in flight : n.items \cap m.items = {}
    BY <1>2 DEF FlowInv, OperationsDisjoint, InFlight
  <1>5. \A n, o \in flight' : n # o => n.items \cap o.items = {}
    BY <1>2, <1>4 DEF FlowInv, OperationsDisjoint
  <1> HIDE DEF m
  <1>6. OperationsDisjoint'
    BY <1>1, <1>2, <1>5 DEF OperationsDisjoint, FlowInv
  <1> QED
    BY <1>3, <1>6, WalkStays DEF FlowInv

\* A parsed item is appended to the buffer of the puts,
LEMMA FlowPutMeta ==
    ASSUME FlowInv, NEW i, PutMeta(i)
    PROVE  FlowInv' /\ Pipeline' = Pipeline
  <1> USE DEF PutMeta, scanner
  <1>1. InFlight' = InFlight /\ InHand' = InHand
    BY DEF InFlight, InHand
  <1>2. Pipeline' = Pipeline
    BY <1>1 DEF Pipeline
  <1>3. OperationsDisjoint'
    BY <1>1 DEF OperationsDisjoint, FlowInv
  <1> QED
    BY <1>2, <1>3, WalkStays DEF FlowInv

\* ... which may become a batch.
LEMMA FlowFlushPut ==
    ASSUME TypeOK, FlowInv, FlushPut, batch = NoBatch
    PROVE  FlowInv' /\ Pipeline' = Pipeline
  <1> USE DEF FlushPut, FlushIf, scanner
  <1>1. InFlight' = InFlight /\ InHand' = InHand
    BY DEF InFlight, InHand
  <1>2. \/ batch.items = {} /\ batch'.items = firstBuf /\ firstBuf' = {}
        \/ UNCHANGED <<batch, firstBuf>>
    BY DEF NoBatch
  <1>3. Pipeline' = Pipeline
    BY <1>1, <1>2 DEF Pipeline
  <1>4. OperationsDisjoint'
    BY <1>1, <1>2 DEF OperationsDisjoint, FlowInv
  <1> QED
    BY <1>3, <1>4, WalkStays DEF FlowInv

\* An answer is taken from the messages on their way.
LEMMA FlowCountReply ==
    ASSUME FlowInv, NEW m, CountReply(m)
    PROVE  FlowInv' /\ Pipeline' = Pipeline \ m.items
  <1> USE DEF CountReply, scanner, buffers, parser
  <1>1. InFlight' = InFlight \ m.items /\ m.items \subseteq InFlight
    BY ReceiveInFlight DEF FlowInv
  <1>2. InHand' = InHand
    BY DEF InHand
  <1>3. Pipeline' = Pipeline \ m.items
    BY <1>1, <1>2 DEF Pipeline, OperationsDisjoint, FlowInv
  <1>4. OperationsDisjoint'
    BY <1>1, <1>2 DEF OperationsDisjoint, FlowInv
  <1> QED
    BY <1>3, <1>4, WalkStays DEF FlowInv

\* An item is visited: the scan thread holds it, or its deletion is in the
\* rescan buffer.
LEMMA FlowVisits ==
    ASSUME TypeOK, FlowInv, NEW i \in Item, FindItem(i) \/ RequestDeleteItem(i)
    PROVE  FlowInv' /\ Pipeline' = Pipeline \cup {i}
  <1> USE DEF FindItem, RequestDeleteItem, Walking, Found, Classes, buffers,
              parser
  <1>1. PICK c \in Classes : i \in walk[c]
    OBVIOUS
  <1>2. Visited(i) /\ UNCHANGED <<batch, flight, parseQ, firstBuf, scanNo, scanPc>>
    OBVIOUS
  <1>3. InFlight' = InFlight /\ InHand = {}
    BY <1>2 DEF InFlight, InHand, NoItem
  <1>4. \/ InHand' = {i} /\ reBuf' = reBuf
        \/ InHand' = {} /\ reBuf' = reBuf \cup {i}
    BY DEF InHand
  <1>5. i \notin Pipeline
    BY <1>1 DEF FlowInv, Visible
  <1>6. Pipeline' = Pipeline \cup {i}
    BY <1>2, <1>3, <1>4 DEF Pipeline
  <1>7. OperationsDisjoint'
    BY <1>2, <1>3, <1>4, <1>5 DEF OperationsDisjoint, FlowInv, Pipeline
  <1> HIDE DEF FindItem, RequestDeleteItem, Walking, Found, Classes, buffers,
               parser
  <1> DEFINE S == Pipeline
             T == Pipeline'
  <1>8. WalkOK /\ Visible(S) /\ UNCHANGED <<scanNo, scanPc>>
    BY <1>2 DEF FlowInv
  <1>9. T \subseteq S \cup {i}
    BY <1>6
  <1> HIDE DEF S, T
  <1>10. /\ WalkOK'
         /\ \A j \in T : j[1] <= scanNo'
         /\ \A d \in Classes : walk'[d] \cap T = {}
    BY <1>1, <1>2, <1>8, <1>9, WalkAdvances
  <1>11. Visible(Pipeline)'
    BY <1>10 DEF T, Visible, Classes
  <1> QED
    BY <1>6, <1>7, <1>10, <1>11 DEF FlowInv

\* An item found goes to the parser, or into the rescan buffer.
LEMMA FlowHandsOn ==
    ASSUME TypeOK, FlowInv, QueueForParser \/ UnflagDirty
    PROVE  FlowInv' /\ Pipeline' = Pipeline
  <1> USE DEF QueueForParser, UnflagDirty, scanner, buffers, parser
  <1>1. hand \in Hand
    BY DEF TypeOK, ThreadsOK, NoItem
  <1>2. InHand = hand.items /\ InHand' = {}
    BY <1>1 DEF InHand, Found, Classes, Hand, NoItem
  <1>3. \/ parseQ' = parseQ \cup InHand /\ reBuf' = reBuf
        \/ parseQ' = parseQ /\ reBuf' = reBuf \cup InHand
    BY <1>2
  <1>4. InFlight' = InFlight /\ UNCHANGED <<firstBuf, batch, flight>>
    BY DEF InFlight
  <1>5. Pipeline' = Pipeline
    BY <1>2, <1>3, <1>4 DEF Pipeline
  <1>6. OperationsDisjoint'
    BY <1>2, <1>3, <1>4 DEF OperationsDisjoint, FlowInv
  <1> QED
    BY <1>5, <1>6, WalkStays DEF FlowInv

\* An item is counted once more, and let go of.
LEMMA FlowLetsGo ==
    ASSUME FlowInv, \/ SkipCached \/ CountDirty
                    \/ \E i \in Item : CountRemove(i)
    PROVE  FlowInv' /\ Pipeline' = Pipeline \ InHand
  <1> USE DEF SkipCached, CountDirty, CountRemove, FlushFull, scanner, buffers,
              parser
  <1>1. UNCHANGED <<batch, flight, walk, scanNo, scanPc, parseQ, firstBuf, reBuf>>
    OBVIOUS
  <1>2. hand' = NoItem /\ InHand' = {}
    BY DEF NoItem, InHand, Found, Classes
  <1>3. FlowInv'
    BY <1>1, <1>2, FlowStays DEF NoItem, Found, Classes
  <1>4. InFlight' = InFlight
    BY <1>1 DEF InFlight
  <1>5. Pipeline' = Pipeline \ InHand
    BY <1>1, <1>2, <1>4 DEF Pipeline, FlowInv, OperationsDisjoint
  <1> QED
    BY <1>3, <1>5

\* The walk begins, ends, or is broken off.
LEMMA FlowBegins ==
    ASSUME TypeOK, FlowInv, BeginScan
    PROVE  FlowInv' /\ Pipeline' = Pipeline
  <1>1. UNCHANGED <<hand, parseQ, firstBuf, reBuf, batch, flight>>
    BY DEF BeginScan, buffers, parser
  <1>2. InFlight' = InFlight /\ InHand' = InHand
    BY <1>1 DEF InFlight, InHand
  <1>3. Pipeline' = Pipeline
    BY <1>1, <1>2 DEF Pipeline
  <1>4. OperationsDisjoint'
    BY <1>1, <1>2 DEF OperationsDisjoint, FlowInv
  <1> DEFINE S == Pipeline
  <1>5. S \in SUBSET Item /\ Visible(S)
    BY PipelineType DEF FlowInv
  <1> HIDE DEF S
  <1>6. /\ WalkOK'
        /\ \A j \in S : j[1] <= scanNo'
        /\ \A d \in Classes : walk'[d] \cap S = {}
    BY <1>5, WalkBegins
  <1>7. Visible(Pipeline)'
    BY <1>3, <1>6 DEF S, Visible, Classes
  <1> QED
    BY <1>3, <1>4, <1>6, <1>7 DEF FlowInv

LEMMA FlowEnds ==
    ASSUME FlowInv, EndWalk
    PROVE  FlowInv' /\ Pipeline' = Pipeline
  <1> USE DEF EndWalk, Walking, buffers, parser
  <1>1. InFlight' = InFlight /\ InHand' = InHand
    BY DEF InFlight, InHand
  <1>2. Pipeline' = Pipeline
    BY <1>1 DEF Pipeline
  <1>3. OperationsDisjoint'
    BY <1>1 DEF OperationsDisjoint, FlowInv
  <1>4. WalkOK'
    BY DEF WalkOK, FlowInv
  <1>5. Visible(Pipeline)'
    BY <1>2 DEF Visible, FlowInv
  <1> QED
    BY <1>2, <1>3, <1>4, <1>5 DEF FlowInv

LEMMA FlowThrows ==
    ASSUME FlowInv, WalkThrows
    PROVE  FlowInv' /\ Pipeline' = Pipeline
  <1> USE DEF WalkThrows, Walking, buffers, parser
  <1>1. InFlight' = InFlight /\ InHand' = InHand
    BY DEF InFlight, InHand
  <1>2. Pipeline' = Pipeline
    BY <1>1 DEF Pipeline
  <1>3. OperationsDisjoint'
    BY <1>1 DEF OperationsDisjoint, FlowInv
  <1>4. \A d \in Classes : walk'[d] = IF d = "gone"
                                      THEN walk["gone"] \cup walk["hit"] ELSE {}
    BY DEF NoWalk
  <1>5. WalkOK'
    BY <1>4 DEF WalkOK, FlowInv, Classes
  <1>6. Visible(Pipeline)'
    BY <1>2, <1>4 DEF Visible, FlowInv, Classes
  <1> QED
    BY <1>2, <1>3, <1>5, <1>6 DEF FlowInv

\* The extractor throws: an item is lost.
LEMMA FlowLoses ==
    ASSUME FlowInv, NEW i, ParserThrows(i)
    PROVE  FlowInv' /\ Pipeline' \subseteq Pipeline
  BY FlowStays DEF ParserThrows, scanner, buffers

\* A batch is made only when none waits to be sent.
PutInv == putting # NoItem => batch = NoBatch

LEMMA StepPutInv == TypeOK /\ PutInv /\ [Next]_vars => PutInv'
  <1> SUFFICES ASSUME TypeOK, PutInv, [Next]_vars PROVE PutInv'
    OBVIOUS
  <1> USE DEF PutInv, parser
  <1>1. CASE ParserThreads
    <2>1. ASSUME NEW i \in Item, PutMeta(i) \/ MergePut(i) PROVE PutInv'
      BY <2>1 DEF PutMeta, MergePut, BufferFree
    <2>2. CASE CountPut
      BY <2>2 DEF CountPut, NoItem
    <2>3. CASE FlushPut \/ SendPut
      BY <2>3 DEF FlushPut, FlushIf, SendPut
    <2> QED
      BY <1>1, <2>1, <2>2, <2>3 DEF ParserThreads
  <1>2. CASE ScanThread
    BY <1>2
    DEF ScanThread, BeginScan, WalkStep, FindItem, SkipCached, QueueForParser,
        UnflagDirty, RequestDeleteItem, CountDirty, CountRemove, EndWalk,
        ScanSeesAvailable, ScanZeroes, ScanClears, ScanChecksDone,
        ScanFinishes, ScanChecksNothing, ScanChecksFlush, FlushTakesBuffer,
        FlushFindsNothing, SendFlush, BufferFree
  <1>3. CASE ReplyThread
    BY <1>3
    DEF ReplyThread, CountReply, ReplyChecksDone, ReplyFinishes,
        ReplySeesAvailable, ReplyZeroes, ReplyClears, ReplyChecksNothing,
        ReplyChecksFlush, ReplyFlushes
  <1>4. CASE MainThread \/ Errors \/ Events \/ DeviceAdded \/ PushDeviceList
    BY <1>4
    DEF MainThread, ScanResets, MainClears, PushRequest, Errors, WalkThrows,
        ParserThrows, Events, DeviceAdded, DeviceAddedAgain, DeviceRemoved,
        RequestMediaScan, PushDeviceList
  <1>5. CASE UNCHANGED vars
    BY <1>5 DEF vars
  <1> QED
    BY <1>1, <1>2, <1>3, <1>4, <1>5 DEF Next, Threads

\* What the steps of the scan thread do to the pipeline.
LEMMA FlowScanThread ==
    ASSUME TypeOK, FlowInv, ScanThread
    PROVE  /\ FlowInv'
           /\ \/ Pipeline' \subseteq Pipeline
              \/ \E i \in Item : FindItem(i) \/ RequestDeleteItem(i)
  <1> USE DEF device, counters, scanner, buffers, parser, resets
  <1>1. CASE BeginScan
    BY <1>1, FlowBegins
  <1>2. CASE WalkStep
    BY <1>2, FlowVisits, FlowHandsOn, FlowLetsGo DEF WalkStep
  <1>3. CASE EndWalk
    BY <1>3, FlowEnds
  <1>4. CASE ScanSeesAvailable \/ ScanZeroes
    BY <1>4, FlowStays
    DEF ScanSeesAvailable, ScanZeroes, ScanLists, ScanReturns, PopRequest
  <1>5. CASE ScanClears
    <2>1. scanPc \in {"notify", "list"}
      BY <1>5 DEF ScanClears, TypeOK, ThreadsOK
    <2> QED
      BY <1>5, <2>1, FlowClears DEF ScanClears, ScanReturns, PopRequest
  <1>6. CASE ScanChecksDone \/ ScanChecksNothing \/ ScanChecksFlush
    BY <1>6, FlowStays
    DEF ScanChecksDone, ScanChecksNothing, ScanChecksFlush, ScanChecks,
        PopRequest
  <1>7. CASE ScanFinishes
    BY <1>7, FlowStays DEF ScanFinishes
  <1>8. CASE FlushTakesBuffer
    BY <1>8, FlowTakesBuffer
  <1>9. CASE FlushFindsNothing
    BY <1>9, FlowStays DEF FlushFindsNothing, FlushReturns, PopRequest
  <1>10. CASE SendFlush
    BY <1>10, FlowSends DEF SendFlush, FlushReturns, PopRequest
  <1> QED
    BY <1>1, <1>2, <1>3, <1>4, <1>5, <1>6, <1>7, <1>8, <1>9, <1>10
    DEF ScanThread

\* ... and those of the others, which add nothing to it.
LEMMA FlowOthers ==
    ASSUME TypeOK, FlowInv, PutInv,
           \/ ParserThreads \/ ReplyThread \/ MainThread \/ Errors \/ Events
           \/ DeviceAdded \/ PushDeviceList \/ UNCHANGED vars
    PROVE  FlowInv' /\ Pipeline' \subseteq Pipeline
  <1> USE DEF device, counters, scanner, buffers, parser, resets
  <1>1. CASE ParserThreads
    <2>1. FlushPut => batch = NoBatch
      BY DEF FlushPut, FlushIf, PutInv, NoItem
    <2>2. CountPut => FlowInv' /\ Pipeline' \subseteq Pipeline
      BY FlowStays DEF CountPut
    <2>3. SendPut => FlowInv' /\ Pipeline' \subseteq Pipeline
      BY FlowSends DEF SendPut
    <2> QED
      BY <1>1, <2>1, <2>2, <2>3, FlowPutMeta, FlowMergePut, FlowFlushPut
      DEF ParserThreads
  <1>2. CASE ReplyThread
    <2>1. ReplyClears => FlowInv' /\ Pipeline' \subseteq Pipeline
      BY FlowClears DEF ReplyClears
    <2>2. ASSUME \/ ReplyChecksDone \/ ReplyFinishes \/ ReplySeesAvailable
                 \/ ReplyZeroes \/ ReplyChecksNothing \/ ReplyChecksFlush
                 \/ ReplyFlushes
          PROVE  FlowInv' /\ Pipeline' \subseteq Pipeline
      BY <2>2, FlowStays
      DEF ReplyChecksDone, ReplyFinishes, ReplySeesAvailable, ReplyZeroes,
          ReplyChecksNothing, ReplyChecksFlush, ReplyFlushes
    <2> QED
      BY <1>2, <2>1, <2>2, FlowCountReply DEF ReplyThread
  <1>3. CASE MainThread
    <2>1. MainClears => FlowInv' /\ Pipeline' \subseteq Pipeline
      BY FlowClears DEF MainClears
    <2> QED
      BY <1>3, <2>1, FlowStays DEF MainThread, ScanResets, PushRequest
  <1>4. CASE Errors
    BY <1>4, FlowThrows, FlowLoses DEF Errors
  <1>5. CASE Events \/ DeviceAdded \/ PushDeviceList
    BY <1>5, FlowStays
    DEF Events, DeviceAdded, DeviceAddedAgain, DeviceRemoved,
        RequestMediaScan, PushDeviceList
  <1>6. CASE UNCHANGED vars
    BY <1>6, FlowStays DEF vars
  <1> QED
    BY <1>1, <1>2, <1>3, <1>4, <1>5, <1>6

LEMMA StepFlowInv == TypeOK /\ PutInv /\ FlowInv /\ [Next]_vars => FlowInv'
  BY FlowScanThread, FlowOthers DEF Next, Threads

LEMMA InitPutInv == Init => PutInv
  BY DEF Init, PutInv

(* Whatever happens to the device, and in whatever order the parser's      *)
(* threads, the scan thread and the replies take turns, no operation is in *)
(* two places: none is sent twice, and no answer is counted twice.         *)
THEOREM OnePlace == Spec => []OperationsDisjoint
  <1>1. FlowInv => OperationsDisjoint
    BY DEF FlowInv
  <1> QED
    BY <1>1, Typing, InitPutInv, StepPutInv, InitFlowInv, StepFlowInv, PTL
    DEF Spec

-----------------------------------------------------------------------------
(* What the counters tell.                                                 *)

LEMMA FiniteItems == ASSUME NEW S, S \subseteq Item PROVE IsFiniteSet(S)
  <1>1. IsFiniteSet(1 .. MaxScans)
    BY FS_Interval, ScansAssumption
  <1>2. IsFiniteSet(Item)
    BY <1>1, FilesAssumption, FS_Product DEF Item
  <1> QED
    BY <1>2, FS_Subset

LEMMA DisjointCardinality ==
    ASSUME NEW S, IsFiniteSet(S), NEW T, IsFiniteSet(T), S \cap T = {}
    PROVE  /\ IsFiniteSet(S \cup T)
           /\ Cardinality(S \cup T) = Cardinality(S) + Cardinality(T)
  <1>1. Cardinality(S) \in Nat /\ Cardinality(T) \in Nat
    BY FS_CardinalityType
  <1>2. Cardinality(S \cap T) = 0
    BY FS_EmptySet
  <1>3. /\ IsFiniteSet(S \cup T)
        /\ Cardinality(S \cup T)
             = Cardinality(S) + Cardinality(T) - Cardinality(S \cap T)
    BY FS_Union
  <1> QED
    BY <1>1, <1>2, <1>3

\* The two comparisons of processingDone together leave nothing to be answered.
LEMMA CountsBalance ==
    ASSUME TypeOK, CountersInv, AllDone
    PROVE  Wanted = Answered
  <1>1. /\ IsFiniteSet(total) /\ IsFiniteSet(remove)
        /\ IsFiniteSet(processed) /\ IsFiniteSet(removed)
    BY FiniteItems DEF TypeOK
  <1>2. total \cap remove = {} /\ processed \cap removed = {}
    BY DEF CountersInv
  <1>3. /\ IsFiniteSet(Wanted)
        /\ Cardinality(Wanted) = Cardinality(total) + Cardinality(remove)
    BY <1>1, <1>2, DisjointCardinality DEF Wanted
  <1>4. Cardinality(Answered) = Cardinality(processed) + Cardinality(removed)
    BY <1>1, <1>2, DisjointCardinality DEF Answered
  <1>5. Answered \in SUBSET Wanted
    BY DEF CountersInv
  <1>6. Cardinality(Wanted) = Cardinality(Answered)
    BY <1>3, <1>4 DEF AllDone, Same
  <1> QED
    BY <1>3, <1>5, <1>6, FS_Subset

LEMMA CountersStay ==
    ASSUME CountersInv, UNCHANGED <<total, processed, remove, removed, scanNo>>,
           \A c \in Classes : walk'[c] \subseteq walk[c] \/ walk' = walk,
           ToRemove' = ToRemove, ToRemove = {} \/ reBuf' = reBuf,
           Pipeline' \subseteq Pipeline
    PROVE  CountersInv' /\ Wanted' = Wanted /\ Answered' = Answered
  <1>1. Wanted' = Wanted /\ Answered' = Answered
    BY DEF Wanted, Answered
  <1>2. Visible(Wanted \cup ToRemove)'
    BY <1>1 DEF CountersInv, Visible
  <1>3. total' \cap remove' = {} /\ processed' \cap removed' = {}
    BY DEF CountersInv
  <1>4. /\ Answered' \subseteq Wanted' /\ Pipeline' \subseteq Wanted' \cup ToRemove'
        /\ Answered' \cap Pipeline' = {} /\ Wanted' \cap ToRemove' = {}
        /\ ToRemove' \subseteq reBuf'
    BY <1>1 DEF CountersInv
  <1> QED
    BY <1>1, <1>2, <1>3, <1>4 DEF CountersInv

\* What is answered is not in the pipeline any more.
LEMMA CountersAnswer ==
    ASSUME CountersInv, NEW S \in SUBSET Pipeline, S \cap ToRemove = {},
           UNCHANGED <<total, remove, reBuf, walk, scanNo>>,
           ToRemove' = ToRemove, Pipeline' = Pipeline \ S,
           \/ processed' = processed \cup S /\ removed' = removed
           \/ processed' = processed /\ removed' = removed \cup S
    PROVE  /\ CountersInv'
           /\ Wanted' = Wanted /\ Answered' = Answered \cup S
  <1>1. Wanted' = Wanted /\ Answered' = Answered \cup S
    BY DEF Wanted, Answered
  <1>2. Visible(Wanted \cup ToRemove)'
    BY <1>1 DEF CountersInv, Visible
  <1>3. S \cap processed = {} /\ S \cap removed = {}
    BY DEF CountersInv, Answered
  <1>4. total' \cap remove' = {} /\ processed' \cap removed' = {}
    BY <1>3 DEF CountersInv
  <1>5. /\ Answered' \subseteq Wanted' /\ Pipeline' \subseteq Wanted' \cup ToRemove'
        /\ Answered' \cap Pipeline' = {} /\ Wanted' \cap ToRemove' = {}
        /\ ToRemove' \subseteq reBuf'
    BY <1>1 DEF CountersInv
  <1> QED
    BY <1>1, <1>2, <1>4, <1>5 DEF CountersInv

\* Nothing is counted, and nothing is anywhere.
LEMMA CountersEmpty ==
    ASSUME total' = {}, processed' = {}, remove' = {}, removed' = {},
           Pipeline' = {}, ToRemove' = {}
    PROVE  CountersInv' /\ Wanted' = {}
  <1>1. Wanted' = {} /\ Answered' = {}
    BY DEF Wanted, Answered
  <1>2. total' \cap remove' = {} /\ processed' \cap removed' = {}
    OBVIOUS
  <1>3. Visible(Wanted \cup ToRemove)'
    BY <1>1 DEF Visible
  <1> QED
    BY <1>1, <1>2, <1>3 DEF CountersInv

-----------------------------------------------------------------------------
(* The calm: a device is removed, or scanned again, only while it is Idle. *)

\* A device with work is available, and nothing is about to request a scan.
LEMMA BusyDevice ==
    ASSUME TypeOK, CalmInv,
           \/ scanPc # "wait" \/ queue > 0 \/ Pipeline # {}
           \/ state \notin Resting
    PROVE  available /\ main = "idle"
  BY DEF TypeOK, ScansOK, CalmInv, ParkedInv

\* A device that a reset may find has nothing to do, and is not in a walk.
LEMMA RestingDevice ==
    ASSUME TypeOK, CalmInv, ~available \/ main # "idle" \/ Settled
    PROVE  /\ Pipeline = {} /\ queue = 0 /\ scanPc = "wait"
           /\ hand = NoItem /\ ToRemove = {}
           /\ state \in Resting /\ reply # "done"
  <1>1. Pipeline = {} /\ queue = 0 /\ state \in Resting
    BY DEF CalmInv, ParkedInv, DoneInv, Settled, Resting
  <1>2. scanPc = "wait" /\ hand = NoItem
    BY <1>1 DEF TypeOK, ScansOK, ThreadsOK
  <1>3. reply # "done"
    BY <1>1 DEF CalmInv, DoneInv, Resting
  <1> QED
    BY <1>1, <1>2, <1>3 DEF ToRemove, NoItem

\* No reset is under way in a walk.
LEMMA WalkingDevice ==
    ASSUME TypeOK, CalmInv, scanPc = "walk"
    PROVE  /\ available /\ main = "idle" /\ zeroed = {}
           /\ state = "Scanning" /\ reply # "done"
  <1>1. available /\ main = "idle"
    BY BusyDevice
  <1>2. zeroed = {}
    BY <1>1 DEF TypeOK, ThreadsOK, CalmInv, ParkedInv
  <1> QED
    BY <1>1, <1>2 DEF CalmInv, DoneInv

\* What a step has to leave alone that neither counts nor changes the state.
LEMMA CalmStays ==
    ASSUME TypeOK, CalmInv, FlowInv', Pipeline' \subseteq Pipeline,
           UNCHANGED <<state, available, total, processed, remove, removed,
                       main, zeroed, walk, scanNo>>,
           ToRemove' = ToRemove, ToRemove = {} \/ reBuf' = reBuf,
           \/ queue' = queue /\ (scanPc' = "wait" => scanPc = "wait")
           \/ queue' = queue - 1 /\ scanPc # "wait",
           scanPc' = "walk" => scanPc = "walk",
           scanPc' = "done" => scanPc = "done" \/ AllDone,
           reply' = "done" => reply = "done" \/ AllDone
    PROVE  CalmInv'
  <1>1. CountersInv' /\ Wanted' = Wanted /\ Answered' = Answered
    BY CountersStay DEF CalmInv
  <1>2. queue \in Nat /\ (queue' = queue \/ (available /\ main = "idle"))
    BY BusyDevice DEF TypeOK, ScansOK
  <1>3. ParkedInv'
    BY <1>1, <1>2 DEF CalmInv, ParkedInv, Requesting
  <1>4. AllDone => Wanted \subseteq Answered /\ state = "Parsing"
    BY CountsBalance DEF CalmInv, AllDone
  <1>5. queue' <= 1 /\ (scanPc' = "wait" /\ queue' = 1 => scanPc = "wait" /\ queue = 1)
    BY DEF TypeOK, ScansOK, CalmInv, DoneInv
  <1>6. DoneInv'
    BY <1>1, <1>4, <1>5 DEF CalmInv, DoneInv
  <1>7. scanPc' = "walk" => state' = "Scanning"
    BY DEF CalmInv
  <1> QED
    BY <1>1, <1>3, <1>6, <1>7 DEF CalmInv

\* A step of a walk.
LEMMA CalmWalks ==
    ASSUME TypeOK, CalmInv, FlowInv', CountersInv', scanPc = "walk",
           UNCHANGED <<state, available, main, zeroed, queue, scanPc, reply>>
    PROVE  CalmInv'
  <1>1. /\ available /\ main = "idle" /\ zeroed = {}
        /\ state = "Scanning" /\ reply # "done"
    BY WalkingDevice
  <1>2. ParkedInv'
    BY <1>1 DEF ParkedInv, Requesting
  <1>3. DoneInv'
    BY <1>1 DEF CalmInv, DoneInv, Resting
  <1> QED
    BY <1>1, <1>2, <1>3 DEF CalmInv

\* A step of a device that has nothing to do, which gives it nothing to do.
LEMMA CalmRests ==
    ASSUME TypeOK, CalmInv, FlowInv', CountersInv',
           ~available \/ main # "idle" \/ Settled,
           Pipeline' = {}, state' \in Resting,
           UNCHANGED <<queue, scanPc>>, reply' # "done",
           Requesting' => available', ~available' => Wanted' = {},
           main' \in {"removed", "list"} \/ zeroed' \cap {"scan", "reply"} # {}
               => ~available'
    PROVE  CalmInv'
  <1>1. queue = 0 /\ scanPc = "wait"
    BY RestingDevice
  <1>2. ParkedInv'
    BY <1>1 DEF ParkedInv
  <1>3. DoneInv'
    BY <1>1 DEF DoneInv
  <1> QED
    BY <1>1, <1>2, <1>3 DEF CalmInv

\* The first half of a reset,
LEMMA CalmZeroes ==
    ASSUME TypeOK, CalmInv, FlowInv', Pipeline' \subseteq Pipeline,
           ~available \/ main # "idle" \/ Settled, NEW t, ZeroCounters(t),
           UNCHANGED <<state, queue, scanPc, hand, reply>>,
           Requesting' => available',
           main' \in {"removed", "list"} \/ zeroed' \cap {"scan", "reply"} # {}
               => ~available'
    PROVE  CalmInv'
  <1>1. /\ Pipeline = {} /\ ToRemove = {} /\ reply # "done"
        /\ state \in Resting
    BY RestingDevice
  <1>2. ToRemove' = {}
    BY <1>1 DEF ToRemove
  <1>3. CountersInv' /\ Wanted' = {}
    BY <1>1, <1>2, CountersEmpty DEF ZeroCounters
  <1> QED
    BY <1>1, <1>3, CalmRests DEF Resting

\* ... and the second.
LEMMA CalmClears ==
    ASSUME TypeOK, CalmInv, FlowInv', Pipeline' \subseteq Pipeline,
           ~available \/ main # "idle", NEW t, ClearBuffers(t),
           UNCHANGED <<available, counters, queue, scanPc, hand, walk, scanNo>>,
           state' = state \/ state' = "Inactive",
           reply' = reply \/ reply' = "idle", Requesting' => Requesting,
           main' \in {"removed", "list"} => main' = main
    PROVE  CalmInv'
  <1>1. /\ Pipeline = {} /\ ToRemove = {} /\ reply # "done"
        /\ state \in Resting
    BY RestingDevice
  <1>2. ToRemove' = {}
    BY <1>1 DEF ToRemove
  <1>3. CountersInv' /\ Wanted' = Wanted
    BY <1>1, <1>2, CountersStay DEF CalmInv, counters
  <1>4. ~available' => Wanted' = {}
    BY <1>3 DEF CalmInv, ParkedInv
  <1>5. /\ main' \in {"removed", "list"} \/ zeroed' \cap {"scan", "reply"} # {}
               => ~available'
        /\ Requesting' => available'
    BY DEF CalmInv, ParkedInv, ClearBuffers
  <1>6. state' \in Resting /\ reply' # "done" /\ Pipeline' = {}
    BY <1>1 DEF Resting
  <1> QED
    BY <1>3, <1>4, <1>5, <1>6, CalmRests

\* A scan begins.
LEMMA CalmBegins ==
    ASSUME TypeOK, CalmInv, BeginScan
    PROVE  CalmInv'
  <1>1. queue = 1 /\ state \in Resting /\ available /\ main = "idle"
    BY BusyDevice DEF BeginScan, CalmInv, DoneInv, TypeOK, ScansOK
  <1>2. hand = NoItem /\ ToRemove = {} /\ ToRemove' = {}
    BY DEF BeginScan, TypeOK, ThreadsOK, ToRemove, NoItem
  <1>3. FlowInv' /\ Pipeline' = Pipeline
    BY FlowBegins DEF CalmInv
  <1>4. UNCHANGED counters /\ Wanted' = Wanted /\ Answered' = Answered
    BY DEF BeginScan, counters, Wanted, Answered
  <1> DEFINE S == Wanted
  <1>5. S \in SUBSET Item /\ Visible(S)
    BY DEF TypeOK, CalmInv, CountersInv, Wanted, Visible
  <1> HIDE DEF S
  <1>6. /\ \A j \in S : j[1] <= scanNo'
        /\ \A d \in Classes : walk'[d] \cap S = {}
    BY <1>5, WalkBegins
  <1>7. Visible(Wanted \cup ToRemove)'
    BY <1>2, <1>4, <1>6 DEF S, Visible, Classes
  <1>8. total' \cap remove' = {} /\ processed' \cap removed' = {}
    BY <1>4 DEF CalmInv, CountersInv, counters
  <1>9. CountersInv'
    BY <1>2, <1>3, <1>4, <1>7, <1>8 DEF CalmInv, CountersInv
  <1>10. ParkedInv'
    BY <1>1 DEF BeginScan, resets, CalmInv, ParkedInv, Requesting
  <1>11. DoneInv'
    BY <1>1 DEF BeginScan, CalmInv, DoneInv, Resting
  <1>12. state' = "Scanning"
    BY DEF BeginScan
  <1> QED
    BY <1>3, <1>9, <1>10, <1>11, <1>12 DEF CalmInv

\* An item is visited.
LEMMA CalmVisits ==
    ASSUME TypeOK, CalmInv, NEW i \in Item, FindItem(i) \/ RequestDeleteItem(i)
    PROVE  CalmInv'
  <1> USE DEF FindItem, RequestDeleteItem, Walking, device, scanner, resets
  <1>1. PICK c \in Classes : i \in walk[c]
    BY DEF Found, Classes
  <1>2. /\ Visited(i) /\ scanPc = "walk" /\ hand = NoItem
        /\ UNCHANGED <<state, available, main, zeroed, queue, scanPc, scanNo, reply>>
        /\ UNCHANGED <<processed, removed, remove>>
    BY DEF counters
  <1>3. ToRemove = {} /\ i \notin Wanted /\ i \notin Pipeline
    BY <1>1, <1>2 DEF CalmInv, CountersInv, Visible, ToRemove, NoItem
  <1>4. \/ total' = total \cup {i} /\ ToRemove' = {}
        \/ total' = total /\ ToRemove' = {i} /\ i \in reBuf'
    BY DEF ToRemove, counters, Found, Classes
  <1> HIDE DEF FindItem, RequestDeleteItem, Walking, device, scanner, resets
  <1>5. FlowInv' /\ Pipeline' = Pipeline \cup {i}
    BY FlowVisits DEF CalmInv
  <1>6. /\ Wanted' \cup ToRemove' = Wanted \cup {i}
        /\ Wanted' \cap ToRemove' = {} /\ ToRemove' \subseteq reBuf'
        /\ Answered' = Answered
    BY <1>2, <1>3, <1>4 DEF Wanted, Answered
  <1> DEFINE S == Wanted
             T == Wanted' \cup ToRemove'
  <1>7. WalkOK /\ Visible(S) /\ UNCHANGED <<scanNo, scanPc>>
    BY <1>2 DEF CalmInv, FlowInv, CountersInv, Visible
  <1>8. T \subseteq S \cup {i}
    BY <1>6
  <1> HIDE DEF S, T
  <1>9. /\ \A j \in T : j[1] <= scanNo'
        /\ \A d \in Classes : walk'[d] \cap T = {}
    BY <1>1, <1>2, <1>7, <1>8, WalkAdvances
  <1>10. Visible(Wanted \cup ToRemove)'
    BY <1>9 DEF T, Visible, Classes
  <1>11. total' \cap remove' = {} /\ processed' \cap removed' = {}
    BY <1>2, <1>3, <1>4 DEF CalmInv, CountersInv, Wanted
  <1>12. /\ Answered' \subseteq Wanted' /\ Answered' \cap Pipeline' = {}
         /\ Pipeline' \subseteq Wanted' \cup ToRemove'
    BY <1>2, <1>3, <1>4, <1>5, <1>6 DEF CalmInv, CountersInv, Wanted, Answered
  <1>13. CountersInv'
    BY <1>6, <1>10, <1>11, <1>12 DEF CountersInv
  <1> QED
    BY <1>2, <1>5, <1>13, CalmWalks

\* The item in the scan thread's hand is counted as processed,
LEMMA CalmSkips ==
    ASSUME TypeOK, CalmInv, SkipCached
    PROVE  CalmInv'
  <1> USE DEF SkipCached, device, scanner, buffers, resets, parser
  <1>1. FlowInv' /\ Pipeline' = Pipeline \ InHand
    BY FlowLetsGo DEF CalmInv
  <1>2. /\ InHand = hand.items /\ InHand \in SUBSET Pipeline
        /\ ToRemove = {} /\ ToRemove' = {}
    BY DEF InHand, Pipeline, ToRemove, Found, Classes, NoItem
  <1>3. CountersInv'
    BY <1>1, <1>2, CountersAnswer DEF CalmInv
  <1>4. scanPc = "walk"
    BY DEF TypeOK, ThreadsOK, NoItem
  <1> QED
    BY <1>1, <1>3, <1>4, CalmWalks

\* ... or as to be deleted, or as the dirty flag says, or handed on.
LEMMA CalmCountsRemove ==
    ASSUME TypeOK, CalmInv, NEW i \in Item, CountRemove(i)
    PROVE  CalmInv'
  <1> USE DEF CountRemove, FlushFull, device, buffers, resets, parser
  <1>1. ToRemove = {i} /\ ToRemove' = {} /\ InHand = {}
    BY DEF ToRemove, InHand, Found, Classes, NoItem
  <1>2. FlowInv' /\ Pipeline' = Pipeline
    BY <1>1, FlowLetsGo DEF CalmInv
  <1>3. /\ Wanted' = Wanted \cup {i} /\ Answered' = Answered
        /\ i \notin Wanted
        /\ UNCHANGED <<total, processed, removed>> /\ remove' = remove \cup {i}
    BY <1>1 DEF Wanted, Answered, CalmInv, CountersInv
  <1>4. Visible(Wanted \cup ToRemove)'
    BY <1>1, <1>3 DEF CalmInv, CountersInv, Visible
  <1>5. total' \cap remove' = {} /\ processed' \cap removed' = {}
    BY <1>3 DEF CalmInv, CountersInv, Wanted
  <1>6. CountersInv'
    BY <1>1, <1>2, <1>3, <1>4, <1>5 DEF CalmInv, CountersInv
  <1>7. scanPc = "walk"
    BY DEF TypeOK, ThreadsOK, NoItem
  <1> QED
    BY <1>2, <1>6, <1>7, CalmWalks

LEMMA CalmHandsOn ==
    ASSUME TypeOK, CalmInv, QueueForParser \/ UnflagDirty \/ CountDirty
    PROVE  CalmInv'
  <1> USE DEF QueueForParser, UnflagDirty, CountDirty, FlushFull, device,
              scanner, counters, resets
  <1>1. FlowInv' /\ Pipeline' \subseteq Pipeline
    BY FlowHandsOn, FlowLetsGo DEF CalmInv
  <1>2. hand \in Hand /\ scanPc = "walk"
    BY DEF TypeOK, ThreadsOK, NoItem
  <1>3. ToRemove = {} /\ ToRemove' = {}
    BY <1>2 DEF ToRemove, NoItem, Hand
  <1> QED
    BY <1>1, <1>2, <1>3, CalmStays

\* The walk ends, or is broken off.
LEMMA CalmEnds ==
    ASSUME TypeOK, CalmInv, EndWalk
    PROVE  CalmInv'
  <1>1. FlowInv' /\ Pipeline' = Pipeline
    BY FlowEnds DEF CalmInv
  <1>2. /\ state' = "Parsing" /\ scanPc' = "notify" /\ scanPc = "walk"
        /\ UNCHANGED <<available, main, counters, walk, scanNo, hand, buffers>>
        /\ UNCHANGED <<queue, reply, zeroed>>
    BY DEF EndWalk, Walking, resets
  <1>3. CountersInv'
    BY <1>1, <1>2, CountersStay DEF CalmInv, ToRemove, counters, buffers
  <1>4. available /\ main = "idle" /\ zeroed = {} /\ reply # "done"
    BY <1>2, WalkingDevice
  <1>5. ParkedInv'
    BY <1>2, <1>4 DEF ParkedInv, Requesting
  <1>6. DoneInv'
    BY <1>2, <1>4 DEF CalmInv, DoneInv, Resting
  <1> QED
    BY <1>1, <1>2, <1>3, <1>5, <1>6 DEF CalmInv

LEMMA CalmThrows ==
    ASSUME TypeOK, CalmInv, WalkThrows
    PROVE  CalmInv'
  <1> USE DEF WalkThrows, Walking, device, counters, buffers, resets
  <1>1. FlowInv' /\ Pipeline' = Pipeline
    BY FlowThrows DEF CalmInv
  <1>2. \A d \in Classes : walk'[d] = IF d = "gone"
                                      THEN walk["gone"] \cup walk["hit"] ELSE {}
    BY DEF NoWalk
  <1>3. UNCHANGED <<counters, hand, reBuf, scanNo>>
    OBVIOUS
  <1>4. Wanted' = Wanted /\ Answered' = Answered /\ ToRemove' = ToRemove
    BY <1>3 DEF Wanted, Answered, ToRemove
  <1>5. Visible(Wanted \cup ToRemove)'
    BY <1>2, <1>3, <1>4 DEF CalmInv, CountersInv, Visible, Classes
  <1>6. CountersInv'
    BY <1>1, <1>3, <1>4, <1>5 DEF CalmInv, CountersInv
  <1> QED
    BY <1>1, <1>6, CalmWalks

\* An answer is counted: its items are not on their way any more.
LEMMA CalmCounts ==
    ASSUME TypeOK, CalmInv, NEW m \in flight, CountReply(m)
    PROVE  CalmInv'
  <1> USE DEF CountReply, device, scanner, buffers, resets
  <1>1. FlowInv' /\ Pipeline' = Pipeline \ m.items
    BY FlowCountReply DEF CalmInv
  <1>2. m.items \in SUBSET Pipeline /\ m.items \cap reBuf = {}
    BY DEF Pipeline, InFlight, CalmInv, FlowInv, OperationsDisjoint
  <1>3. ToRemove' = ToRemove /\ m.items \cap ToRemove = {}
    BY <1>2 DEF ToRemove, CalmInv, CountersInv
  <1>4. /\ CountersInv'
        /\ Wanted' = Wanted /\ Answered' = Answered \cup m.items
    BY <1>1, <1>2, <1>3, CountersAnswer DEF CalmInv
  <1>5. ParkedInv'
    BY <1>1, <1>4 DEF CalmInv, ParkedInv, Requesting
  <1>6. DoneInv'
    BY <1>1, <1>4 DEF CalmInv, DoneInv
  <1> QED
    BY <1>1, <1>4, <1>5, <1>6 DEF CalmInv

\* A scan that was found done has no operation left, and is reported as done.
LEMMA CalmFinishes ==
    ASSUME TypeOK, CalmInv, CleanupInv, ScanFinishes \/ ReplyFinishes
    PROVE  CalmInv' /\ state = "Parsing" /\ Pipeline = {} /\ Pipeline' = {}
  <1> USE DEF ScanFinishes, ReplyFinishes, FinishScan, scanner, resets
  <1>1. /\ state' = "Idle"
        /\ UNCHANGED <<available, counters, main, zeroed, queue, hand, reBuf,
                       walk, scanNo>>
    BY DEF buffers
  <1>2. state = "Parsing" /\ Wanted \subseteq Answered
    BY DEF CalmInv, DoneInv
  <1>3. available /\ main = "idle"
    BY <1>2, BusyDevice DEF Resting
  <1>4. hand = NoItem /\ ToRemove = {} /\ ToRemove' = {}
    BY <1>1, <1>2 DEF TypeOK, ThreadsOK, CalmInv, ToRemove, NoItem
  <1>5. Pipeline = {}
    BY <1>2, <1>4 DEF CalmInv, CountersInv
  <1>6. FlowInv' /\ Pipeline' \subseteq Pipeline
    BY FlowStays DEF CalmInv, buffers, parser
  <1>7. CountersInv' /\ Wanted' = Wanted /\ Answered' = Answered
    BY <1>1, <1>4, <1>6, CountersStay DEF CalmInv, counters
  <1>8. ParkedInv'
    BY <1>1, <1>3 DEF CalmInv, ParkedInv, Requesting
  <1>9. scanPc' # "done" /\ reply' # "done" /\ scanPc' # "walk"
    BY <1>2 DEF CleanupInv, CalmInv
  <1>10. DoneInv'
    BY <1>1, <1>5, <1>6, <1>9 DEF CalmInv, DoneInv, Resting
  <1> QED
    BY <1>2, <1>5, <1>6, <1>7, <1>8, <1>9, <1>10 DEF CalmInv

LEMMA InitCalmInv == Init => CalmInv
  <1> SUFFICES ASSUME Init PROVE CalmInv
    OBVIOUS
  <1>1. Pipeline = {} /\ Wanted = {} /\ Answered = {} /\ ToRemove = {}
    BY DEF Init, NoBatch, Pipeline, InFlight, InHand, Wanted, Answered,
           ToRemove, NoItem, Found, Classes
  <1>2. CountersInv
    BY <1>1 DEF Init, CountersInv, Visible
  <1>3. ParkedInv /\ DoneInv /\ scanPc # "walk"
    BY <1>1 DEF Init, ParkedInv, DoneInv, Requesting, Resting
  <1> QED
    BY <1>2, <1>3, InitFlowInv DEF CalmInv

LEMMA CalmScanThread ==
    ASSUME TypeOK, CalmInv, FlowInv', CleanupInv, ScanThread
    PROVE  CalmInv'
  <1> USE DEF device, counters, scanner, buffers, resets, parser
  <1>0. FlowInv
    BY DEF CalmInv
  <1>1. CASE BeginScan \/ EndWalk
    BY <1>1, CalmBegins, CalmEnds
  <1>2. CASE WalkStep
    BY <1>2, CalmVisits, CalmCountsRemove, CalmSkips, CalmHandsOn DEF WalkStep
  <1>3. CASE ScanSeesAvailable
    <2>1. /\ Pipeline' \subseteq Pipeline
          /\ (UNCHANGED queue /\ scanPc' = "check") \/ queue' = queue - 1
          /\ scanPc # "wait" /\ scanPc' \notin {"walk", "done"}
      BY <1>0, <1>3, FlowStays
      DEF ScanSeesAvailable, ScanLists, ScanReturns, PopRequest
    <2> QED
      BY <1>3, <2>1, CalmStays DEF ScanSeesAvailable, ToRemove
  <1>4. CASE ScanZeroes
    BY <1>4, BusyDevice DEF ScanZeroes, ScanLists
  <1>5. CASE ScanClears
    BY <1>5, BusyDevice DEF ScanClears, TypeOK, ThreadsOK, CalmInv, ParkedInv
  <1>6. CASE ScanChecksDone \/ ScanChecksNothing \/ ScanChecksFlush
    <2>1. /\ Pipeline' \subseteq Pipeline
          /\ \/ UNCHANGED queue /\ scanPc' # "wait"
             \/ queue' = queue - 1 /\ scanPc' = "wait"
          /\ scanPc # "wait" /\ scanPc' # "walk" /\ (scanPc' = "done" => AllDone)
      BY <1>0, <1>6, FlowStays
      DEF ScanChecksDone, ScanChecksNothing, ScanChecksFlush, ScanChecks,
          PopRequest
    <2> QED
      BY <1>6, <2>1, CalmStays
      DEF ScanChecksDone, ScanChecksNothing, ScanChecksFlush, ToRemove
  <1>7. CASE ScanFinishes
    BY <1>7, CalmFinishes
  <1>8. CASE FlushTakesBuffer
    <2>1. hand = NoItem /\ ToRemove = {} /\ ToRemove' = {}
      BY <1>8 DEF FlushTakesBuffer, TypeOK, ThreadsOK, ToRemove, NoItem
    <2> QED
      BY <1>0, <1>8, <2>1, FlowTakesBuffer, CalmStays DEF FlushTakesBuffer
  <1>9. CASE FlushFindsNothing \/ SendFlush
    <2>1. /\ UNCHANGED <<state, available, counters, main, walk, scanNo, hand,
                         reBuf, zeroed, reply>>
          /\ \/ UNCHANGED <<scanPc, queue>>
             \/ scanPc = "check" /\ scanPc' = "wait" /\ queue' = queue - 1
      BY <1>9 DEF FlushFindsNothing, SendFlush, FlushReturns, PopRequest
    <2>2. Pipeline' \subseteq Pipeline
      BY <1>0, <1>9, <2>1, FlowStays, FlowSends
      DEF FlushFindsNothing, SendFlush
    <2> QED
      BY <2>1, <2>2, CalmStays DEF ToRemove
  <1> QED
    BY <1>1, <1>2, <1>3, <1>4, <1>5, <1>6, <1>7, <1>8, <1>9 DEF ScanThread

LEMMA CalmParserThreads ==
    ASSUME TypeOK, CalmInv, PutInv, FlowInv', ParserThreads
    PROVE  CalmInv'
  <1>1. Pipeline' \subseteq Pipeline
    BY FlowOthers DEF CalmInv
  <1>2. /\ UNCHANGED <<state, available, total, processed, remove, removed,
                       main, zeroed, walk, scanNo, hand, reBuf, queue, scanPc>>
        /\ UNCHANGED reply
    BY DEF ParserThreads, PutMeta, MergePut, CountPut, FlushPut, FlushIf,
           SendPut, device, counters, scanner, buffers, resets
  <1> QED
    BY <1>1, <1>2, CalmStays DEF ToRemove

LEMMA CalmReplyThread ==
    ASSUME TypeOK, CalmInv, PutInv, FlowInv', CleanupInv, ReplyThread
    PROVE  CalmInv'
  <1> USE DEF device, counters, scanner, buffers, resets
  <1>0. Pipeline' \subseteq Pipeline
    BY FlowOthers DEF CalmInv
  <1>1. ASSUME NEW m \in flight, CountReply(m) PROVE CalmInv'
    BY <1>1, CalmCounts
  <1>2. CASE \/ ReplyChecksDone \/ ReplySeesAvailable \/ ReplyChecksNothing
             \/ ReplyChecksFlush \/ ReplyFlushes
    BY <1>0, <1>2, CalmStays
    DEF ReplyChecksDone, ReplySeesAvailable, ReplyChecksNothing,
        ReplyChecksFlush, ReplyFlushes, ToRemove
  <1>3. CASE ReplyFinishes
    BY <1>3, CalmFinishes
  <1>4. CASE ReplyZeroes
    BY <1>0, <1>4, CalmZeroes
    DEF ReplyZeroes, Requesting, CalmInv, ParkedInv
  <1>5. CASE ReplyClears
    BY <1>0, <1>5, CalmClears DEF ReplyClears, Requesting, CalmInv, ParkedInv
  <1> QED
    BY <1>1, <1>2, <1>3, <1>4, <1>5 DEF ReplyThread

LEMMA CalmMainThread ==
    ASSUME TypeOK, CalmInv, PutInv, FlowInv', MainThread
    PROVE  CalmInv'
  <1> USE DEF device, scanner, buffers, resets
  <1>0. Pipeline' \subseteq Pipeline
    BY FlowOthers DEF CalmInv
  <1>1. CASE ScanResets
    <2>1. ZeroCounters("main") /\ zeroed' = zeroed \cup {"main"}
      BY <1>1 DEF ScanResets, ZeroCounters
    <2> QED
      BY <1>0, <1>1, <2>1, CalmZeroes
      DEF ScanResets, Requesting, CalmInv, ParkedInv
  <1>2. CASE MainClears
    BY <1>0, <1>2, CalmClears DEF MainClears, Requesting, TypeOK, ThreadsOK
  <1>3. CASE PushRequest
    <2>1. /\ main # "idle" /\ available /\ main' = "idle" /\ scanPc' = "wait"
          /\ queue' = queue + 1
          /\ UNCHANGED <<state, available, zeroed, reply, counters, hand, reBuf,
                         walk, scanNo>>
      BY <1>3 DEF PushRequest, ScanFree, CalmInv, ParkedInv, Requesting
    <2>2. /\ Pipeline = {} /\ queue = 0 /\ state \in Resting
          /\ ToRemove' = ToRemove /\ reply # "done"
      BY <2>1, RestingDevice DEF ToRemove
    <2>3. CountersInv' /\ Wanted' = Wanted
      BY <1>0, <2>1, <2>2, CountersStay DEF CalmInv, counters
    <2>4. ParkedInv'
      BY <2>1 DEF CalmInv, ParkedInv, Requesting
    <2>5. DoneInv'
      BY <1>0, <2>1, <2>2 DEF DoneInv
    <2> QED
      BY <2>1, <2>3, <2>4, <2>5 DEF CalmInv
  <1> QED
    BY <1>1, <1>2, <1>3 DEF MainThread

LEMMA CalmEvents ==
    ASSUME TypeOK, CalmInv, PutInv, FlowInv',
           \/ Errors \/ (Settled /\ Events) \/ DeviceAdded \/ PushDeviceList
           \/ UNCHANGED vars
    PROVE  CalmInv'
  <1> USE DEF device, scanner, buffers, resets
  <1>0. Pipeline' \subseteq Pipeline
    BY FlowOthers DEF CalmInv
  <1>1. CASE Errors
    BY <1>0, <1>1, CalmThrows, CalmStays
    DEF Errors, ParserThrows, counters, ToRemove
  <1>2. CASE DeviceAddedAgain
    BY <1>0, <1>2, CalmStays DEF DeviceAddedAgain, counters, ToRemove
  <1>3. CASE Settled /\ (DeviceRemoved \/ RequestMediaScan)
    <2>1. DeviceRemoved => zeroed \cap {"scan", "reply"} = {}
      BY DEF DeviceRemoved, LockFree
    <2>2. zeroed' = zeroed \cup {"main"} /\ ZeroCounters("main")
      BY <1>3 DEF DeviceRemoved, RequestMediaScan, ZeroCounters
    <2> QED
      BY <1>0, <1>3, <2>1, <2>2, CalmZeroes
      DEF DeviceRemoved, RequestMediaScan, Requesting, CalmInv, ParkedInv
  <1>4. CASE DeviceAdded
    <2>1. /\ Pipeline = {} /\ ToRemove = {} /\ reply # "done" /\ Wanted = {}
          /\ queue = 0 /\ scanPc = "wait"
      BY <1>4, RestingDevice DEF DeviceAdded, CalmInv, ParkedInv
    <2>2. /\ available' /\ main' = "detected" /\ state' = "Idle"
          /\ zeroed' \cap {"scan", "reply"} = {}
          /\ UNCHANGED <<queue, scanPc, reply, counters, hand, reBuf, walk,
                         scanNo>>
      BY <1>4 DEF DeviceAdded, LockFree
    <2>3. CountersInv'
      BY <1>0, <2>1, <2>2, CountersStay DEF CalmInv, counters, ToRemove
    <2> QED
      BY <1>0, <1>4, <2>1, <2>2, <2>3, CalmRests
      DEF DeviceAdded, Requesting, Resting
  <1>5. CASE PushDeviceList
    BY <1>0, <1>5, CalmZeroes
    DEF PushDeviceList, Requesting, CalmInv, ParkedInv
  <1>6. CASE UNCHANGED vars
    BY <1>0, <1>6, CalmStays DEF vars, counters, ToRemove
  <1> QED
    BY <1>1, <1>2, <1>3, <1>4, <1>5, <1>6 DEF Events

LEMMA StepCalmInv ==
    ASSUME TypeOK, CalmInv, PutInv, CleanupInv, [CalmNext]_vars
    PROVE  CalmInv'
  <1>1. FlowInv'
    BY CalmNextIsNext, StepFlowInv DEF CalmInv
  <1> QED
    BY <1>1, CalmScanThread, CalmParserThreads, CalmReplyThread,
       CalmMainThread, CalmEvents
    DEF CalmNext, Threads

\* What the proofs about CalmSpec rest on.
CalmProofInv == TypeOK /\ PutInv /\ CleanupInv /\ CalmInv

LEMMA CalmInduction == CalmSpec => []CalmProofInv
  <1>1. Init => CalmProofInv
    BY InitTypeOK, InitPutInv, InitCleanupInv, InitCalmInv DEF CalmProofInv
  <1>2. CalmProofInv /\ [CalmNext]_vars => CalmProofInv'
    BY CalmNextIsNext, StepTypeOK, StepPutInv, StepCleanupInv, StepCalmInv
    DEF CalmProofInv
  <1> QED
    BY <1>1, <1>2, PTL DEF CalmSpec

(* A device that reports Idle ("Scan has been completed") has no item left *)
(* in the parser, in a buffer or on its way to the database, if the device *)
(* is only removed or scanned again while it is Idle: processingDone       *)
(* compares two pairs of numbers, which the unflagDirty and                *)
(* flushDeleteItems replies mix up, and it takes the invariant that        *)
(* answered operations were wanted ones for their sums to tell the truth.  *)
THEOREM IdleIsComplete == CalmSpec => []IdleMeansComplete
  <1>1. CalmProofInv => IdleMeansComplete
    BY DEF CalmProofInv, CalmInv, DoneInv, Resting, IdleMeansComplete
  <1> QED
    BY <1>1, CalmInduction, PTL

\* Cleanups are activated where a scan is found done.
LEMMA CleanupsFinish ==
    ASSUME [CalmNext]_vars, cleanups' # cleanups
    PROVE  ScanFinishes \/ ReplyFinishes
  <1>1. ~UNCHANGED vars
    BY DEF vars
  <1>2. ScanThread => ScanFinishes
    BY DEF ScanThread, BeginScan, WalkStep, FindItem, RequestDeleteItem,
           CountRemove, SkipCached, QueueForParser, UnflagDirty, CountDirty,
           EndWalk, ScanSeesAvailable, ScanZeroes, ScanClears, ScanChecksDone,
           ScanChecksNothing, ScanChecksFlush, FlushTakesBuffer,
           FlushFindsNothing, SendFlush
  <1>3. ~ParserThreads /\ ~MainThread /\ ~Errors
    BY DEF ParserThreads, SendPut, PutMeta, CountPut, FlushPut, FlushIf,
           MergePut, MainThread, ScanResets, MainClears, PushRequest, Errors,
           WalkThrows, ParserThrows
  <1>4. ReplyThread => ReplyFinishes
    BY DEF ReplyThread, CountReply, ReplyChecksDone, ReplySeesAvailable,
           ReplyZeroes, ReplyClears, ReplyChecksNothing, ReplyChecksFlush,
           ReplyFlushes
  <1>5. ~Events /\ ~DeviceAdded /\ ~PushDeviceList
    BY DEF Events, DeviceAddedAgain, DeviceRemoved, RequestMediaScan,
           DeviceAdded, PushDeviceList
  <1> QED
    BY <1>1, <1>2, <1>3, <1>4, <1>5 DEF CalmNext, Threads

(* The cleanup task, which deletes the rows that no walk has confirmed, is  *)
(* activated by processingDone only when every operation of the scan has   *)
(* been answered - again if the device is left alone until it is Idle.     *)
THEOREM CleanupIsReal == CalmSpec => CompletionIsReal
  <1>1. CalmProofInv /\ [CalmNext]_vars => [cleanups' # cleanups => Pipeline' = {}]_vars
    BY CleanupsFinish, CalmFinishes DEF CalmProofInv
  <1> QED
    BY <1>1, CalmInduction, PTL DEF CalmSpec, CompletionIsReal

-----------------------------------------------------------------------------
(* Nothing that was counted is dropped, but for what crosses a reset.      *)

\* A step that neither counts nor drops anything.
LEMMA LossStays ==
    ASSUME ResetInv, UNCHANGED <<total, processed, remove, removed, crossed>>,
           zeroed' = zeroed, Pipeline \subseteq Pipeline',
           hand'.step = "remove" => UNCHANGED <<hand, reBuf>>
    PROVE  ResetInv'
  BY DEF ResetInv, NoCountedItemLost

\* The two halves of a reset.
LEMMA LossZeroes ==
    ASSUME ResetInv, NEW t, ZeroCounters(t), UNCHANGED <<crossed, hand, reBuf>>
    PROVE  ResetInv'
  BY DEF ResetInv, NoCountedItemLost, ZeroCounters

LEMMA LossClears ==
    ASSUME ResetInv, NEW t, t \in zeroed, ClearBuffers(t),
           UNCHANGED <<total, remove, hand>>
    PROVE  ResetInv'
  BY DEF ResetInv, NoCountedItemLost, ClearBuffers

\* The places keep all they hold.
LEMMA LossStaysStill ==
    ASSUME ResetInv, UNCHANGED <<total, processed, remove, removed, resets>>,
           UNCHANGED <<hand, parseQ, buffers, batch, flight>>
    PROVE  ResetInv'
  <1>1. Pipeline' = Pipeline
    BY DEF Pipeline, InFlight, InHand, buffers
  <1> QED
    BY <1>1, LossStays DEF resets, buffers

LEMMA LossWalkStep ==
    ASSUME TypeOK, FlowInv, ResetInv, WalkStep
    PROVE  ResetInv'
  <1> USE DEF device, counters, scanner, buffers, resets
  <1>1. ASSUME NEW i \in Item, FindItem(i) PROVE ResetInv'
    <2>1. Pipeline' = Pipeline \cup {i}
      BY <1>1, FlowVisits
    <2>2. /\ total' = total \cup {i} /\ Crosses(i)
          /\ UNCHANGED <<processed, remove, removed, zeroed>>
          /\ hand'.step # "remove"
      BY <1>1 DEF FindItem, Found, Classes
    <2> QED
      BY <2>1, <2>2 DEF ResetInv, NoCountedItemLost, Crosses
  <1>2. ASSUME NEW i \in Item, RequestDeleteItem(i) PROVE ResetInv'
    <2>1. Pipeline' = Pipeline \cup {i}
      BY <1>2, FlowVisits
    <2> QED
      BY <1>2, <2>1 DEF RequestDeleteItem, ResetInv, NoCountedItemLost
  <1>3. ASSUME NEW i \in Item, CountRemove(i) PROVE ResetInv'
    <2> USE DEF CountRemove, FlushFull
    <2>1. InHand = {} /\ i \in reBuf \cup crossed
      BY <1>3 DEF InHand, Found, Classes, ResetInv
    <2>2. Pipeline' = Pipeline
      BY <1>3, <2>1, FlowLetsGo
    <2>3. i \in Pipeline' \cup crossed'
      BY <1>3, <2>1, <2>2 DEF Pipeline, Crosses
    <2> QED
      BY <1>3, <2>2, <2>3 DEF ResetInv, NoCountedItemLost, Crosses, NoItem
  <1>4. CASE SkipCached
    <2>1. Pipeline' = Pipeline \ InHand /\ InHand \subseteq hand.items
      BY <1>4, FlowLetsGo DEF InHand
    <2> QED
      BY <1>4, <2>1 DEF SkipCached, ResetInv, NoCountedItemLost, NoItem
  <1>5. CASE CountDirty
    <2>1. InHand = {}
      BY <1>5 DEF CountDirty, InHand, Found, Classes
    <2>2. Pipeline' = Pipeline
      BY <1>5, <2>1, FlowLetsGo
    <2> QED
      BY <1>5, <2>2, LossStays DEF CountDirty, FlushFull, NoItem
  <1>6. CASE QueueForParser \/ UnflagDirty
    <2>1. Pipeline' = Pipeline
      BY <1>6, FlowHandsOn
    <2>2. hand'.step # "remove"
      BY <1>6 DEF QueueForParser, UnflagDirty, NoItem, TypeOK, ThreadsOK, Hand
    <2> QED
      BY <1>6, <2>1, <2>2, LossStays DEF QueueForParser, UnflagDirty
  <1> QED
    BY <1>1, <1>2, <1>3, <1>4, <1>5, <1>6 DEF WalkStep

LEMMA LossScanThread ==
    ASSUME TypeOK, FlowInv, ResetInv, ScanThread
    PROVE  ResetInv'
  <1> USE DEF device, counters, scanner, buffers, resets, parser
  <1>1. CASE \/ BeginScan \/ EndWalk \/ ScanSeesAvailable \/ ScanChecksDone
             \/ ScanFinishes \/ ScanChecksNothing \/ ScanChecksFlush
             \/ FlushFindsNothing
    BY <1>1, LossStaysStill
    DEF BeginScan, EndWalk, ScanSeesAvailable, ScanChecksDone, ScanFinishes,
        ScanChecksNothing, ScanChecksFlush, FlushFindsNothing
  <1>2. CASE WalkStep
    BY <1>2, LossWalkStep
  <1>3. CASE ScanZeroes \/ ScanClears
    BY <1>3, LossZeroes, LossClears DEF ScanZeroes, ScanClears
  <1>4. CASE FlushTakesBuffer
    <2>1. hand' = NoItem
      BY <1>4 DEF FlushTakesBuffer, TypeOK, ThreadsOK
    <2> QED
      BY <1>4, <2>1, FlowTakesBuffer, LossStays DEF FlushTakesBuffer, NoItem
  <1>5. CASE SendFlush
    BY <1>5, FlowSends, LossStays DEF SendFlush, FlushReturns, PopRequest
  <1> QED
    BY <1>1, <1>2, <1>3, <1>4, <1>5 DEF ScanThread

LEMMA LossParserThreads ==
    ASSUME TypeOK, FlowInv, PutInv, ResetInv, ParserThreads
    PROVE  ResetInv'
  <1> USE DEF device, counters, scanner, buffers, resets, parser
  <1>1. ASSUME NEW i \in Item, PutMeta(i) PROVE ResetInv'
    BY <1>1, FlowPutMeta, LossStays DEF PutMeta
  <1>2. ASSUME NEW i \in Item, MergePut(i) PROVE ResetInv'
    BY <1>2, FlowMergePut, LossStays DEF MergePut
  <1>3. CASE CountPut
    BY <1>3, LossStaysStill DEF CountPut
  <1>4. CASE FlushPut
    <2>1. batch = NoBatch
      BY <1>4 DEF FlushPut, FlushIf, PutInv, NoItem
    <2> QED
      BY <1>4, <2>1, FlowFlushPut, LossStays DEF FlushPut, FlushIf
  <1>5. CASE SendPut
    BY <1>5, FlowSends, LossStays DEF SendPut
  <1> QED
    BY <1>1, <1>2, <1>3, <1>4, <1>5 DEF ParserThreads

LEMMA LossReplyThread ==
    ASSUME TypeOK, FlowInv, ResetInv, ReplyThread
    PROVE  ResetInv'
  <1> USE DEF device, counters, scanner, buffers, resets, parser
  <1>1. ASSUME NEW m \in flight, CountReply(m) PROVE ResetInv'
    <2>1. Pipeline' = Pipeline \ m.items
      BY <1>1, FlowCountReply
    <2>2. /\ UNCHANGED <<total, remove, crossed, zeroed, hand, reBuf>>
          /\ processed' \cup removed' = processed \cup removed \cup m.items
      BY <1>1 DEF CountReply
    <2> QED
      BY <2>1, <2>2 DEF ResetInv, NoCountedItemLost
  <1>2. CASE ReplyZeroes \/ ReplyClears
    BY <1>2, LossZeroes, LossClears DEF ReplyZeroes, ReplyClears
  <1>3. CASE \/ ReplyChecksDone \/ ReplyFinishes \/ ReplySeesAvailable
             \/ ReplyChecksNothing \/ ReplyChecksFlush \/ ReplyFlushes
    BY <1>3, LossStaysStill
    DEF ReplyChecksDone, ReplyFinishes, ReplySeesAvailable,
        ReplyChecksNothing, ReplyChecksFlush, ReplyFlushes
  <1> QED
    BY <1>1, <1>2, <1>3 DEF ReplyThread

LEMMA LossOthers ==
    ASSUME "parse" \notin Faults, TypeOK, FlowInv, ResetInv,
           \/ MainThread \/ Errors \/ Events \/ DeviceAdded \/ PushDeviceList
           \/ UNCHANGED vars
    PROVE  ResetInv'
  <1> USE DEF device, counters, scanner, buffers, resets, parser
  <1>1. CASE ScanResets \/ DeviceRemoved \/ RequestMediaScan \/ PushDeviceList
    BY <1>1, LossZeroes
    DEF ScanResets, DeviceRemoved, RequestMediaScan, PushDeviceList
  <1>2. CASE MainClears
    BY <1>2, LossClears DEF MainClears
  <1>3. CASE Errors
    BY <1>3, LossStaysStill DEF Errors, WalkThrows, ParserThrows
  <1>4. CASE PushRequest \/ DeviceAdded \/ DeviceAddedAgain \/ UNCHANGED vars
    BY <1>4, LossStaysStill
    DEF PushRequest, DeviceAdded, DeviceAddedAgain, vars
  <1> QED
    BY <1>1, <1>2, <1>3, <1>4 DEF MainThread, Events

(* As long as no extractor throws, an item that the counters hold as found *)
(* or as to be deleted is answered or still on its way, whatever happens   *)
(* to the device meanwhile and whoever flushes or resets its buffers -     *)
(* except for an item that was found, or counted as to be deleted, while a *)
(* reset was between its zeroing of the counters and its clearing of the   *)
(* buffers: that one may be counted and dropped, and is the only kind.     *)
THEOREM NothingLost ==
    ASSUME "parse" \notin Faults PROVE Spec => []NoCountedItemLost
  <1> DEFINE LossInv == TypeOK /\ PutInv /\ FlowInv /\ ResetInv
  <1>1. Init => ResetInv
    BY DEF Init, ResetInv, NoCountedItemLost, NoItem
  <1>2. Init => LossInv
    BY <1>1, InitTypeOK, InitPutInv, InitFlowInv
  <1>3. LossInv /\ [Next]_vars => LossInv'
    BY StepTypeOK, StepPutInv, StepFlowInv, LossScanThread, LossParserThreads,
       LossReplyThread, LossOthers
    DEF Next, Threads
  <1>4. LossInv => NoCountedItemLost
    BY DEF ResetInv
  <1> HIDE DEF LossInv
  <1> QED
    BY <1>2, <1>3, <1>4, PTL DEF Spec

-----------------------------------------------------------------------------
(***************************************************************************)
(* If the environment waits for Idle, ScanPipeline implements ScanPromise. *)
(* Every step is put into one of five kinds by what it does to the state   *)
(* and to the pipeline; the rest follows from the kinds.                   *)
(***************************************************************************)

Quiets    == /\ state' = state \/ {state, state'} \subseteq Resting
             /\ Pipeline' \subseteq Pipeline
Begins    == /\ state \in Resting /\ state' = "Scanning"
             /\ Pipeline' = Pipeline
Requests  == /\ state = "Scanning" /\ state' = state
             /\ Pipeline \subseteq Pipeline' /\ Pipeline' \in SUBSET Item
WalkEnds  == /\ state = "Scanning" /\ state' = "Parsing"
             /\ Pipeline' = Pipeline
Finishes  == /\ state = "Parsing" /\ state' = "Idle"
             /\ Pipeline = {} /\ Pipeline' = {}

StepKind == Quiets \/ Begins \/ Requests \/ WalkEnds \/ Finishes

LEMMA ScanThreadKinds ==
    ASSUME CalmProofInv, TypeOK', ScanThread
    PROVE  StepKind
  <1> USE DEF StepKind, CalmProofInv, device
  <1>0. TypeOK /\ FlowInv
    BY DEF CalmInv
  <1>1. CASE BeginScan
    <2>1. state \in Resting
      BY <1>1 DEF BeginScan, CalmInv, DoneInv, TypeOK, ScansOK
    <2> QED
      BY <1>0, <1>1, <2>1, FlowBegins DEF BeginScan, Begins
  <1>2. ASSUME NEW i \in Item, FindItem(i) \/ RequestDeleteItem(i)
        PROVE  StepKind
    <2>1. state = "Scanning" /\ state' = state
      BY <1>2 DEF FindItem, RequestDeleteItem, Walking, CalmInv
    <2>2. Pipeline \subseteq Pipeline' /\ Pipeline' \in SUBSET Item
      BY <1>0, <1>2, FlowVisits, PipelineType
    <2> QED
      BY <2>1, <2>2 DEF Requests
  <1>3. CASE EndWalk
    BY <1>0, <1>3, FlowEnds DEF EndWalk, Walking, CalmInv, WalkEnds
  <1>4. CASE ScanFinishes
    BY <1>4, CalmFinishes DEF ScanFinishes, FinishScan, Finishes
  <1>5. CASE ScanClears
    BY <1>5, BusyDevice DEF ScanClears, TypeOK, ThreadsOK, CalmInv, ParkedInv
  <1>6. CASE \/ ScanSeesAvailable \/ ScanZeroes \/ ScanChecksDone
             \/ ScanChecksNothing \/ ScanChecksFlush \/ FlushTakesBuffer
             \/ FlushFindsNothing \/ SendFlush \/ SkipCached \/ CountDirty
             \/ QueueForParser \/ UnflagDirty \/ \E i \in Item : CountRemove(i)
    <2>1. state' = state
      BY <1>6
      DEF ScanSeesAvailable, ScanZeroes, ScanChecksDone, ScanChecksNothing,
          ScanChecksFlush, FlushTakesBuffer, FlushFindsNothing, SendFlush,
          SkipCached, CountDirty, QueueForParser, UnflagDirty, CountRemove
    <2>2. \/ Pipeline' \subseteq Pipeline
          \/ \E i \in Item : FindItem(i) \/ RequestDeleteItem(i)
      BY <1>0, FlowScanThread
    <2> QED
      BY <1>2, <2>1, <2>2 DEF Quiets
  <1> QED
    BY <1>1, <1>2, <1>3, <1>4, <1>5, <1>6 DEF ScanThread, WalkStep

LEMMA OtherKinds ==
    ASSUME CalmProofInv,
           \/ ParserThreads \/ ReplyThread \/ MainThread \/ Errors
           \/ (Settled /\ Events) \/ DeviceAdded \/ PushDeviceList
           \/ UNCHANGED vars
    PROVE  StepKind
  <1> USE DEF StepKind, CalmProofInv, device
  <1>1. CASE ReplyFinishes
    BY <1>1, CalmFinishes DEF ReplyFinishes, FinishScan, Finishes
  <1>2. CASE ~ReplyFinishes
    <2>1. Pipeline' \subseteq Pipeline
      BY FlowOthers DEF CalmInv
    <2>2. CASE ReplyClears \/ MainClears \/ DeviceAdded
      <3>1. ~available \/ main # "idle"
        BY <2>2 DEF ReplyClears, MainClears, DeviceAdded, TypeOK, ThreadsOK,
                    CalmInv, ParkedInv
      <3>2. state \in Resting
        BY <3>1, RestingDevice
      <3> QED
        BY <2>1, <2>2, <3>2
        DEF ReplyClears, MainClears, DeviceAdded, Resting, Quiets
    <2>3. CASE ~(ReplyClears \/ MainClears \/ DeviceAdded)
      <3>1. state' = state
        BY <1>2, <2>3
        DEF ParserThreads, PutMeta, CountPut, FlushPut, FlushIf, SendPut,
            MergePut, ReplyThread, CountReply, ReplyChecksDone,
            ReplySeesAvailable, ReplyZeroes, ReplyChecksNothing,
            ReplyChecksFlush, ReplyFlushes, MainThread, ScanResets,
            PushRequest, Errors, WalkThrows, ParserThrows, Events,
            DeviceAddedAgain, DeviceRemoved, RequestMediaScan,
            PushDeviceList, vars
      <3> QED
        BY <2>1, <3>1 DEF Quiets
    <2> QED
      BY <2>2, <2>3
  <1> QED
    BY <1>1, <1>2

-----------------------------------------------------------------------------
LEMMA PromiseInit == Init => Promise!Init
  BY DEF Init, Promise!Init, Phase, Pipeline, InFlight, InHand, NoBatch,
         NoItem, Found, Classes

LEMMA PromiseStep ==
    ASSUME CalmProofInv, TypeOK', [CalmNext]_vars
    PROVE  [Promise!Next]_<<Phase, Pipeline>>
  <1> USE DEF Phase, Resting, Promise!Next, CalmProofInv
  <1>0. StepKind
    BY ScanThreadKinds, OtherKinds DEF CalmNext, Threads
  <1>1. CASE Quiets
    <2>1. CASE state \in Resting
      BY <1>1, <2>1 DEF Quiets, CalmInv, DoneInv
    <2>2. CASE state \notin Resting
      BY <1>1, <2>2 DEF Quiets, TypeOK, Promise!Answer
    <2> QED
      BY <2>1, <2>2
  <1>2. CASE Begins
    BY <1>2 DEF Begins, Promise!Begin
  <1>3. CASE Requests
    BY <1>3 DEF Requests, Promise!Request
  <1>4. CASE WalkEnds
    BY <1>4 DEF WalkEnds, Promise!EndWalk
  <1>5. CASE Finishes
    BY <1>5 DEF Finishes, Promise!Finish
  <1> QED
    BY <1>0, <1>1, <1>2, <1>3, <1>4, <1>5 DEF StepKind

(* As long as the environment waits for Idle, what a client sees of a scan *)
(* is the plain one of ScanPromise: buffers that fill, batches that wait   *)
(* for a lock and replies that are counted together make no difference.    *)
THEOREM ScanKeepsPromise == CalmSpec => PromiseKept
  <1>1. CalmProofInv /\ CalmProofInv' /\ [CalmNext]_vars
            => [Promise!Next]_<<Phase, Pipeline>>
    BY PromiseStep DEF CalmProofInv
  <1> QED
    BY <1>1, CalmInduction, PromiseInit, PTL
    DEF CalmSpec, PromiseKept, Promise!Spec

=============================================================================
