--------------------------- MODULE SyncManager_proofs ---------------------------
(***************************************************************************)
(* Proofs about SyncManager: the log of the lock-free mode, for any        *)
(* producers, capacity and batch sizes, the counters of the other two      *)
(* modes, for any threads, sensors and jitters and any number of calls,    *)
(* and then the manager, whatever its mode.                                *)
(***************************************************************************)
EXTENDS SyncManager, SequenceTheorems, FiniteSetTheorems, TLAPS

-------------------------------------------------------------------------------
(* SyncLog *)

(* What the three kinds of threads leave alone.                              *)
LEMMA ManagerFrame ==
  Manager => UNCHANGED <<prodVars, logQueue, droppedLogs, popped, flushCounter,
                         rows, flushed>>
BY DEF Manager, StartLogConsumer, StopSignal, StopJoin, consVars

LEMMA ConsumerFrame ==
  ConsumerStep => UNCHANGED <<prodVars, droppedLogs, consumerRunning, mPc, owed>>
BY DEF ConsumerStep, CreateFile, LoopHead, BatchPop, BatchEnd, DrainPop, DrainEnd,
       PopRow

LEMMA ProducerFrame ==
  ASSUME NEW p \in Producers, ProducerStep(p)
  PROVE  UNCHANGED <<consumerRunning, consVars, mPc, owed>>
BY DEF ProducerStep, FetchSeq, Push, CountDropped

(* Every reachable state of the log is well typed; the queue keeps its       *)
(* capacity and the flush counter stays below FLUSH_BATCHES.                 *)
THEOREM TypeCorrect == Spec => []TypeOK
<1> USE SyncLogAssumption
<1>1. Init => TypeOK
  <2>1. <<>> \in Seq(Event) /\ Len(<<>>) = 0
    OBVIOUS
  <2>2. 0 \in 0..Batch /\ 0 \in 0..(FlushBatches - 1) /\ 0 \in 0..0 /\ 0 <= Capacity
    OBVIOUS
  <2> SUFFICES ASSUME Init PROVE TypeOK
    OBVIOUS
  <2>3. /\ pPc \in [Producers -> {"idle", "push", "refused"}]
        /\ pSeq \in [Producers -> Nat]
        /\ \A p \in Producers : pPc[p] # "idle" => pSeq[p] # 0
        /\ recorded \in [Producers -> Nat]
    BY DEF Init
  <2>4. /\ logQueue \in Seq(Event) /\ Len(logQueue) <= Capacity
        /\ rows \in Seq(Event) /\ flushed \in 0..Len(rows)
    BY <2>1, <2>2 DEF Init
  <2>5. /\ seqCounter \in Nat \ {0} /\ droppedLogs \in Nat
        /\ popped \in 0..Batch /\ flushCounter \in 0..(FlushBatches - 1)
    BY <2>2 DEF Init
  <2>6. /\ cPc \in {"none", "create", "loop", "batch", "drain", "done", "failed"}
        /\ mPc \in {"new", "started", "joining", "stopped"}
        /\ consumerRunning \in BOOLEAN
        /\ owed \subseteq Event
    BY DEF Init
  <2> QED
    BY <2>3, <2>4, <2>5, <2>6 DEF TypeOK
<1>2. TypeOK /\ [Next]_vars => TypeOK'
  <2> SUFFICES ASSUME TypeOK, [Next]_vars PROVE TypeOK'
    OBVIOUS
  <2>1. ASSUME NEW p \in Producers, FetchSeq(p) PROVE TypeOK'
    BY <2>1 DEF TypeOK, FetchSeq, consVars
  <2>2. ASSUME NEW p \in Producers, Push(p) PROVE TypeOK'
    <3>0. Len(logQueue) \in Nat /\ Capacity \in Nat
      BY DEF TypeOK
    <3>1. CASE Len(logQueue) >= Capacity
      BY <2>2, <3>1 DEF TypeOK, Push, QueueFull, consVars
    <3>2. CASE Len(logQueue) < Capacity
      <4>1. [by |-> p, seq |-> pSeq[p]] \in Event
        BY <2>2 DEF TypeOK, Push, Event
      <4>2. logQueue' = Append(logQueue, [by |-> p, seq |-> pSeq[p]])
        BY <2>2, <3>2 DEF TypeOK, Push, QueueFull
      <4>3. logQueue' \in Seq(Event) /\ Len(logQueue') <= Capacity
        BY <3>2, <4>1, <4>2 DEF TypeOK
      <4> QED
        BY <2>2, <3>2, <4>3 DEF TypeOK, Push, QueueFull, consVars
    <3>3. Len(logQueue) >= Capacity \/ Len(logQueue) < Capacity
      BY <3>0
    <3> QED
      BY <3>1, <3>2, <3>3
  <2>3. ASSUME NEW p \in Producers, CountDropped(p) PROVE TypeOK'
    BY <2>3 DEF TypeOK, CountDropped, consVars
  <2>4. CASE CreateFile
    BY <2>4 DEF TypeOK, CreateFile, prodVars
  <2>5. CASE LoopHead
    BY <2>5 DEF TypeOK, LoopHead, prodVars
  <2>6. CASE BatchPop
    BY <2>6 DEF TypeOK, BatchPop, PopRow, prodVars
  <2>7. CASE BatchEnd
    BY <2>7 DEF TypeOK, BatchEnd, FlushDue, prodVars
  <2>8. CASE DrainPop
    BY <2>8 DEF TypeOK, DrainPop, PopRow, prodVars
  <2>9. CASE DrainEnd
    BY <2>9 DEF TypeOK, DrainEnd, prodVars
  <2>10. CASE StartLogConsumer
    BY <2>10 DEF TypeOK, StartLogConsumer, prodVars
  <2>11. CASE StopSignal
    <3>1. rows \o logQueue \in Seq(Event)
      BY ConcatProperties DEF TypeOK
    <3>2. owed' \subseteq Event
      BY <2>11, <3>1 DEF StopSignal, ToSet
    <3> QED
      BY <2>11, <3>2 DEF TypeOK, StopSignal, prodVars, consVars
  <2>12. CASE StopJoin
    BY <2>12 DEF TypeOK, StopJoin, prodVars, consVars
  <2>13. CASE UNCHANGED vars
    BY <2>13 DEF TypeOK, vars, prodVars, consVars
  <2> QED
    BY <2>1, <2>2, <2>3, <2>4, <2>5, <2>6, <2>7, <2>8, <2>9, <2>10, <2>11, <2>12,
       <2>13 DEF Next, ProducerStep, ConsumerStep, Manager
<1> QED
  BY <1>1, <1>2, PTL DEF Spec

-------------------------------------------------------------------------------
(* Popping moves the oldest queued event to the file and leaves the log as   *)
(* it is; pushing appends to the log.                                        *)
LEMMA PopKeepsLog ==
  ASSUME TypeOK, PopRow
  PROVE  Log' = Log
<1>1. /\ rows \in Seq(Event) /\ logQueue \in Seq(Event) /\ logQueue # <<>>
      /\ rows' = Append(rows, Head(logQueue)) /\ logQueue' = Tail(logQueue)
  BY DEF PopRow, TypeOK
<1>2. Head(logQueue) \in Event /\ Tail(logQueue) \in Seq(Event)
  BY <1>1, HeadTailProperties
<1>3. /\ <<Head(logQueue)>> \in Seq(Event)
      /\ Append(rows, Head(logQueue)) = rows \o <<Head(logQueue)>>
  BY <1>1, <1>2
<1>4. <<Head(logQueue)>> \o Tail(logQueue) = logQueue
  BY <1>1, <1>2
<1>5. (rows \o <<Head(logQueue)>>) \o Tail(logQueue) = rows \o logQueue
  BY <1>1, <1>2, <1>3, <1>4, ConcatAssociative
<1> QED
  BY <1>1, <1>3, <1>5 DEF Log

LEMMA PushAppendsToLog ==
  ASSUME TypeOK, NEW e \in Event, logQueue' = Append(logQueue, e), rows' = rows
  PROVE  Log' = Append(Log, e)
<1>1. /\ rows \in Seq(Event) /\ logQueue \in Seq(Event) /\ <<e>> \in Seq(Event)
  BY DEF TypeOK
<1>2. /\ Append(logQueue, e) = logQueue \o <<e>>
      /\ Append(rows \o logQueue, e) = (rows \o logQueue) \o <<e>>
  BY <1>1, ConcatProperties
<1>3. (rows \o logQueue) \o <<e>> = rows \o (logQueue \o <<e>>)
  BY <1>1, ConcatAssociative
<1> QED
  BY <1>2, <1>3 DEF Log

(* The log is a sequence of events.                                          *)
LEMMA LogType == ASSUME TypeOK PROVE Log \in Seq(Event)
BY ConcatProperties DEF TypeOK, Log

(* Only a successful push changes the log.                                   *)
LEMMA LogSteps ==
  ASSUME TypeOK, [Next]_vars
  PROVE  \/ Log' = Log
         \/ \E p \in Producers :
              /\ Push(p) /\ pPc' = [pPc EXCEPT ![p] = "idle"]
              /\ Log' = Append(Log, [by |-> p, seq |-> pSeq[p]])
<1>1. ASSUME UNCHANGED <<rows, logQueue>> PROVE Log' = Log
  BY <1>1 DEF Log
<1>2. ASSUME NEW p \in Producers, ProducerStep(p), ~Push(p) PROVE Log' = Log
  BY <1>1, <1>2 DEF ProducerStep, FetchSeq, CountDropped, consVars
<1>3. ASSUME NEW p \in Producers, Push(p), Len(logQueue) >= Capacity
      PROVE  Log' = Log
  BY <1>1, <1>3 DEF Push, QueueFull, consVars
<1>4. ASSUME NEW p \in Producers, Push(p), ~(Len(logQueue) >= Capacity)
      PROVE  /\ pPc' = [pPc EXCEPT ![p] = "idle"]
             /\ Log' = Append(Log, [by |-> p, seq |-> pSeq[p]])
  <2>1. [by |-> p, seq |-> pSeq[p]] \in Event
    BY <1>4 DEF Push, TypeOK, Event
  <2>2. /\ logQueue' = Append(logQueue, [by |-> p, seq |-> pSeq[p]])
        /\ rows' = rows /\ pPc' = [pPc EXCEPT ![p] = "idle"]
    BY <1>4 DEF Push, QueueFull, consVars
  <2> QED
    BY <2>1, <2>2, PushAppendsToLog
<1>5. ASSUME ConsumerStep PROVE Log' = Log
  BY <1>1, <1>5, PopKeepsLog DEF ConsumerStep, CreateFile, LoopHead, BatchPop,
     BatchEnd, DrainPop, DrainEnd
<1>6. ASSUME Manager PROVE Log' = Log
  BY <1>1, <1>6, ManagerFrame
<1>7. ASSUME UNCHANGED vars PROVE Log' = Log
  BY <1>1, <1>7 DEF vars, consVars
<1> QED
  BY <1>2, <1>3, <1>4, <1>5, <1>6, <1>7 DEF Next

-------------------------------------------------------------------------------
(* Only FetchSeq hands out a number or starts a recording.                   *)
LEMMA NumberSteps ==
  ASSUME TypeOK, [Next]_vars, \A p \in Producers : ~FetchSeq(p)
  PROVE  UNCHANGED <<seqCounter, pSeq, recorded>> /\ Recording' \subseteq Recording
<1>1. ASSUME NEW p \in Producers, Push(p) \/ CountDropped(p)
      PROVE  UNCHANGED <<seqCounter, pSeq, recorded>> /\ Recording' \subseteq Recording
  <2>1. pPc[p] # "idle" /\ \A r \in Producers \ {p} : pPc'[r] = pPc[r]
    BY <1>1 DEF Push, CountDropped, TypeOK
  <2>2. UNCHANGED <<seqCounter, pSeq, recorded>>
    BY <1>1 DEF Push, CountDropped
  <2> QED
    BY <2>1, <2>2 DEF Recording
<1>2. CASE UNCHANGED prodVars
  BY <1>2 DEF prodVars, Recording
<1> QED
  BY <1>1, <1>2, ConsumerFrame, ManagerFrame DEF Next, ProducerStep, vars

(* ProducerOrder is not inductive: what keeps a new number out of the log is *)
(* that the counter is ahead of every number fetched, and what keeps a       *)
(* pushed number new is that two threads never hold the same one.            *)
NumbersFresh ==
  /\ \A p \in Producers : pSeq[p] < seqCounter
  /\ \A p, r \in Recording : p # r => pSeq[p] # pSeq[r]

OrderInv == NumbersFresh /\ ProducerOrder

LEMMA NumbersStayFresh ==
  ASSUME TypeOK, NumbersFresh, [Next]_vars
  PROVE  NumbersFresh'
<1>1. ASSUME NEW p \in Producers, FetchSeq(p) PROVE NumbersFresh'
  <2>1. /\ seqCounter' = seqCounter + 1 /\ seqCounter \in Nat
        /\ pSeq \in [Producers -> Nat]
        /\ \A r \in Producers : pSeq'[r] = IF r = p THEN seqCounter ELSE pSeq[r]
    BY <1>1 DEF FetchSeq, TypeOK
  <2>2. \A r \in Producers : pSeq[r] < seqCounter
    BY DEF NumbersFresh
  <2>3. Recording' = Recording \cup {p} /\ Recording \subseteq Producers
    BY <1>1 DEF FetchSeq, Recording, TypeOK
  <2>4. \A q, r \in Recording : q # r => pSeq[q] # pSeq[r]
    BY DEF NumbersFresh
  <2>5. \A r \in Producers : pSeq'[r] < seqCounter'
    BY <2>1, <2>2
  <2>6. \A q, r \in Recording' : q # r => pSeq'[q] # pSeq'[r]
    BY <2>1, <2>2, <2>3, <2>4
  <2> QED
    BY <2>5, <2>6 DEF NumbersFresh
<1>2. CASE \A p \in Producers : ~FetchSeq(p)
  BY <1>2, NumberSteps DEF NumbersFresh
<1> QED
  BY <1>1, <1>2

(* Numbers in the log are distinct and rise for each thread.                 *)
THEOREM LogInProducerOrder == Spec => []ProducerOrder
<1>1. Init => OrderInv
  <2> SUFFICES ASSUME Init PROVE OrderInv
    OBVIOUS
  <2>1. Log = <<>> /\ DOMAIN Log = {}
    BY DEF Init, Log
  <2>2. Recording = {}
    BY DEF Init, Recording
  <2>3. \A p \in Producers : pSeq[p] < seqCounter
    BY DEF Init
  <2> QED
    BY <2>1, <2>2, <2>3 DEF OrderInv, NumbersFresh, ProducerOrder
<1>2. TypeOK /\ OrderInv /\ [Next]_vars => OrderInv'
  <2> SUFFICES ASSUME TypeOK, NumbersFresh, ProducerOrder, [Next]_vars
               PROVE  ProducerOrder'
    BY NumbersStayFresh DEF OrderInv
  <2>1. /\ Log \in Seq(Event) /\ pSeq \in [Producers -> Nat] /\ seqCounter \in Nat
        /\ \A i \in DOMAIN Log : Log[i].by \in Producers /\ Log[i].seq \in Nat
    <3>1. Log \in Seq(Event) /\ pSeq \in [Producers -> Nat] /\ seqCounter \in Nat
      BY LogType DEF TypeOK
    <3>2. \A i \in DOMAIN Log : Log[i] \in Event
      BY <3>1
    <3> QED
      BY <3>1, <3>2 DEF Event
  <2>2. ASSUME NEW p \in Producers, FetchSeq(p) PROVE ProducerOrder'
    <3>1. Log' = Log
      BY <2>2 DEF FetchSeq, Log, consVars
    <3>2. \A r \in Producers : pSeq'[r] = IF r = p THEN seqCounter ELSE pSeq[r]
      BY <2>2 DEF FetchSeq, TypeOK
    <3>3. Recording' = Recording \cup {p}
      BY <2>2 DEF FetchSeq, Recording, TypeOK
    <3>4. \A r \in Producers : pSeq[r] < seqCounter
      BY DEF NumbersFresh
    <3>5. \A i \in DOMAIN Log : Log[i].seq <= pSeq[Log[i].by]
      BY DEF ProducerOrder
    <3>6. \A i \in DOMAIN Log : Log[i].seq < seqCounter
      BY <2>1, <3>4, <3>5
    <3>7. \A i \in DOMAIN Log' : Log'[i].seq <= pSeq'[Log'[i].by]
      BY <2>1, <3>1, <3>2, <3>5, <3>6
    <3>8. \A r \in Recording' : \A i \in DOMAIN Log' : Log'[i].seq # pSeq'[r]
      <4> SUFFICES ASSUME NEW r \in Recording', NEW i \in DOMAIN Log
                   PROVE  Log[i].seq # pSeq'[r]
        BY <3>1
      <4>1. CASE r = p
        BY <2>1, <3>2, <3>6, <4>1
      <4>2. CASE r # p
        BY <3>2, <3>3, <4>2 DEF ProducerOrder, Recording
      <4> QED
        BY <4>1, <4>2
    <3> QED
      BY <3>1, <3>7, <3>8 DEF ProducerOrder
  <2>3. ASSUME NEW p \in Producers, Push(p), pPc' = [pPc EXCEPT ![p] = "idle"],
               Log' = Append(Log, [by |-> p, seq |-> pSeq[p]])
        PROVE  ProducerOrder'
    <3> DEFINE e == [by |-> p, seq |-> pSeq[p]]
               n == Len(Log)
    <3>1. /\ n \in Nat /\ DOMAIN Log = 1..n /\ DOMAIN Log' = 1..(n + 1)
          /\ \A i \in 1..n : Log'[i] = Log[i]
          /\ Log'[n + 1] = e
      BY <2>1, <2>3
    <3>2. pSeq' = pSeq /\ Recording' = Recording \ {p} /\ p \in Recording
      BY <2>3 DEF Push, Recording, TypeOK
    <3>3. \A i \in 1..n : /\ Log[i].seq # e.seq
                          /\ Log[i].by = e.by => Log[i].seq < e.seq
      BY <2>1, <3>1, <3>2 DEF ProducerOrder
    <3>4. \A i \in DOMAIN Log' : Log'[i].seq <= pSeq'[Log'[i].by]
      <4> SUFFICES ASSUME NEW i \in 1..(n + 1)
                   PROVE  Log'[i].seq <= pSeq[Log'[i].by]
        BY <3>1, <3>2
      <4>1. CASE i = n + 1
        BY <2>1, <3>1, <4>1
      <4>2. CASE i \in 1..n
        BY <3>1, <4>2 DEF ProducerOrder
      <4> QED
        BY <3>1, <4>1, <4>2
    <3>5. \A r \in Recording' : \A i \in DOMAIN Log' : Log'[i].seq # pSeq'[r]
      <4> SUFFICES ASSUME NEW r \in Recording \ {p}, NEW i \in 1..(n + 1)
                   PROVE  Log'[i].seq # pSeq[r]
        BY <3>1, <3>2
      <4>1. CASE i = n + 1
        BY <3>1, <3>2, <4>1 DEF NumbersFresh
      <4>2. CASE i \in 1..n
        BY <3>1, <4>2 DEF ProducerOrder
      <4> QED
        BY <3>1, <4>1, <4>2
    <3>6. \A i, j \in DOMAIN Log' : i < j =>
            /\ Log'[i].seq # Log'[j].seq
            /\ Log'[i].by = Log'[j].by => Log'[i].seq < Log'[j].seq
      <4> SUFFICES ASSUME NEW i \in 1..(n + 1), NEW j \in 1..(n + 1), i < j
                   PROVE  /\ Log'[i].seq # Log'[j].seq
                          /\ Log'[i].by = Log'[j].by => Log'[i].seq < Log'[j].seq
        BY <3>1
      <4>1. i \in 1..n
        BY <3>1
      <4>2. CASE j = n + 1
        BY <3>1, <3>3, <4>1, <4>2
      <4>3. CASE j \in 1..n
        BY <3>1, <4>1, <4>3 DEF ProducerOrder
      <4> QED
        BY <3>1, <4>2, <4>3
    <3> QED
      BY <3>4, <3>5, <3>6 DEF ProducerOrder
  <2>4. ASSUME Log' = Log, \A p \in Producers : ~FetchSeq(p) PROVE ProducerOrder'
    BY <2>4, NumberSteps DEF ProducerOrder
  <2> QED
    BY <2>2, <2>3, <2>4, LogSteps
<1>3. OrderInv => ProducerOrder
  BY DEF OrderInv
<1> QED
  BY <1>1, <1>2, <1>3, TypeCorrect, PTL DEF Spec

-------------------------------------------------------------------------------
(* Where every number issued is: in the log, in dropped_logs or in the hands *)
(* of a thread that is still recording.                                      *)
THEOREM NothingUnaccounted == Spec => []Accounting
<1>1. Init => Accounting
  <2> SUFFICES ASSUME Init PROVE Accounting
    OBVIOUS
  <2>1. Recording = {} /\ Log = <<>>
    BY DEF Init, Recording, Log
  <2>2. Cardinality(Recording) = 0 /\ Len(Log) = 0
    BY <2>1, FS_EmptySet
  <2>3. seqCounter = 1 /\ droppedLogs = 0
    BY DEF Init
  <2> QED
    BY <2>2, <2>3 DEF Accounting
<1>2. TypeOK /\ Accounting /\ [Next]_vars => Accounting'
  <2> SUFFICES ASSUME TypeOK, Accounting, [Next]_vars PROVE Accounting'
    OBVIOUS
  <2>1. /\ IsFiniteSet(Recording) /\ Cardinality(Recording) \in Nat
        /\ Len(Log) \in Nat /\ droppedLogs \in Nat /\ seqCounter \in Nat
    <3>1. IsFiniteSet(Recording) /\ Cardinality(Recording) \in Nat
      BY SyncLogAssumption, FS_Subset, FS_CardinalityType DEF Recording
    <3> QED
      BY <3>1, LogType, LenProperties DEF TypeOK
  <2>2. ASSUME NEW p \in Producers, FetchSeq(p) PROVE Accounting'
    <3>1. /\ Log' = Log /\ droppedLogs' = droppedLogs
          /\ seqCounter' = seqCounter + 1
      BY <2>2 DEF FetchSeq, Log, consVars
    <3>2. Recording' = Recording \cup {p} /\ p \notin Recording
      BY <2>2 DEF FetchSeq, Recording, TypeOK
    <3>3. Cardinality(Recording') = Cardinality(Recording) + 1
      BY <2>1, <3>2, FS_AddElement
    <3> QED
      BY <2>1, <3>1, <3>3 DEF Accounting
  <2>3. ASSUME NEW p \in Producers, p \in Recording, Recording' = Recording \ {p}
        PROVE  Cardinality(Recording') = Cardinality(Recording) - 1
    BY <2>1, <2>3, FS_RemoveElement
  <2>4. ASSUME NEW p \in Producers, Push(p) PROVE Accounting'
    <3>1. droppedLogs' = droppedLogs /\ seqCounter' = seqCounter /\ p \in Recording
      BY <2>4 DEF Push, Recording
    <3>2. CASE Len(logQueue) >= Capacity
      <4>1. Recording' = Recording
        BY <2>4, <3>2 DEF Push, QueueFull, Recording, TypeOK
      <4>2. Log' = Log
        BY <2>4, <3>2 DEF Push, QueueFull, Log, consVars
      <4> QED
        BY <3>1, <4>1, <4>2 DEF Accounting
    <3>3. CASE ~(Len(logQueue) >= Capacity)
      <4> DEFINE e == [by |-> p, seq |-> pSeq[p]]
      <4>1. /\ logQueue' = Append(logQueue, e) /\ rows' = rows
            /\ pPc' = [pPc EXCEPT ![p] = "idle"]
        BY <2>4, <3>3 DEF Push, QueueFull, consVars
      <4>2. Recording' = Recording \ {p}
        BY <4>1 DEF Recording, TypeOK
      <4>3. e \in Event
        BY <2>4 DEF Push, TypeOK, Event
      <4>4. Log' = Append(Log, e)
        BY <4>1, <4>3, PushAppendsToLog
      <4>5. Len(Log') = Len(Log) + 1
        BY <4>3, <4>4, LogType
      <4>6. Cardinality(Recording') = Cardinality(Recording) - 1
        BY <2>3, <3>1, <4>2
      <4> QED
        BY <2>1, <3>1, <4>5, <4>6 DEF Accounting
    <3> QED
      BY <3>2, <3>3
  <2>5. ASSUME NEW p \in Producers, CountDropped(p) PROVE Accounting'
    <3>1. /\ Log' = Log /\ droppedLogs' = droppedLogs + 1 /\ seqCounter' = seqCounter
      BY <2>5 DEF CountDropped, Log, consVars
    <3>2. p \in Recording /\ Recording' = Recording \ {p}
      BY <2>5 DEF CountDropped, Recording, TypeOK
    <3>3. Cardinality(Recording') = Cardinality(Recording) - 1
      BY <2>3, <3>2
    <3> QED
      BY <2>1, <3>1, <3>3 DEF Accounting
  <2>6. CASE UNCHANGED prodVars /\ droppedLogs' = droppedLogs
    <3>1. \A p \in Producers : ~FetchSeq(p) /\ ~Push(p)
      BY <2>6 DEF prodVars, FetchSeq, Push, TypeOK
    <3>2. Log' = Log
      BY <3>1, LogSteps
    <3>3. Recording' = Recording /\ seqCounter' = seqCounter
      BY <2>6 DEF prodVars, Recording
    <3> QED
      BY <2>6, <3>2, <3>3 DEF Accounting
  <2> QED
    BY <2>2, <2>4, <2>5, <2>6, ConsumerFrame, ManagerFrame DEF Next, ProducerStep, vars
<1> QED
  BY <1>1, <1>2, TypeCorrect, PTL DEF Spec

-------------------------------------------------------------------------------
(* At most the rows of one round remain to be added to the unflushed rounds  *)
(* counted by flush_counter, so a round that reaches FLUSH_BATCHES flushes   *)
(* before the bound is passed.                                               *)
UnflushedInv ==
  /\ mPc = "new" => cPc = "none"
  /\ cPc \in {"none", "create"} => rows = <<>> /\ flushed = 0
  /\ cPc \in {"loop", "batch"} =>
       Len(rows) - flushed <= flushCounter * Batch + (IF cPc = "batch" THEN popped ELSE 0)

(* The thread that appends a row keeps the others' types.                    *)
LEMMA PopAddsRow ==
  ASSUME TypeOK, PopRow
  PROVE  Len(rows') = Len(rows) + 1
<1>1. rows \in Seq(Event) /\ logQueue \in Seq(Event) /\ logQueue # <<>>
  BY DEF PopRow, TypeOK
<1>2. Head(logQueue) \in Event
  BY <1>1, HeadTailProperties
<1> QED
  BY <1>1, <1>2, AppendProperties DEF PopRow

(* A crash while the consumer runs loses at most FLUSH_BATCHES rounds.       *)
THEOREM UnflushedIsBounded == Spec => []UnflushedBound
<1> USE SyncLogAssumption
<1>1. Init => UnflushedInv
  BY DEF Init, UnflushedInv
<1>2. TypeOK /\ UnflushedInv /\ [Next]_vars => UnflushedInv'
  <2> SUFFICES ASSUME TypeOK, UnflushedInv, [Next]_vars PROVE UnflushedInv'
    OBVIOUS
  <2>1. /\ Len(rows) \in Nat /\ flushed \in Nat /\ flushed <= Len(rows)
        /\ flushCounter \in Nat /\ popped \in Nat /\ popped <= Batch
    BY LenProperties DEF TypeOK
  <2>2. CASE UNCHANGED <<cPc, rows, flushed, flushCounter, popped>> /\ (mPc' = "new" => mPc = "new")
    BY <2>2 DEF UnflushedInv
  <2>3. CASE CreateFile
    <3>1. rows' = <<>> /\ flushed' = 0 /\ flushCounter' = flushCounter
      BY <2>3 DEF CreateFile, UnflushedInv
    <3>2. cPc' \in {"loop", "failed"}
      BY <2>3 DEF CreateFile
    <3>3. flushCounter * Batch \in Nat
      BY <2>1
    <3>4. Len(rows') - flushed' <= flushCounter' * Batch + 0
      BY <3>1, <3>3
    <3>5. mPc' = mPc /\ cPc = "create"
      BY <2>3 DEF CreateFile
    <3> QED
      BY <3>2, <3>4, <3>5 DEF UnflushedInv
  <2>4. CASE LoopHead
    <3>1. /\ UNCHANGED <<rows, flushed, flushCounter>> /\ popped' = 0
          /\ cPc = "loop" /\ cPc' \in {"batch", "drain"}
      BY <2>4 DEF LoopHead
    <3> mPc' # "new"
      BY <2>4 DEF LoopHead, UnflushedInv
    <3>2. Len(rows) - flushed <= flushCounter * Batch
      BY <2>1, <3>1 DEF UnflushedInv
    <3> QED
      BY <2>1, <3>1, <3>2 DEF UnflushedInv
  <2>5. CASE BatchPop
    <3>1. /\ Len(rows') = Len(rows) + 1 /\ popped' = popped + 1
          /\ UNCHANGED <<flushed, flushCounter, cPc>> /\ cPc = "batch"
      BY <2>5, PopAddsRow DEF BatchPop, PopRow
    <3> mPc' # "new"
      BY <2>5 DEF BatchPop, PopRow, UnflushedInv
    <3>2. Len(rows) - flushed <= flushCounter * Batch + popped
      BY <3>1 DEF UnflushedInv
    <3> QED
      BY <2>1, <3>1, <3>2 DEF UnflushedInv
  <2>6. CASE BatchEnd
    <3>1. Len(rows) - flushed <= flushCounter * Batch + popped
      BY <2>6 DEF BatchEnd, UnflushedInv
    <3>2. rows' = rows /\ cPc' = "loop" /\ mPc' # "new"
      BY <2>6 DEF BatchEnd, UnflushedInv
    <3>3. CASE flushed' = Len(rows) /\ flushCounter' = 0
      BY <2>1, <3>2, <3>3 DEF UnflushedInv
    <3>4. CASE flushed' = flushed /\ popped > 0 /\ flushCounter' = flushCounter + 1
      <4>1. flushCounter' * Batch = flushCounter * Batch + Batch
        BY <2>1, <3>4
      <4>2. Len(rows) - flushed <= flushCounter' * Batch
        BY <2>1, <3>1, <4>1
      <4> QED
        BY <3>2, <3>4, <4>2 DEF UnflushedInv
    <3>5. CASE flushed' = flushed /\ popped = 0 /\ flushCounter' = flushCounter
      <4>1. Len(rows) - flushed <= flushCounter * Batch
        BY <2>1, <3>1, <3>5
      <4>2. Len(rows') - flushed' <= flushCounter' * Batch + 0
        BY <2>1, <3>2, <3>5, <4>1
      <4> QED
        BY <3>2, <4>2 DEF UnflushedInv
    <3> QED
      BY <2>1, <2>6, <3>3, <3>4, <3>5 DEF BatchEnd
  <2>7. CASE DrainPop
    BY <2>7 DEF DrainPop, PopRow, UnflushedInv
  <2>8. CASE DrainEnd
    BY <2>8 DEF DrainEnd, UnflushedInv
  <2>9. CASE StartLogConsumer
    BY <2>9 DEF StartLogConsumer, UnflushedInv
  <2> QED
    BY <2>2, <2>3, <2>4, <2>5, <2>6, <2>7, <2>8, <2>9, ProducerFrame
    DEF Next, ConsumerStep, Manager, StopSignal, StopJoin, consVars, vars
<1>3. TypeOK /\ UnflushedInv => UnflushedBound
  <2> SUFFICES ASSUME TypeOK, UnflushedInv, cPc \in {"loop", "batch"}
               PROVE  Len(rows) - flushed <= FlushBatches * Batch
    BY DEF UnflushedBound
  <2>1. /\ Len(rows) \in Nat /\ flushed \in Nat /\ popped \in Nat /\ popped <= Batch
        /\ flushCounter \in Nat /\ flushCounter + 1 <= FlushBatches
    BY LenProperties DEF TypeOK
  <2>2. Len(rows) - flushed <= flushCounter * Batch + Batch
    BY <2>1 DEF UnflushedInv
  <2>3. flushCounter * Batch + Batch = (flushCounter + 1) * Batch
    BY <2>1
  <2>4. \A x, y, b \in Nat : x <= y => x * b <= y * b
    OBVIOUS
  <2>5. (flushCounter + 1) * Batch <= FlushBatches * Batch
    BY <2>1, <2>4
  <2> QED
    BY <2>1, <2>2, <2>3, <2>5
<1> QED
  BY <1>1, <1>2, <1>3, TypeCorrect, PTL DEF Spec

-------------------------------------------------------------------------------
(* What was owed at the stop stays in the log, a consumer that has drained   *)
(* the log was told to stop, and it has flushed all that was owed by then.   *)
StopInv ==
  /\ owed \subseteq ToSet(Log)
  /\ mPc = "new" => cPc = "none"
  /\ mPc = "started" => consumerRunning
  /\ cPc \in {"drain", "done"} => mPc \in {"joining", "stopped"}
  /\ cPc = "done" => owed \subseteq ToSet(SubSeq(rows, 1, flushed))
  /\ mPc = "stopped" => cPc \in {"done", "failed"}

(* The set of the events in the log only grows.                              *)
LEMMA LogGrows ==
  ASSUME TypeOK, [Next]_vars
  PROVE  ToSet(Log) \subseteq ToSet(Log')
<1>1. Log \in Seq(Event)
  BY LogType
<1>2. ASSUME NEW e, Log' = Append(Log, e) PROVE ToSet(Log) \subseteq ToSet(Log')
  <2>1. /\ DOMAIN Log = 1..Len(Log) /\ DOMAIN Log' = 1..(Len(Log) + 1)
        /\ \A i \in 1..Len(Log) : Log'[i] = Log[i]
        /\ Len(Log) \in Nat
    BY <1>1, <1>2
  <2> QED
    BY <2>1 DEF ToSet
<1> QED
  BY <1>2, LogSteps

(* StopInv is inductive.                                                     *)
LEMMA StopInvHolds == Spec => []StopInv
<1>1. Init => StopInv
  BY DEF Init, StopInv
<1>2. TypeOK /\ StopInv /\ [Next]_vars => StopInv'
  <2> SUFFICES ASSUME TypeOK, StopInv, [Next]_vars PROVE StopInv'
    OBVIOUS
  <2>1. owed' = owed => owed' \subseteq ToSet(Log')
    BY LogGrows DEF StopInv
  <2>2. CASE UNCHANGED <<consumerRunning, cPc, rows, flushed, mPc, owed>>
    BY <2>1, <2>2 DEF StopInv
  <2>3. CASE CreateFile
    BY <2>1, <2>3 DEF CreateFile, StopInv
  <2>4. CASE LoopHead
    <3>1. cPc = "loop" /\ UNCHANGED <<mPc, owed, consumerRunning>>
      BY <2>4 DEF LoopHead
    <3>2. cPc' = "batch" \/ (cPc' = "drain" /\ ~consumerRunning)
      BY <2>4 DEF LoopHead
    <3>3. cPc' = "drain" => mPc \in {"joining", "stopped"}
      BY <3>1, <3>2 DEF StopInv, TypeOK
    <3> QED
      BY <2>1, <3>1, <3>2, <3>3 DEF StopInv
  <2>5. CASE BatchPop \/ DrainPop
    <3>1. cPc \in {"batch", "drain"}
          /\ UNCHANGED <<mPc, owed, consumerRunning, cPc>>
      BY <2>5 DEF BatchPop, DrainPop, PopRow
    <3> QED
      BY <2>1, <3>1 DEF StopInv
  <2>6. CASE BatchEnd
    <3>1. /\ cPc = "batch" /\ cPc' = "loop"
          /\ UNCHANGED <<mPc, owed, consumerRunning>>
      BY <2>6 DEF BatchEnd
    <3> QED
      BY <2>1, <3>1 DEF StopInv
  <2>7. CASE DrainEnd
    <3>1. /\ cPc = "drain" /\ cPc' = "done" /\ logQueue = <<>>
          /\ rows' = rows /\ flushed' = Len(rows)
          /\ UNCHANGED <<mPc, owed, consumerRunning>>
      BY <2>7 DEF DrainEnd
    <3>2. rows \in Seq(Event)
      BY DEF TypeOK
    <3>3. Log = rows
      BY <3>1, <3>2 DEF Log
    <3>4. SubSeq(rows, 1, Len(rows)) = rows
      BY <3>2
    <3>5. owed' \subseteq ToSet(SubSeq(rows', 1, flushed'))
      BY <3>1, <3>3, <3>4 DEF StopInv
    <3> QED
      BY <2>1, <3>1, <3>5 DEF StopInv
  <2>8. CASE StartLogConsumer
    BY <2>1, <2>8 DEF StartLogConsumer, StopInv
  <2>9. CASE StopSignal
    <3>1. /\ mPc = "started" /\ mPc' = "joining" /\ UNCHANGED <<cPc, rows, logQueue>>
          /\ owed' = ToSet(Log)
      BY <2>9 DEF StopSignal, consVars, Log
    <3>2. Log' = Log
      BY <3>1 DEF Log
    <3>3. cPc \notin {"drain", "done"}
      BY <3>1 DEF StopInv
    <3> QED
      BY <3>1, <3>2, <3>3 DEF StopInv
  <2>10. CASE StopJoin
    BY <2>1, <2>10 DEF StopJoin, consVars, StopInv
  <2> QED
    BY <2>2, <2>3, <2>4, <2>5, <2>6, <2>7, <2>8, <2>9, <2>10, ProducerFrame
    DEF Next, ConsumerStep, Manager, consVars, vars
<1> QED
  BY <1>1, <1>2, TypeCorrect, PTL DEF Spec

(* A stop of a consumer that has its file leaves every event that was queued *)
(* before it on disk.                                                        *)
THEOREM StopFlushesAll == Spec => []StopFlushes
<1>1. StopInv => StopFlushes
  BY DEF StopInv, StopFlushes
<1> QED
  BY <1>1, StopInvHolds, PTL

-------------------------------------------------------------------------------
(* What stop_consumer does leave behind: events of producers that nobody     *)
(* joins, and nothing else.                                                  *)
LeftByDetached ==
  mPc = "stopped" /\ cPc # "failed" =>
    /\ flushed = Len(rows)
    /\ \A i \in DOMAIN logQueue : logQueue[i].by \in Detached

(* From the stop on, only detached producers record; and what they queue     *)
(* after the final drain stays in the queue.                                 *)
LeftInv ==
  /\ mPc \in {"joining", "stopped"} => \A p \in Producers \ Detached : pPc[p] = "idle"
  /\ cPc = "done" => /\ mPc \in {"joining", "stopped"}
                     /\ flushed = Len(rows)
                     /\ \A i \in DOMAIN logQueue : logQueue[i].by \in Detached

(* Whatever stop_consumer leaves in the queue was recorded by a detached     *)
(* producer, and all rows are on disk (sync_manager.rs:514-546).             *)
THEOREM OnlyDetachedLeaves == Spec => []LeftByDetached
<1>1. Init => LeftInv
  BY DEF Init, LeftInv
<1>2. TypeOK /\ StopInv /\ LeftInv /\ [Next]_vars => LeftInv'
  <2> SUFFICES ASSUME TypeOK, StopInv, LeftInv, [Next]_vars PROVE LeftInv'
    OBVIOUS
  <2>1. ASSUME NEW p \in Producers, FetchSeq(p) PROVE LeftInv'
    <3>1. /\ mPc \in {"joining", "stopped"} => p \in Detached
          /\ pPc' = [pPc EXCEPT ![p] = "push"] /\ pPc \in [Producers -> {"idle", "push", "refused"}]
          /\ UNCHANGED <<logQueue, rows, flushed, cPc, mPc>>
      BY <2>1 DEF FetchSeq, MayRecord, TypeOK, consVars
    <3> QED
      BY <3>1 DEF LeftInv
  <2>2. ASSUME NEW p \in Producers, Push(p) PROVE LeftInv'
    <3>1. /\ pPc \in [Producers -> {"idle", "push", "refused"}] /\ pPc[p] = "push"
          /\ UNCHANGED <<rows, flushed, cPc, mPc>>
          /\ \A r \in Producers \ {p} : pPc'[r] = pPc[r]
      BY <2>2 DEF Push, TypeOK, consVars
    <3>2. mPc \in {"joining", "stopped"} => p \in Detached
      BY <3>1 DEF LeftInv
    <3>3. mPc' \in {"joining", "stopped"} => \A r \in Producers \ Detached : pPc'[r] = "idle"
      BY <3>1, <3>2 DEF LeftInv
    <3>4. \/ logQueue' = logQueue
          \/ logQueue' = Append(logQueue, [by |-> p, seq |-> pSeq[p]])
      BY <2>2 DEF Push
    <3>5. ASSUME p \in Detached, \A i \in DOMAIN logQueue : logQueue[i].by \in Detached
          PROVE  \A i \in DOMAIN logQueue' : logQueue'[i].by \in Detached
      <4>1. CASE logQueue' = logQueue
        BY <3>5, <4>1
      <4>2. CASE logQueue' = Append(logQueue, [by |-> p, seq |-> pSeq[p]])
        <5> DEFINE e == [by |-> p, seq |-> pSeq[p]]
        <5>1. e.by = p /\ logQueue \in Seq(Event)
          BY DEF TypeOK
        <5> HIDE DEF e
        <5>2. /\ DOMAIN Append(logQueue, e) = 1..(Len(logQueue) + 1)
              /\ DOMAIN logQueue = 1..Len(logQueue) /\ Len(logQueue) \in Nat
              /\ \A i \in 1..Len(logQueue) : Append(logQueue, e)[i] = logQueue[i]
              /\ Append(logQueue, e)[Len(logQueue) + 1] = e
          BY <5>1
        <5>3. logQueue' = Append(logQueue, e)
          BY <4>2 DEF e
        <5> QED
          BY <3>5, <5>1, <5>2, <5>3
      <4> QED
        BY <3>4, <4>1, <4>2
    <3> QED
      BY <3>1, <3>2, <3>3, <3>5 DEF LeftInv
  <2>3. ASSUME NEW p \in Producers, CountDropped(p) PROVE LeftInv'
    BY <2>3 DEF CountDropped, LeftInv, TypeOK, consVars
  <2>4. CASE ConsumerStep
    <3>1. UNCHANGED <<pPc, mPc>>
      BY <2>4 DEF ConsumerStep, CreateFile, LoopHead, BatchPop, BatchEnd, DrainPop, PopRow,
         DrainEnd, prodVars
    <3>2. CASE DrainEnd
      <4>1. /\ cPc = "drain" /\ logQueue' = <<>> /\ rows' = rows /\ flushed' = Len(rows)
        BY <3>2 DEF DrainEnd
      <4>2. mPc \in {"joining", "stopped"} /\ DOMAIN logQueue' = {}
        BY <4>1 DEF StopInv
      <4> QED
        BY <3>1, <4>1, <4>2 DEF LeftInv
    <3>3. CASE ~DrainEnd
      <4>1. cPc' # "done"
        BY <2>4, <3>3 DEF ConsumerStep, CreateFile, LoopHead, BatchPop, BatchEnd, DrainPop,
           PopRow
      <4> QED
        BY <3>1, <4>1 DEF LeftInv
    <3> QED
      BY <3>2, <3>3
  <2>5. CASE StartLogConsumer
    BY <2>5 DEF StartLogConsumer, LeftInv
  <2>6. CASE StopSignal
    <3>1. /\ mPc = "started" /\ \A p \in Producers \ Detached : pPc[p] = "idle"
          /\ UNCHANGED <<pPc, cPc>>
      BY <2>6 DEF StopSignal, prodVars, consVars
    <3>2. cPc # "done"
      BY <3>1 DEF StopInv
    <3> QED
      BY <3>1, <3>2 DEF LeftInv
  <2>7. CASE StopJoin
    BY <2>7 DEF StopJoin, LeftInv, prodVars, consVars
  <2>8. CASE UNCHANGED vars
    BY <2>8 DEF vars, LeftInv, prodVars, consVars
  <2> QED
    BY <2>1, <2>2, <2>3, <2>4, <2>5, <2>6, <2>7, <2>8 DEF Next, ProducerStep, Manager
<1>3. StopInv /\ LeftInv => LeftByDetached
  BY DEF StopInv, LeftInv, LeftByDetached
<1> QED
  BY <1>1, <1>2, <1>3, TypeCorrect, StopInvHolds, PTL DEF Spec

(* A stop after which no producer runs leaves nothing behind: the detached   *)
(* producers are the only reason why a stop may lose events.                 *)
THEOREM JoinedLeaveNothing ==
  ASSUME Detached = {}
  PROVE  Spec => []NothingLeftBehind
<1>1. TypeOK /\ LeftByDetached => NothingLeftBehind
  <2> SUFFICES ASSUME TypeOK, LeftByDetached, mPc = "stopped", cPc # "failed"
               PROVE  logQueue = <<>> /\ flushed = Len(rows)
    BY DEF NothingLeftBehind
  <2>1. flushed = Len(rows) /\ DOMAIN logQueue = {}
    BY DEF LeftByDetached
  <2>2. logQueue = <<>>
    <3>1. logQueue \in Seq(Event)
      BY DEF TypeOK
    <3> QED
      BY <2>1, <3>1
  <2> QED
    BY <2>1, <2>2
<1> QED
  BY <1>1, TypeCorrect, OnlyDetachedLeaves, PTL

-------------------------------------------------------------------------------
(* SyncCounters: they keep the promise of CounterBoard *)

CountersType ==
  /\ mode \in {"mutex", "atomics"}
  /\ count \in [Counters -> Nat]
  /\ pc \in [Recorders -> {"idle", "lock", "load", "store", "add"}]
  /\ call \in [Recorders -> Call]
  /\ loaded \in [Recorders -> Nat]

(* A thread is where its mode takes it; the mutex is held by the one thread  *)
(* that reads and writes back, and what it has read is still the counter's   *)
(* value.                                                                    *)
Exclusive ==
  \A t \in Recorders :
    /\ pc[t] = "add" => mode = "atomics"
    /\ pc[t] \in {"lock", "load", "store"} => mode = "mutex"
    /\ pc[t] \in {"load", "store"} => holder = t
    /\ pc[t] = "store" => loaded[t] = count[call[t].counter]

(* While a snapshot is taken, the counters do not fall below what they were  *)
(* when it began, and what it has read lies in between.                      *)
SnapshotBetween ==
  since # <<>> =>
    /\ since \in [Counters -> Nat]
    /\ \A k \in Counters : since[k] <= count[k]
    /\ DOMAIN partial \subseteq Counters
    /\ \A k \in DOMAIN partial :
         partial[k] \in Nat /\ since[k] <= partial[k] /\ partial[k] <= count[k]

(* What it has not read it still has to read.                                *)
SnapshotCovers ==
  since # <<>> /\ mode = "atomics" => DOMAIN partial \cup reading = Shown

IInv == CountersType /\ Exclusive /\ SnapshotBetween /\ SnapshotCovers

LEMMA AmountsAreNat == Amounts \subseteq Nat /\ Calls \subseteq Call /\ NoneYet \in Call
BY SyncCountersAssumption DEF Amounts, Calls, Call, NoneYet, Counters

(* A counter that grows keeps a snapshot between its bounds.                 *)
LEMMA GrowthKeepsSnapshot ==
  ASSUME IInv, NEW t \in Recorders,
         count' = [count EXCEPT ![call[t].counter] = @ + call[t].amount],
         UNCHANGED snapshotVars
  PROVE  count' \in [Counters -> Nat] /\ SnapshotBetween'
<1>1. call[t].counter \in Counters /\ call[t].amount \in Nat
  BY AmountsAreNat DEF IInv, CountersType, Call
<1>2. count' \in [Counters -> Nat]
  BY <1>1 DEF IInv, CountersType
<1>3. \A k \in Counters : count[k] <= count'[k]
  BY <1>1 DEF IInv, CountersType
<1>4. SnapshotBetween'
  <2> SUFFICES ASSUME since' # <<>> PROVE
        /\ since' \in [Counters -> Nat]
        /\ \A k \in Counters : since'[k] <= count'[k]
        /\ DOMAIN partial' \subseteq Counters
        /\ \A k \in DOMAIN partial' :
             partial'[k] \in Nat /\ since'[k] <= partial'[k] /\ partial'[k] <= count'[k]
    BY DEF SnapshotBetween
  <2>1. /\ since \in [Counters -> Nat]
        /\ \A k \in Counters : since[k] <= count[k]
        /\ DOMAIN partial \subseteq Counters
        /\ \A k \in DOMAIN partial :
             partial[k] \in Nat /\ since[k] <= partial[k] /\ partial[k] <= count[k]
    BY DEF IInv, SnapshotBetween, snapshotVars
  <2>2. \A k \in Counters : count[k] \in Nat /\ count'[k] \in Nat /\ since[k] \in Nat
    BY <1>2, <2>1 DEF IInv, CountersType
  <2> QED
    BY <1>3, <2>1, <2>2 DEF snapshotVars
<1> QED
  BY <1>2, <1>4

LEMMA InitInv == CountersInit => IInv
BY AmountsAreNat DEF CountersInit, Empty, IInv, CountersType, Exclusive, SnapshotBetween,
   SnapshotCovers

(* A record_* call disturbs neither another thread nor a snapshot.           *)
LEMMA RecordInv ==
  ASSUME IInv, NEW t \in Recorders, RecordStep(t)
  PROVE  IInv'
<1> USE DEF IInv
<1>0. SnapshotCovers'
  BY DEF RecordStep, Record, Lock, Load, StoreUnlock, FetchAdd, SnapshotCovers, snapshotVars
<1>1. CASE Record(t)
  <2>1. PICK c \in Calls : call' = [call EXCEPT ![t] = c]
    BY <1>1 DEF Record
  <2>2. CountersType'
    BY <1>1, <2>1, AmountsAreNat DEF Record, CountersType
  <2>3. Exclusive'
    BY <1>1, <2>1 DEF Record, CountersType, Exclusive
  <2>4. SnapshotBetween'
    BY <1>1 DEF Record, SnapshotBetween, snapshotVars
  <2> QED
    BY <1>0, <2>2, <2>3, <2>4
<1>2. CASE Lock(t)
  <2>1. CountersType'
    BY <1>2 DEF Lock, CountersType
  <2>2. Exclusive'
    BY <1>2, SyncCountersAssumption DEF Lock, CountersType, Exclusive
  <2>3. SnapshotBetween'
    BY <1>2 DEF Lock, SnapshotBetween, snapshotVars
  <2> QED
    BY <1>0, <2>1, <2>2, <2>3
<1>3. CASE Load(t)
  <2>1. call[t].counter \in Counters
    BY DEF CountersType, Call
  <2>2. CountersType'
    BY <1>3, <2>1 DEF Load, CountersType
  <2>3. Exclusive'
    BY <1>3 DEF Load, CountersType, Exclusive
  <2>4. SnapshotBetween'
    BY <1>3 DEF Load, SnapshotBetween, snapshotVars
  <2> QED
    BY <1>0, <2>2, <2>3, <2>4
<1>4. CASE StoreUnlock(t)
  <2>1. count' = [count EXCEPT ![call[t].counter] = @ + call[t].amount]
    BY <1>4 DEF StoreUnlock, Exclusive, CountersType, Call
  <2>2. count' \in [Counters -> Nat] /\ SnapshotBetween'
    BY <1>4, <2>1, GrowthKeepsSnapshot DEF StoreUnlock
  <2>3. CountersType'
    BY <1>4, <2>2 DEF StoreUnlock, CountersType
  <2>4. Exclusive'
    BY <1>4 DEF StoreUnlock, CountersType, Exclusive
  <2> QED
    BY <1>0, <2>2, <2>3, <2>4
<1>5. CASE FetchAdd(t)
  <2>1. count' \in [Counters -> Nat] /\ SnapshotBetween'
    BY <1>5, GrowthKeepsSnapshot DEF FetchAdd
  <2>2. CountersType'
    BY <1>5, <2>1 DEF FetchAdd, CountersType
  <2>3. Exclusive'
    BY <1>5 DEF FetchAdd, CountersType, Exclusive
  <2> QED
    BY <1>0, <2>1, <2>2, <2>3
<1> QED
  BY <1>1, <1>2, <1>3, <1>4, <1>5 DEF RecordStep

(* A snapshot reads what lies between its bounds.                            *)
LEMMA SnapshotInv ==
  ASSUME IInv, Snapshot
  PROVE  IInv'
<1> USE DEF IInv
<1>1. UNCHANGED <<mode, recordVars>>
  BY DEF Snapshot, BeginSnapshot, CloneLocked, ReturnLoaded, LoadNext
<1>2. CountersType' /\ Exclusive'
  BY <1>1 DEF recordVars, CountersType, Exclusive
<1>3. SnapshotCovers'
  <2>1. CASE BeginSnapshot
    BY <2>1 DEF BeginSnapshot, SnapshotCovers
  <2>2. CASE CloneLocked \/ ReturnLoaded
    BY <2>2 DEF CloneLocked, ReturnLoaded, SnapshotCovers
  <2>3. ASSUME NEW k \in Counters, LoadNext(k) PROVE SnapshotCovers'
    <3>1. DOMAIN partial' = DOMAIN partial \cup {k} /\ reading' = reading \ {k}
          /\ k \in reading /\ UNCHANGED <<mode, since>>
      BY <2>3 DEF LoadNext, Extend
    <3> QED
      BY <3>1 DEF SnapshotCovers
  <2> QED
    BY <2>1, <2>2, <2>3 DEF Snapshot
<1>4. SnapshotBetween'
  <2>1. CASE BeginSnapshot
    BY <2>1 DEF BeginSnapshot, SnapshotBetween, CountersType, recordVars
  <2>2. CASE CloneLocked
    BY <2>2 DEF CloneLocked, SnapshotBetween
  <2>3. CASE ReturnLoaded
    BY <2>3 DEF ReturnLoaded, SnapshotBetween
  <2>4. ASSUME NEW k \in Counters, LoadNext(k) PROVE SnapshotBetween'
    <3>1. /\ DOMAIN partial' = DOMAIN partial \cup {k}
          /\ \A x \in DOMAIN partial' : partial'[x] = IF x = k THEN count[k] ELSE partial[x]
      BY <2>4 DEF LoadNext, Extend
    <3>2. /\ since \in [Counters -> Nat] /\ since' = since /\ count' = count
          /\ \A x \in Counters : since[x] <= count[x] /\ count[x] \in Nat
      BY <2>4, <1>1 DEF LoadNext, SnapshotBetween, CountersType, recordVars
    <3>3. \A x \in DOMAIN partial :
            partial[x] \in Nat /\ since[x] <= partial[x] /\ partial[x] <= count[x]
      BY <2>4 DEF LoadNext, SnapshotBetween
    <3>4. DOMAIN partial' \subseteq Counters
      BY <2>4, <3>1 DEF LoadNext, SnapshotBetween
    <3>5. \A x \in DOMAIN partial' :
            partial'[x] \in Nat /\ since[x] <= partial'[x] /\ partial'[x] <= count[x]
      BY <3>1, <3>2, <3>3
    <3> QED
      BY <3>2, <3>4, <3>5 DEF SnapshotBetween
  <2> QED
    BY <2>1, <2>2, <2>3, <2>4 DEF Snapshot
<1> QED
  BY <1>2, <1>3, <1>4

(* The counters keep their strengthened invariant.                           *)
THEOREM Invariance == CountersSpec => []IInv
<1>1. IInv /\ [CountersNext]_countersVars => IInv'
  <2> SUFFICES ASSUME IInv, [CountersNext]_countersVars PROVE IInv'
    OBVIOUS
  <2>1. CASE UNCHANGED countersVars
    BY <2>1 DEF countersVars, recordVars, snapshotVars, IInv, CountersType, Exclusive,
       SnapshotBetween, SnapshotCovers
  <2> QED
    BY <2>1, RecordInv, SnapshotInv DEF CountersNext
<1> QED
  BY InitInv, <1>1, PTL DEF CountersSpec

(* A step of a record_* call is a step of the board, or none.                *)
LEMMA RecordImplements ==
  ASSUME IInv, NEW t \in Recorders, RecordStep(t)
  PROVE  [Board!BoardNext]_(Board!boardVars)
<1> USE DEF IInv, CountersType
<1>1. Board!Call = Call
  BY DEF Board!Call, Call
<1>2. CASE Record(t)
  <2>1. PICK c \in Calls : call' = [call EXCEPT ![t] = c]
    BY <1>2 DEF Record
  <2>2. pc[t] = "idle" /\ pc'[t] # "idle" /\ call'[t] = c
    BY <1>2, <2>1 DEF Record
  <2>3. \A u \in Recorders \ {t} : pc'[u] = pc[u] /\ call'[u] = call[u]
    BY <1>2, <2>1 DEF Record
  <2>4. Pending[t] = {} /\ Pending' = [Pending EXCEPT ![t] = {c}]
    BY <2>2, <2>3 DEF Pending
  <2>5. Board!Begin(t, c)
    BY <1>2, <2>4 DEF Record, Board!Begin, snapshotVars
  <2> QED
    BY <1>1, <2>1, <2>5, AmountsAreNat DEF Board!BoardNext
<1>3. CASE Lock(t) \/ Load(t)
  <2>1. call' = call /\ UNCHANGED <<mode, count, since, snap>>
    BY <1>3 DEF Lock, Load, snapshotVars
  <2>2. \A u \in Recorders : pc'[u] = "idle" <=> pc[u] = "idle"
    BY <1>3 DEF Lock, Load
  <2>3. Pending' = Pending
    BY <2>1, <2>2 DEF Pending
  <2> QED
    BY <2>1, <2>3 DEF Board!boardVars
<1>4. CASE StoreUnlock(t) \/ FetchAdd(t)
  <2>1. count' = [count EXCEPT ![call[t].counter] = @ + call[t].amount]
    BY <1>4 DEF StoreUnlock, FetchAdd, Exclusive, Call
  <2>2. /\ pc[t] # "idle" /\ pc'[t] = "idle" /\ call' = call
        /\ \A u \in Recorders \ {t} : pc'[u] = pc[u]
    BY <1>4 DEF StoreUnlock, FetchAdd
  <2>3. Pending[t] = {call[t]} /\ Pending' = [Pending EXCEPT ![t] = {}]
    BY <2>2 DEF Pending
  <2>4. UNCHANGED <<mode, since, snap>>
    BY <1>4 DEF StoreUnlock, FetchAdd, snapshotVars
  <2>5. Board!Return(t, call[t])
    BY <2>1, <2>3, <2>4 DEF Board!Return
  <2> QED
    BY <1>1, <2>5 DEF Board!BoardNext
<1> QED
  BY <1>2, <1>3, <1>4 DEF RecordStep

(* So is a step of a snapshot.                                               *)
LEMMA SnapshotImplements ==
  ASSUME IInv, Snapshot
  PROVE  [Board!BoardNext]_(Board!boardVars)
<1>1. UNCHANGED <<mode, recordVars>>
  BY DEF Snapshot, BeginSnapshot, CloneLocked, ReturnLoaded, LoadNext
<1>2. Pending' = Pending
  BY <1>1 DEF Pending, recordVars
<1>3. CASE BeginSnapshot
  <2>1. Board!BeginSnapshot
    BY <1>1, <1>2, <1>3 DEF BeginSnapshot, Board!BeginSnapshot, recordVars
  <2> QED
    BY <2>1 DEF Board!BoardNext
<1>4. CASE CloneLocked
  <2>1. snap' = count /\ since # <<>> /\ since' = <<>> /\ mode = "mutex"
    BY <1>4 DEF CloneLocked
  <2>2. DOMAIN count = Counters
        /\ \A k \in Counters : since[k] <= count[k] /\ count[k] \in Nat
    BY <2>1 DEF IInv, SnapshotBetween, CountersType
  <2>3. Board!Between(snap')
    BY <2>1, <2>2 DEF Board!Between
  <2>4. Board!ReturnSnapshot(snap')
    BY <1>1, <1>2, <2>1, <2>3 DEF Board!ReturnSnapshot, recordVars
  <2> QED
    BY <2>4 DEF Board!BoardNext
<1>5. CASE ReturnLoaded
  <2>1. snap' = partial /\ since # <<>> /\ since' = <<>> /\ mode = "atomics"
        /\ DOMAIN partial = Shown
    BY <1>5 DEF ReturnLoaded, IInv, SnapshotCovers
  <2>2. Board!Between(snap')
    BY <2>1 DEF Board!Between, IInv, SnapshotBetween
  <2>3. Board!ReturnSnapshot(snap')
    BY <1>1, <1>2, <2>1, <2>2 DEF Board!ReturnSnapshot, recordVars
  <2> QED
    BY <2>3 DEF Board!BoardNext
<1>6. CASE \E k \in Counters : LoadNext(k)
  <2>1. UNCHANGED <<since, snap>>
    BY <1>6 DEF LoadNext
  <2> QED
    BY <1>1, <1>2, <2>1 DEF Board!boardVars, recordVars
<1> QED
  BY <1>3, <1>4, <1>5, <1>6 DEF Snapshot

(* In both modes every record_* call takes effect once and whole, and every  *)
(* snapshot is as consistent as CounterBoard says.                           *)
THEOREM CountersImplementBoard == CountersSpec => RefinesBoard
<1>1. CountersInit => Board!BoardInit
  BY DEF CountersInit, Empty, Board!BoardInit, Pending
<1>2. IInv /\ [CountersNext]_countersVars => [Board!BoardNext]_(Board!boardVars)
  <2> SUFFICES ASSUME IInv, [CountersNext]_countersVars
               PROVE  [Board!BoardNext]_(Board!boardVars)
    OBVIOUS
  <2>1. CASE UNCHANGED countersVars
    BY <2>1 DEF countersVars, recordVars, snapshotVars, Board!boardVars, Pending
  <2> QED
    BY <2>1, RecordImplements, SnapshotImplements DEF CountersNext
<1> QED
  BY <1>1, <1>2, Invariance, PTL DEF CountersSpec, RefinesBoard, Board!BoardSpec

-------------------------------------------------------------------------------
(* SyncManager *)

(* In any mode the manager does nothing that the log alone could not do: in  *)
(* the modes with counters the log stays as it was made.                     *)
THEOREM ManagerIsLog == ManagerSpec => Spec
<1>1. ManagerInit => Init
  BY DEF ManagerInit
<1>2. [ManagerNext]_allVars => [Next]_vars
  BY DEF ManagerNext, InLockFree, allVars
<1> QED
  BY <1>1, <1>2, PTL DEF ManagerSpec, Spec

(* So the log of a manager in any mode keeps what the log alone promises.    *)
THEOREM ManagerKeepsLog ==
  ManagerSpec => [](/\ TypeOK /\ Accounting /\ ProducerOrder /\ UnflushedBound
                    /\ StopFlushes /\ LeftByDetached)
BY ManagerIsLog, TypeCorrect, NothingUnaccounted, LogInProducerOrder, UnflushedIsBounded,
   StopFlushesAll, OnlyDetachedLeaves, PTL

(* In any mode the counters of the manager keep the promise of CounterBoard; *)
(* in the lock-free mode they are never touched (sync_manager.rs:176-359).   *)
THEOREM ManagerImplementsBoard == ManagerSpec => RefinesBoard
<1> DEFINE Inv == mode # "lockfree" => IInv
<1>1. ManagerInit => Inv /\ Board!BoardInit
  <2>1. ManagerInit /\ mode # "lockfree" => IInv
    BY InitInv DEF ManagerInit, CountersInit
  <2>2. ManagerInit => Board!BoardInit
    BY DEF ManagerInit, Empty, Board!BoardInit, Pending
  <2> QED
    BY <2>1, <2>2
<1>2. Inv /\ [ManagerNext]_allVars => Inv' /\ [Board!BoardNext]_(Board!boardVars)
  <2> SUFFICES ASSUME Inv, [ManagerNext]_allVars
               PROVE  Inv' /\ [Board!BoardNext]_(Board!boardVars)
    OBVIOUS
  <2>1. CASE UNCHANGED countersVars
    <3>1. Inv'
      BY <2>1 DEF IInv, CountersType, Exclusive, SnapshotBetween, SnapshotCovers,
         countersVars, recordVars, snapshotVars
    <3>2. UNCHANGED Board!boardVars
      BY <2>1 DEF countersVars, recordVars, snapshotVars, Board!boardVars, Pending
    <3> QED
      BY <3>1, <3>2
  <2>2. CASE mode # "lockfree" /\ CountersNext
    <3>1. IInv
      BY <2>2
    <3>2. IInv'
      BY <2>2, <3>1, RecordInv, SnapshotInv DEF CountersNext
    <3>3. [Board!BoardNext]_(Board!boardVars)
      BY <2>2, <3>1, RecordImplements, SnapshotImplements DEF CountersNext
    <3> QED
      BY <3>2, <3>3
  <2> QED
    BY <2>1, <2>2 DEF ManagerNext, InLockFree, allVars
<1> HIDE DEF Inv
<1> QED
  BY <1>1, <1>2, PTL DEF ManagerSpec, RefinesBoard, Board!BoardSpec

===============================================================================
