-------------------------- MODULE EventExporter_proofs --------------------------
(***************************************************************************)
(* Proofs about the event file, for any threads, queue capacity and number *)
(* of events.                                                              *)
(***************************************************************************)
EXTENDS EventExporter, SequenceTheorems, TLAPS

(* What main, the ends of threads and the exporter leave alone.              *)
LEMMA MainFrame == Main => UNCHANGED <<recorded, queue, written>>
BY DEF Main, StartExporter, MakeLogDir, SpawnThreads, Complete, exportVars

LEMMA ExporterFrame == Exporter => UNCHANGED <<logDir, mPc, recorded, active>>
BY DEF Exporter, CreateFile, PopEvent, FoundEmpty, WakeUp

(* The event a thread records next.                                          *)
NextEvent(p) == [by |-> p, n |-> recorded[p] + 1]

LEMMA NextEventType ==
  ASSUME TypeOK, NEW p \in Producers, Record(p)
  PROVE  NextEvent(p) \in Event
<1>1. recorded[p] \in 0..MaxEvents /\ recorded[p] < MaxEvents
  BY DEF TypeOK, Record
<1>2. recorded[p] + 1 \in 1..MaxEvents
  BY <1>1, ExporterAssumption
<1> QED
  BY <1>2 DEF NextEvent, Event

(* Every reachable state is well typed and the queue keeps its capacity.     *)
THEOREM TypeCorrect == Spec => []TypeOK
<1> USE ExporterAssumption
<1>1. Init => TypeOK
  <2> SUFFICES ASSUME Init PROVE TypeOK
    OBVIOUS
  <2>1. <<>> \in Seq(Event) /\ Len(<<>>) <= Capacity
    OBVIOUS
  <2>2. recorded \in [Producers -> 0..MaxEvents]
    BY DEF Init
  <2> QED
    BY <2>1, <2>2 DEF Init, TypeOK
<1>2. TypeOK /\ [Next]_vars => TypeOK'
  <2> SUFFICES ASSUME TypeOK, [Next]_vars PROVE TypeOK'
    OBVIOUS
  <2>1. CASE Main
    <3>1. UNCHANGED <<recorded, queue, written>>
      BY <2>1, MainFrame
    <3>2. /\ logDir' \in BOOLEAN /\ active' \subseteq Producers
          /\ mPc' \in {"startExporter", "makeDir", "spawn", "running", "completed",
                       "abandoned"}
          /\ xPc' \in {"none", "create", "pop", "asleep", "done", "failed"}
          /\ flushed' \in BOOLEAN
      BY <2>1 DEF TypeOK, Main, StartExporter, MakeLogDir, SpawnThreads, Complete,
         exportVars
    <3> QED
      BY <3>1, <3>2 DEF TypeOK
  <2>2. ASSUME NEW p \in Producers, Record(p) PROVE TypeOK'
    <3>1. NextEvent(p) \in Event
      BY <2>2, NextEventType
    <3>2. queue' = IF Len(queue) < Capacity THEN Append(queue, NextEvent(p)) ELSE queue
      BY <2>2 DEF Record, Enqueue, NextEvent
    <3>3. queue' \in Seq(Event) /\ Len(queue') <= Capacity
      BY <3>1, <3>2, AppendProperties DEF TypeOK
    <3>4. recorded' \in [Producers -> 0..MaxEvents]
      BY <2>2 DEF TypeOK, Record
    <3> QED
      BY <2>2, <3>3, <3>4 DEF TypeOK, Record, exportVars
  <2>3. ASSUME NEW p \in Producers, ThreadEnds(p) PROVE TypeOK'
    BY <2>3 DEF TypeOK, ThreadEnds, exportVars
  <2>4. CASE PopEvent
    <3>1. /\ Head(queue) \in Event /\ Tail(queue) \in Seq(Event)
          /\ Len(Tail(queue)) = Len(queue) - 1
      BY <2>4, HeadTailProperties DEF TypeOK, PopEvent
    <3>2. queue' \in Seq(Event) /\ Len(queue') <= Capacity /\ written' \in Seq(Event)
      BY <2>4, <3>1, LenProperties DEF TypeOK, PopEvent
    <3> QED
      BY <2>4, <3>2 DEF TypeOK, PopEvent
  <2>5. CASE CreateFile \/ FoundEmpty \/ WakeUp
    BY <2>5 DEF TypeOK, CreateFile, FoundEmpty, WakeUp
  <2>6. CASE UNCHANGED vars
    BY <2>6 DEF TypeOK, vars, exportVars
  <2> QED
    BY <2>1, <2>2, <2>3, <2>4, <2>5, <2>6 DEF Next, Exporter
<1> QED
  BY <1>1, <1>2, PTL DEF Spec

-------------------------------------------------------------------------------
(* The log is a sequence of events.                                          *)
LEMMA LogType == ASSUME TypeOK PROVE Log \in Seq(Event)
BY ConcatProperties DEF TypeOK, Log

(* Popping moves the oldest queued event to the file and keeps the log.      *)
LEMMA PopKeepsLog == ASSUME TypeOK, PopEvent PROVE Log' = Log
<1>1. /\ written \in Seq(Event) /\ queue \in Seq(Event) /\ queue # <<>>
      /\ written' = Append(written, Head(queue)) /\ queue' = Tail(queue)
  BY DEF PopEvent, TypeOK
<1>2. Head(queue) \in Event /\ Tail(queue) \in Seq(Event)
  BY <1>1, HeadTailProperties
<1>3. /\ <<Head(queue)>> \in Seq(Event)
      /\ Append(written, Head(queue)) = written \o <<Head(queue)>>
  BY <1>1, <1>2
<1>4. <<Head(queue)>> \o Tail(queue) = queue
  BY <1>1, <1>2
<1>5. (written \o <<Head(queue)>>) \o Tail(queue) = written \o queue
  BY <1>1, <1>2, <1>3, <1>4, ConcatAssociative
<1> QED
  BY <1>1, <1>3, <1>5 DEF Log

(* A recorded event is the last of the log, or it is lost.                   *)
LEMMA RecordExtendsLog ==
  ASSUME TypeOK, NEW p \in Producers, Record(p)
  PROVE  Log' = Append(Log, NextEvent(p)) \/ Log' = Log
<1> DEFINE e == NextEvent(p)
<1>1. e \in Event /\ written' = written
  BY NextEventType DEF Record, exportVars
<1>2. CASE Len(queue) < Capacity
  <2>1. /\ written \in Seq(Event) /\ queue \in Seq(Event) /\ <<e>> \in Seq(Event)
        /\ queue' = Append(queue, e)
    BY <1>1, <1>2 DEF TypeOK, Record, Enqueue, NextEvent
  <2>2. /\ Append(queue, e) = queue \o <<e>>
        /\ Append(written \o queue, e) = (written \o queue) \o <<e>>
    BY <1>1, <2>1, ConcatProperties
  <2>3. (written \o queue) \o <<e>> = written \o (queue \o <<e>>)
    BY <2>1, ConcatAssociative
  <2> QED
    BY <1>1, <2>1, <2>2, <2>3 DEF Log
<1>3. CASE ~(Len(queue) < Capacity)
  BY <1>1, <1>3 DEF Record, Enqueue, Log
<1> QED
  BY <1>2, <1>3

(* Each thread's events get into the file in the order of recording and      *)
(* once, whatever a full queue loses in between: the number of a new event   *)
(* is above all its thread has recorded.                                     *)
THEOREM EventsInOrder == Spec => []FileInOrder
<1>1. Init => FileInOrder
  <2> SUFFICES ASSUME Init PROVE FileInOrder
    OBVIOUS
  <2>1. Log = <<>> /\ DOMAIN Log = {}
    BY DEF Init, Log
  <2> QED
    BY <2>1 DEF FileInOrder
<1>2. TypeOK /\ FileInOrder /\ [Next]_vars => FileInOrder'
  <2> SUFFICES ASSUME TypeOK, FileInOrder, [Next]_vars PROVE FileInOrder'
    OBVIOUS
  <2>1. /\ Log \in Seq(Event) /\ recorded \in [Producers -> 0..MaxEvents]
        /\ \A i \in DOMAIN Log : Log[i].by \in Producers /\ Log[i].n \in Nat
    <3>1. Log \in Seq(Event) /\ recorded \in [Producers -> 0..MaxEvents]
      BY LogType DEF TypeOK
    <3>2. \A i \in DOMAIN Log : Log[i] \in Event
      BY <3>1
    <3>3. 1..MaxEvents \subseteq Nat
      BY ExporterAssumption
    <3> QED
      BY <3>1, <3>2, <3>3 DEF Event
  <2>2. ASSUME Log' = Log, recorded' = recorded PROVE FileInOrder'
    BY <2>2 DEF FileInOrder
  <2>3. ASSUME NEW p \in Producers, Record(p) PROVE FileInOrder'
    <3> DEFINE e == NextEvent(p)
               n == Len(Log)
    <3>1. \A q \in Producers : /\ recorded[q] \in Nat /\ recorded'[q] \in Nat
                               /\ recorded[q] <= recorded'[q]
      <4>1. \A q \in Producers :
              recorded'[q] = IF q = p THEN recorded[p] + 1 ELSE recorded[q]
        BY <2>1, <2>3 DEF Record
      <4>2. \A q \in Producers : recorded[q] \in Nat
        BY <2>1, ExporterAssumption
      <4> QED
        BY <4>1, <4>2
    <3>2. recorded'[p] = recorded[p] + 1
      BY <2>1, <2>3 DEF Record
    <3>3. \A i \in DOMAIN Log : Log[i].n <= recorded'[Log[i].by]
      BY <2>1, <3>1 DEF FileInOrder
    <3>4. CASE Log' = Log
      BY <3>3, <3>4 DEF FileInOrder
    <3>5. CASE Log' = Append(Log, e)
      <4>1. /\ n \in Nat /\ DOMAIN Log = 1..n /\ DOMAIN Log' = 1..(n + 1)
            /\ \A i \in 1..n : Log'[i] = Log[i]
            /\ Log'[n + 1] = e
        BY <2>1, <3>5
      <4>2. e.by = p /\ e.n = recorded[p] + 1
        BY DEF NextEvent
      <4>3. \A i \in 1..n : Log[i].by = p => Log[i].n < e.n
        BY <2>1, <3>1, <4>1, <4>2 DEF FileInOrder
      <4>4. \A i \in DOMAIN Log' : Log'[i].n <= recorded'[Log'[i].by]
        <5> SUFFICES ASSUME NEW i \in 1..(n + 1)
                     PROVE  Log'[i].n <= recorded'[Log'[i].by]
          BY <4>1
        <5>1. CASE i = n + 1
          BY <3>1, <3>2, <4>1, <4>2, <5>1
        <5>2. CASE i \in 1..n
          BY <3>3, <4>1, <5>2
        <5> QED
          BY <4>1, <5>1, <5>2
      <4>5. \A i, j \in DOMAIN Log' :
              i < j /\ Log'[i].by = Log'[j].by => Log'[i].n < Log'[j].n
        <5> SUFFICES ASSUME NEW i \in 1..(n + 1), NEW j \in 1..(n + 1), i < j,
                            Log'[i].by = Log'[j].by
                     PROVE  Log'[i].n < Log'[j].n
          BY <4>1
        <5>1. i \in 1..n
          BY <4>1
        <5>2. CASE j = n + 1
          BY <4>1, <4>2, <4>3, <5>1, <5>2
        <5>3. CASE j \in 1..n
          BY <4>1, <5>1, <5>3 DEF FileInOrder
        <5> QED
          BY <4>1, <5>2, <5>3
      <4> QED
        BY <4>4, <4>5 DEF FileInOrder
    <3> QED
      BY <2>3, <3>4, <3>5, RecordExtendsLog
  <2>4. CASE Main
    BY <2>2, <2>4, MainFrame DEF Log
  <2>5. CASE Exporter
    <3>1. Log' = Log
      BY <2>5, PopKeepsLog DEF Exporter, CreateFile, FoundEmpty, WakeUp, Log
    <3> QED
      BY <2>2, <2>5, <3>1, ExporterFrame
  <2>6. ASSUME NEW p \in Producers, ThreadEnds(p) PROVE FileInOrder'
    BY <2>2, <2>6 DEF ThreadEnds, exportVars, Log
  <2>7. CASE UNCHANGED vars
    BY <2>2, <2>7 DEF vars, exportVars, Log
  <2> QED
    BY <2>3, <2>4, <2>5, <2>6, <2>7 DEF Next
<1> QED
  BY <1>1, <1>2, TypeCorrect, PTL DEF Spec

================================================================================
