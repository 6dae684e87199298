--------------------------- MODULE Acquisition_proofs ---------------------------
(***************************************************************************)
(* Theorems about Acquisition, for any sensors, period, capacities and     *)
(* readings.                                                               *)
(***************************************************************************)
EXTENDS Acquisition, SensorLines_proofs

-------------------------------------------------------------------------------
(* Windows and series *)

(* Length and entries of the latest n values of q. *)
LEMMA LatestOfFacts ==
  ASSUME NEW S, NEW q \in Seq(S), NEW n \in Nat \ {0}
  PROVE  /\ LatestOf(q, n) \in Seq(S)
         /\ Len(LatestOf(q, n)) = IF Len(q) > n THEN n ELSE Len(q)
         /\ \A i \in 1..Len(LatestOf(q, n)) :
              LatestOf(q, n)[i] = IF Len(q) > n THEN q[Len(q) - n + i] ELSE q[i]
<1>1. Len(q) \in Nat
  OBVIOUS
<1>2. CASE Len(q) > n
  <2>1. LatestOf(q, n) = SubSeq(q, Len(q) - n + 1, Len(q))
    BY <1>2 DEF LatestOf
  <2> QED
    BY <1>1, <1>2, <2>1
<1>3. CASE ~(Len(q) > n)
  <2>1. LatestOf(q, n) = SubSeq(q, 1, Len(q))
    BY <1>3 DEF LatestOf
  <2> QED
    BY <1>1, <1>3, <2>1
<1> QED
  BY <1>2, <1>3

(* Two sequences of the same length with the same entries are equal. *)
LEMMA SameSequence ==
  ASSUME NEW S, NEW p \in Seq(S), NEW q \in Seq(S), Len(p) = Len(q),
         \A i \in 1..Len(p) : p[i] = q[i]
  PROVE  p = q
  OBVIOUS

(* A push keeps the latest values if the buffer held the latest before. *)
LEMMA PushKeepsLatest ==
  ASSUME NEW S, NEW q \in Seq(S), NEW v \in S, NEW n \in Nat \ {0}
  PROVE  PushCapped(LatestOf(q, n), v, n) = LatestOf(Append(q, v), n)
<1> DEFINE longer == Append(q, v)
           old    == LatestOf(q, n)
           new    == LatestOf(longer, n)
<1>1. Len(q) \in Nat /\ longer \in Seq(S) /\ Len(longer) = Len(q) + 1
      /\ \A i \in 1..Len(q) + 1 : longer[i] = IF i = Len(q) + 1 THEN v ELSE q[i]
  OBVIOUS
<1>2. /\ old \in Seq(S) /\ Len(old) = IF Len(q) > n THEN n ELSE Len(q)
      /\ \A i \in 1..Len(old) : old[i] = IF Len(q) > n THEN q[Len(q) - n + i] ELSE q[i]
  BY LatestOfFacts
<1> HIDE DEF longer
<1>3. /\ new \in Seq(S) /\ Len(new) = IF Len(longer) > n THEN n ELSE Len(longer)
      /\ \A i \in 1..Len(new) :
           new[i] = IF Len(longer) > n THEN longer[Len(longer) - n + i] ELSE longer[i]
  BY <1>1, LatestOfFacts
<1> HIDE DEF old, new
<1>4. CASE Len(q) >= n
  <2>1. Len(old) = n
    BY <1>1, <1>2, <1>4
  <2> DEFINE pushed1 == Append(Tail(old), v)
  <2>3. Tail(old) \in Seq(S) /\ Len(Tail(old)) = n - 1
        /\ \A i \in 1..n - 1 : Tail(old)[i] = old[i + 1]
    BY <1>2, <2>1
  <2>4. Len(pushed1) = n /\ pushed1 \in Seq(S)
        /\ \A i \in 1..n : pushed1[i] = IF i = n THEN v ELSE old[i + 1]
    BY <2>3
  <2>5. Len(new) = n
    BY <1>1, <1>3, <1>4
  <2> HIDE DEF pushed1
  <2>8. ASSUME NEW i \in 1..n PROVE pushed1[i] = new[i]
    <3>1. new[i] = longer[Len(q) + 1 - n + i]
      BY <1>1, <1>3, <1>4, <2>5
    <3>2. CASE i = n
      <4>1. Len(q) + 1 - n + i = Len(q) + 1
        BY <1>1, <3>2
      <4> QED
        BY <1>1, <2>4, <3>1, <3>2, <4>1
    <3>3. CASE i # n
      <4>1. i + 1 \in 1..n /\ Len(q) + 1 - n + i \in 1..Len(q)
        BY <1>1, <1>4, <3>3
      <4>2. longer[Len(q) + 1 - n + i] = q[Len(q) + 1 - n + i]
        BY <1>1, <4>1
      <4>3. old[i + 1] = q[Len(q) + 1 - n + i]
        <5>1. CASE Len(q) > n
          <6>1. old[i + 1] = q[Len(q) - n + (i + 1)]
            BY <1>2, <2>1, <4>1, <5>1
          <6>2. Len(q) - n + (i + 1) = Len(q) + 1 - n + i
            BY <1>1
          <6> QED
            BY <6>1, <6>2
        <5>2. CASE Len(q) = n
          <6>1. old[i + 1] = q[i + 1] /\ Len(q) + 1 - n + i = i + 1
            BY <1>1, <1>2, <2>1, <4>1, <5>2
          <6> QED
            BY <6>1
        <5> QED
          BY <1>1, <1>4, <5>1, <5>2
      <4> QED
        BY <2>4, <3>1, <3>3, <4>2, <4>3
    <3> QED
      BY <3>2, <3>3
  <2>9. pushed1 = new
    BY <1>3, <2>4, <2>5, <2>8, SameSequence
  <2> QED
    BY <2>1, <2>9 DEF pushed1, old, new, longer, PushCapped
<1>5. CASE Len(q) < n
  <2>1. Len(old) = Len(q) /\ \A i \in 1..Len(old) : old[i] = q[i]
    BY <1>1, <1>2, <1>5
  <2>2. old = q
    BY <1>2, <2>1, SameSequence
  <2>3. Len(new) = Len(longer) /\ \A i \in 1..Len(new) : new[i] = longer[i]
    BY <1>1, <1>3, <1>5
  <2>4. new = longer
    BY <1>1, <1>3, <2>3, SameSequence
  <2>5. Len(old) < n
    BY <1>5, <2>1
  <2> QED
    BY <1>1, <2>2, <2>4, <2>5 DEF old, new, longer, PushCapped
<1> QED
  BY <1>1, <1>4, <1>5 DEF old, new, longer

(* So does the filter window: it slides as a push into a buffer of its size. *)
LEMMA SlideIsPush ==
  ASSUME NEW S, NEW buf \in Seq(S), NEW reading \in S, Len(buf) <= Window
  PROVE  Slide(buf, reading) = PushCapped(buf, reading, Window)
<1>1. Window \in Nat \ {0}
  BY FilterAssumption
<1>2. Len(Append(buf, reading)) = Len(buf) + 1 /\ Len(buf) \in Nat
  OBVIOUS
<1>3. CASE Len(buf) >= Window
  <2>1. buf # <<>>
    BY <1>1, <1>3
  <2>2. Tail(Append(buf, reading)) = Append(Tail(buf), reading)
    BY <2>1
  <2> QED
    BY <1>1, <1>2, <1>3, <2>2 DEF Slide, PushCapped
<1>4. CASE ~(Len(buf) >= Window)
  BY <1>1, <1>2, <1>4 DEF Slide, PushCapped
<1> QED
  BY <1>3, <1>4

-------------------------------------------------------------------------------
(* Types *)

(* TypeOK in four parts. *)
SensorTypes ==
  /\ sPc \in [Sensors -> {"start", "check", "asleep", "awake", "send", "store"}]
  /\ seq \in [Sensors -> Nat \ {0}]
  /\ nextDeadline \in [Sensors -> Nat] /\ lastTick \in [Sensors -> Nat]
  /\ jitter \in [Sensors -> Nat] /\ sent \in [Sensors -> BOOLEAN]
  /\ lateBefore \in [Sensors -> Nat] /\ late \in [Sensors -> Nat]
  /\ missed \in [Sensors -> BOOLEAN]

ChannelTypes == chan \in Seq(Sample) /\ Len(chan) <= ChanCap

ProcTypes ==
  /\ now \in Nat
  /\ pPc \in {"recv", "work"} /\ held \in Seq(Sample)
  /\ cycleStart \in 0..now
  /\ lastTs \in [Sensors -> Nat \cup {never}] /\ reported \in Nat
  /\ received \in [Sensors -> Seq(Nat)]

StoreTypes ==
  /\ buffers \in [Sensors -> Seq(Int)] /\ readings \in [Sensors -> Seq(Int)]
  /\ series \in [Sensors -> Seq(Value)] /\ pushed \in [Sensors -> Seq(Value)]
  /\ metrics \in MetricsRecord

(* The four parts are all of TypeOK. *)
LEMMA TypeParts ==
  TypeOK <=> SensorTypes /\ ChannelTypes /\ ProcTypes /\ StoreTypes
  BY DEF TypeOK, SensorTypes, ChannelTypes, ProcTypes, StoreTypes

(* Only an awake sensor is released without a look at the clock: its deadline *)
(* has passed already.                                                        *)
AwakeInv == \A s \in Sensors : sPc[s] = "awake" => now >= nextDeadline[s]

TypeInv == SensorTypes /\ ChannelTypes /\ ProcTypes /\ StoreTypes /\ AwakeInv

(* A counted cycle and a recorded miss leave a record of counters. *)
LEMMA MetricsTypes ==
  ASSUME NEW m \in MetricsRecord
  PROVE  /\ [m EXCEPT !.total_cycles = @ + 1] \in MetricsRecord
         /\ \A c \in Component : RecordMiss(m, c) \in MetricsRecord
<1>1. /\ m = [miss |-> m.miss, deadline_miss |-> m.deadline_miss,
              total_cycles |-> m.total_cycles]
      /\ m.miss \in [Component -> Nat]
      /\ m.deadline_miss \in Nat /\ m.total_cycles \in Nat
  BY DEF MetricsRecord
<1>2. [m EXCEPT !.total_cycles = @ + 1]
      = [miss |-> m.miss, deadline_miss |-> m.deadline_miss,
         total_cycles |-> m.total_cycles + 1]
  BY <1>1
<1>3. ASSUME NEW c \in Component PROVE RecordMiss(m, c) \in MetricsRecord
  <2> DEFINE counted == [m EXCEPT !.miss = [m.miss EXCEPT ![c] = @ + 1]]
  <2>1. [m.miss EXCEPT ![c] = @ + 1] \in [Component -> Nat]
    BY <1>1
  <2>2. counted \in MetricsRecord /\ counted.deadline_miss = m.deadline_miss
    BY <1>1, <2>1 DEF MetricsRecord
  <2>3. RecordMiss(m, c) = [counted EXCEPT !.deadline_miss = @ + 1]
    BY DEF RecordMiss, MetricsRecord
  <2> HIDE DEF counted
  <2> QED
    BY <1>1, <2>2, <2>3 DEF MetricsRecord
<1> QED
  BY <1>1, <1>2, <1>3 DEF MetricsRecord

(* A push keeps the type of a buffer. *)
LEMMA PushType ==
  ASSUME NEW S, NEW buf \in Seq(S), NEW v \in S, NEW cap \in Nat \ {0}
  PROVE  PushCapped(buf, v, cap) \in Seq(S)
<1>1. CASE Len(buf) >= cap
  <2>1. Tail(buf) \in Seq(S)
    BY <1>1
  <2> QED
    BY <1>1, <2>1 DEF PushCapped
<1>2. CASE ~(Len(buf) >= cap)
  BY <1>2 DEF PushCapped
<1> QED
  BY <1>1, <1>2

(* A slide keeps the type of a window. *)
LEMMA SlideType ==
  ASSUME NEW buf \in Seq(Int), NEW reading \in Int
  PROVE  Slide(buf, reading) \in Seq(Int)
  BY FilterAssumption DEF Slide

(* The initial states are well typed. *)
LEMMA InitType == Init => TypeInv
<1> SUFFICES ASSUME Init PROVE TypeInv
  OBVIOUS
<1>1. SensorTypes /\ AwakeInv
  BY AcquisitionAssumption DEF Init, SensorTypes, AwakeInv
<1>2. ChannelTypes
  BY AcquisitionAssumption DEF Init, ChannelTypes
<1>3. ProcTypes
  BY DEF Init, ProcTypes, never
<1>4. metrics \in MetricsRecord
  BY DEF Init, DefaultMetrics, MetricsRecord
<1>5. StoreTypes
  BY <1>4 DEF Init, StoreTypes
<1> QED
  BY <1>1, <1>2, <1>3, <1>5 DEF TypeInv

(* A push into a series keeps the types of the series and of the history. *)
LEMMA PushValueType ==
  ASSUME StoreTypes, NEW s \in Sensors, NEW value \in Value, PushValue(s, value)
  PROVE  /\ series' \in [Sensors -> Seq(Value)]
         /\ pushed' \in [Sensors -> Seq(Value)]
<1>1. PushCapped(series[s], value, MaxPoints) \in Seq(Value)
  BY PushType, AcquisitionAssumption DEF StoreTypes
<1>2. Append(pushed[s], value) \in Seq(Value)
  BY DEF StoreTypes
<1> QED
  BY <1>1, <1>2 DEF StoreTypes, PushValue

(* What the receipt of a sample does, with a name for the sample and one for *)
(* its reading.                                                              *)
ReceiveSample(data, reading) ==
  /\ held' = <<data>>
  /\ reported' = IF lastTs[data.src] = never THEN 0
                 ELSE Abs((data.ts - lastTs[data.src]) - Period)
  /\ lastTs' = [lastTs EXCEPT ![data.src] = data.ts]
  /\ buffers' = [buffers EXCEPT ![data.src] = Slide(@, reading)]
  /\ readings' = [readings EXCEPT ![data.src] = Append(@, reading)]
  /\ received' = [received EXCEPT ![data.src] = Append(@, data.seq)]
  /\ PushValue(data.src, [kind |-> "avg", seq |-> data.seq])
  /\ chan' = Tail(chan)
  /\ cycleStart' = now /\ pPc' = "work"
  /\ UNCHANGED <<now, sensorVars, metrics, releaseVars>>

(* A receipt takes the first sample of the channel and gives it a reading. *)
LEMMA ReceiveNamed ==
  ASSUME TypeInv, Receive
  PROVE  \E data \in Sample, reading \in Readings :
           /\ chan # <<>> /\ data = Head(chan) /\ data = chan[1]
           /\ data.src \in Sensors /\ data.seq \in Nat /\ data.ts \in Nat
           /\ data.jitter \in Nat
           /\ ReceiveSample(data, reading)
<1> DEFINE data == Head(chan)
<1>1. chan # <<>> /\ data \in Sample /\ data = chan[1]
  BY DEF Receive, TypeInv, ChannelTypes
<1>2. data.src \in Sensors /\ data.seq \in Nat /\ data.ts \in Nat /\ data.jitter \in Nat
  BY <1>1 DEF Sample
<1>3. PICK reading \in Readings : ReceiveSample(data, reading)
  BY DEF Receive, ReceiveSample
<1> QED
  BY <1>1, <1>2, <1>3

(* Every step keeps the types. *)
LEMMA TypeStep == TypeInv /\ [Next]_vars => TypeInv'
<1> SUFFICES ASSUME TypeInv, [Next]_vars PROVE TypeInv'
  OBVIOUS
<1> USE AcquisitionAssumption, FilterAssumption
<1>t. SensorTypes /\ ChannelTypes /\ ProcTypes /\ StoreTypes /\ AwakeInv
  BY DEF TypeInv
<1>1. CASE Tick
  <2>5. SensorTypes' /\ AwakeInv'
    BY <1>t, <1>1 DEF SensorTypes, ProcTypes, AwakeInv, Tick, sensorVars, procVars, releaseVars
  <2>6. ChannelTypes'
    BY <1>t, <1>1 DEF ChannelTypes, Tick, sensorVars, procVars, releaseVars
  <2>7. ProcTypes'
    BY <1>t, <1>1 DEF ProcTypes, Tick, sensorVars, procVars, releaseVars
  <2>8. StoreTypes'
    BY <1>t, <1>1 DEF StoreTypes, Tick, sensorVars, procVars, releaseVars
  <2> QED
    BY <2>5, <2>6, <2>7, <2>8 DEF TypeInv
<1>2. ASSUME NEW s \in Sensors, Start(s) PROVE TypeInv'
  <2>5. SensorTypes' /\ AwakeInv'
    BY <1>t, <1>2 DEF SensorTypes, ProcTypes, AwakeInv, Start, sensorVars, procVars, releaseVars
  <2>6. ChannelTypes'
    BY <1>t, <1>2 DEF ChannelTypes, Start, sensorVars, procVars, releaseVars
  <2>7. ProcTypes'
    BY <1>t, <1>2 DEF ProcTypes, Start, sensorVars, procVars, releaseVars
  <2>8. StoreTypes'
    BY <1>t, <1>2 DEF StoreTypes, Start, sensorVars, procVars, releaseVars
  <2> QED
    BY <2>5, <2>6, <2>7, <2>8 DEF TypeInv
<1>3. ASSUME NEW s \in Sensors, CheckDeadline(s) PROVE TypeInv'
  <2>1. metrics' \in MetricsRecord
    BY <1>t, <1>3, MetricsTypes DEF StoreTypes, CheckDeadline, Component
  <2>5. SensorTypes' /\ AwakeInv'
    BY <1>t, <1>3 DEF SensorTypes, ProcTypes, AwakeInv, CheckDeadline, DeadlinePassed, sensorVars, procVars, releaseVars
  <2>6. ChannelTypes'
    BY <1>t, <1>3 DEF ChannelTypes, CheckDeadline, sensorVars, procVars, releaseVars
  <2>7. ProcTypes'
    BY <1>t, <1>3 DEF ProcTypes, CheckDeadline, sensorVars, procVars, releaseVars
  <2>8. StoreTypes'
    BY <1>t, <1>3, <2>1 DEF StoreTypes, CheckDeadline, sensorVars, procVars, releaseVars
  <2> QED
    BY <2>5, <2>6, <2>7, <2>8 DEF TypeInv
<1>4. ASSUME NEW s \in Sensors, Release(s) PROVE TypeInv'
  <2>1. now - nextDeadline[s] \in Nat
    BY <1>t, <1>4 DEF SensorTypes, ProcTypes, AwakeInv, Release
  <2>2. Abs((now - lastTick[s]) - Period) \in Nat
    <3>1. now \in Nat /\ lastTick[s] \in Nat
      BY <1>t DEF SensorTypes, ProcTypes
    <3> QED
      BY <3>1 DEF Abs
  <2>5. SensorTypes' /\ AwakeInv'
    BY <1>t, <1>4, <2>1, <2>2 DEF SensorTypes, ProcTypes, AwakeInv, Release, sensorVars, procVars, releaseVars
  <2>6. ChannelTypes'
    BY <1>t, <1>4 DEF ChannelTypes, Release, sensorVars, procVars, releaseVars
  <2>7. ProcTypes'
    BY <1>t, <1>4 DEF ProcTypes, Release, sensorVars, procVars, releaseVars
  <2>8. StoreTypes'
    BY <1>t, <1>4 DEF StoreTypes, Release, sensorVars, procVars, releaseVars
  <2> QED
    BY <2>5, <2>6, <2>7, <2>8 DEF TypeInv
<1>5. ASSUME NEW s \in Sensors, Send(s) PROVE TypeInv'
  <2> DEFINE new == [src |-> s, seq |-> seq[s], ts |-> lastTick[s], jitter |-> jitter[s]]
  <2>1. new \in Sample
    BY <1>t DEF SensorTypes, Sample
  <2>2. chan' = IF ChannelTakes THEN Append(chan, new) ELSE chan
    BY <1>5 DEF Send
  <2> HIDE DEF new
  <2>5. SensorTypes' /\ AwakeInv'
    BY <1>t, <1>5, SMTT(30) DEF SensorTypes, ProcTypes, AwakeInv, Send, ChannelTakes, sensorVars, procVars, releaseVars
  <2>6. ChannelTypes'
    BY <1>t, <2>1, <2>2 DEF ChannelTypes, ChannelTakes
  <2>7. ProcTypes'
    BY <1>t, <1>5 DEF ProcTypes, Send, sensorVars, procVars, releaseVars
  <2>8. StoreTypes'
    BY <1>t, <1>5 DEF StoreTypes, Send, sensorVars, procVars, releaseVars
  <2> QED
    BY <2>5, <2>6, <2>7, <2>8 DEF TypeInv
<1>6. ASSUME NEW s \in Sensors, FinishLoop(s) PROVE TypeInv'
  <2>1. StoreAndSchedule(s, nextDeadline[s] + Period)
    BY <1>6 DEF FinishLoop
  <2>2. series' \in [Sensors -> Seq(Value)] /\ pushed' \in [Sensors -> Seq(Value)]
    <3>1. CASE sent[s]
      <4>1. PushValue(s, [kind |-> "raw", seq |-> seq[s]])
        BY <2>1, <3>1 DEF StoreAndSchedule
      <4>2. [kind |-> "raw", seq |-> seq[s]] \in Value
        BY <1>t DEF SensorTypes, Value
      <4> QED
        BY <1>t, <4>1, <4>2, PushValueType
    <3>2. CASE ~sent[s]
      BY <1>t, <2>1, <3>2 DEF StoreAndSchedule, StoreTypes
    <3> QED
      BY <3>1, <3>2
  <2>5. SensorTypes' /\ AwakeInv'
    <3>1. /\ seq' = [seq EXCEPT ![s] = @ + 1]
          /\ jitter' = [jitter EXCEPT ![s] = 0] /\ sent' = [sent EXCEPT ![s] = FALSE]
          /\ lateBefore' = [lateBefore EXCEPT ![s] = 0]
          /\ missed' = [missed EXCEPT ![s] = FALSE]
          /\ sPc' = [sPc EXCEPT ![s] = "check"]
          /\ nextDeadline' = [nextDeadline EXCEPT ![s] = nextDeadline[s] + Period]
          /\ UNCHANGED <<now, lastTick, late>>
      BY <2>1 DEF StoreAndSchedule, EndIteration
    <3>2. seq' \in [Sensors -> Nat \ {0}] /\ nextDeadline' \in [Sensors -> Nat]
      BY <1>t, <3>1 DEF SensorTypes
    <3>3. sPc' \in [Sensors -> {"start", "check", "asleep", "awake", "send", "store"}]
      BY <1>t, <3>1 DEF SensorTypes
    <3>4. /\ jitter' \in [Sensors -> Nat] /\ sent' \in [Sensors -> BOOLEAN]
          /\ lateBefore' \in [Sensors -> Nat] /\ missed' \in [Sensors -> BOOLEAN]
      BY <1>t, <3>1 DEF SensorTypes
    <3>5. AwakeInv'
      BY <1>t, <3>1 DEF SensorTypes, AwakeInv
    <3> QED
      BY <1>t, <3>1, <3>2, <3>3, <3>4, <3>5 DEF SensorTypes
  <2>6. ChannelTypes'
    BY <1>t, <2>1 DEF ChannelTypes, StoreAndSchedule, EndIteration, sensorVars, procVars, releaseVars
  <2>7. ProcTypes'
    BY <1>t, <2>1 DEF ProcTypes, StoreAndSchedule, EndIteration, sensorVars, procVars, releaseVars
  <2>8. StoreTypes'
    BY <1>t, <2>1, <2>2 DEF StoreTypes, StoreAndSchedule, EndIteration, sensorVars, procVars, releaseVars
  <2> QED
    BY <2>5, <2>6, <2>7, <2>8 DEF TypeInv
<1>7. CASE Receive
  <2>1. PICK data \in Sample, reading \in Readings :
          /\ chan # <<>> /\ data = Head(chan) /\ data = chan[1]
          /\ data.src \in Sensors /\ data.seq \in Nat /\ data.ts \in Nat
          /\ data.jitter \in Nat
          /\ ReceiveSample(data, reading)
    BY <1>7, ReceiveNamed
  <2>5. SensorTypes' /\ AwakeInv'
    BY <1>t, <2>1 DEF SensorTypes, AwakeInv, ReceiveSample, sensorVars, releaseVars
  <2>6. ChannelTypes'
    <3>1. chan' = Tail(chan)
      BY <2>1 DEF ReceiveSample
    <3> QED
      BY <1>t, <2>1, <3>1 DEF ChannelTypes
  <2>7. ProcTypes'
    <3>1. reported' \in Nat
      <4>1. lastTs[data.src] # never => lastTs[data.src] \in Nat
        BY <1>t, <2>1 DEF ProcTypes
      <4>2. reported' = IF lastTs[data.src] = never THEN 0
                       ELSE Abs((data.ts - lastTs[data.src]) - Period)
        BY <2>1 DEF ReceiveSample
      <4> QED
        BY <2>1, <4>1, <4>2, SMTT(30) DEF Abs
    <3>2. held' \in Seq(Sample)
      BY <2>1 DEF ReceiveSample
    <3>3. lastTs' \in [Sensors -> Nat \cup {never}]
      BY <1>t, <2>1 DEF ProcTypes, ReceiveSample
    <3>4. received' \in [Sensors -> Seq(Nat)]
      BY <1>t, <2>1 DEF ProcTypes, ReceiveSample
    <3>5. now' \in Nat /\ pPc' \in {"recv", "work"} /\ cycleStart' \in 0..now'
      BY <1>t, <2>1 DEF ProcTypes, ReceiveSample
    <3> QED
      BY <3>1, <3>2, <3>3, <3>4, <3>5 DEF ProcTypes
  <2>8. StoreTypes'
    <3>1. [kind |-> "avg", seq |-> data.seq] \in Value
      BY <2>1 DEF Value
    <3>2. series' \in [Sensors -> Seq(Value)] /\ pushed' \in [Sensors -> Seq(Value)]
      BY <1>t, <2>1, <3>1, PushValueType DEF ReceiveSample
    <3>3. reading \in Int
      OBVIOUS
    <3>4. Slide(buffers[data.src], reading) \in Seq(Int)
      BY <1>t, <2>1, <3>3, SlideType DEF StoreTypes
    <3>5. Append(readings[data.src], reading) \in Seq(Int)
      BY <1>t, <2>1, <3>3 DEF StoreTypes
    <3>6. metrics' \in MetricsRecord
      BY <1>t, <2>1 DEF StoreTypes, ReceiveSample
    <3> QED
      BY <1>t, <2>1, <3>2, <3>4, <3>5, <3>6 DEF StoreTypes, ReceiveSample
  <2> QED
    BY <2>5, <2>6, <2>7, <2>8 DEF TypeInv
<1>8. CASE FinishCycle
  <2>1. metrics' \in MetricsRecord
    <3>1. [metrics EXCEPT !.total_cycles = @ + 1] \in MetricsRecord
      BY <1>t, MetricsTypes DEF StoreTypes
    <3> QED
      BY <1>8, <3>1, MetricsTypes DEF FinishCycle, Component
  <2>5. SensorTypes' /\ AwakeInv'
    BY <1>t, <1>8 DEF SensorTypes, ProcTypes, AwakeInv, FinishCycle, sensorVars, procVars, releaseVars
  <2>6. ChannelTypes'
    BY <1>t, <1>8 DEF ChannelTypes, FinishCycle, sensorVars, procVars, releaseVars
  <2>7. ProcTypes'
    BY <1>t, <1>8, SMTT(30) DEF ProcTypes, FinishCycle, sensorVars, procVars, releaseVars
  <2>8. StoreTypes'
    BY <1>t, <1>8, <2>1 DEF StoreTypes, FinishCycle, sensorVars, procVars, releaseVars
  <2> QED
    BY <2>5, <2>6, <2>7, <2>8 DEF TypeInv
<1>9. CASE UNCHANGED vars
  <2>5. SensorTypes' /\ AwakeInv'
    BY <1>t, <1>9 DEF SensorTypes, ProcTypes, AwakeInv, vars, sensorVars, procVars, releaseVars
  <2>6. ChannelTypes'
    BY <1>t, <1>9 DEF ChannelTypes, vars, sensorVars, procVars, releaseVars
  <2>7. ProcTypes'
    BY <1>t, <1>9 DEF ProcTypes, vars, sensorVars, procVars, releaseVars
  <2>8. StoreTypes'
    BY <1>t, <1>9 DEF StoreTypes, vars, sensorVars, procVars, releaseVars
  <2> QED
    BY <2>5, <2>6, <2>7, <2>8 DEF TypeInv
<1> QED
  BY <1>1, <1>2, <1>3, <1>4, <1>5, <1>6, <1>7, <1>8, <1>9
  DEF Next, SensorStep, TimeIsUp

(* The states of sensors, processor, channel and Metrics stay within their    *)
(* types; above all, no release comes before its deadline, so its lateness is *)
(* a natural number, and the channel never holds more than it can.            *)
THEOREM TypeCorrect == Spec => []TypeOK
<1>1. Spec => []TypeInv
  BY InitType, TypeStep, PTL DEF Spec
<1>2. TypeInv => TypeOK
  BY TypeParts DEF TypeInv
<1> QED
  BY <1>1, <1>2, PTL

-------------------------------------------------------------------------------
(* The schedule *)

(* Between two releases, the latest release was late[s] after the deadline     *)
(* before the one to come.                                                     *)
Waiting(s) == sPc[s] \in {"start", "check", "asleep", "awake"}

(* The schedule does not drift: the latest release and its lateness determine  *)
(* the deadline.  What a released sensor knows of its two latest releases is   *)
(* what BacklogIsCounted and JitterIsChangeOfLateness say.                     *)
ScheduleOf(s) ==
  /\ lastTick[s] <= now
  /\ sPc[s] = "start" => nextDeadline[s] = Period /\ seq[s] = 1
  /\ Waiting(s) => lastTick[s] + Period = nextDeadline[s] + late[s]
  /\ Released(s) =>
       /\ lastTick[s] = nextDeadline[s] + late[s]
       /\ late[s] >= lateBefore[s] - Period
       /\ lateBefore[s] >= Period => missed[s]
       /\ jitter[s] = Abs(late[s] - lateBefore[s])
  /\ sPc[s] = "asleep" => late[s] < Period
  /\ sPc[s] = "awake" => missed[s] /\ now >= nextDeadline[s]

ScheduleInv == \A s \in Sensors : ScheduleOf(s)

(* The variables of the schedule of one sensor. *)
ScheduleFrame(s) ==
  <<sPc[s], seq[s], nextDeadline[s], lastTick[s], jitter[s], lateBefore[s], late[s],
    missed[s]>>

(* A sensor whose variables stay as they are keeps its schedule, whatever the *)
(* clock does.                                                                *)
LEMMA ScheduleKept ==
  ASSUME ScheduleInv, SensorTypes, NEW s \in Sensors, now \in Nat, now' \in Nat,
         now' >= now, UNCHANGED ScheduleFrame(s)
  PROVE  ScheduleOf(s)'
<1>1. ScheduleOf(s)
  BY DEF ScheduleInv
<1>2. lastTick[s] \in Nat /\ nextDeadline[s] \in Nat
  BY DEF SensorTypes
<1> QED
  BY <1>1, <1>2 DEF ScheduleOf, ScheduleFrame, Waiting, Released

(* A step of one sensor that keeps its own schedule keeps all. *)
LEMMA OneSensor ==
  ASSUME ScheduleInv, TypeInv, NEW s \in Sensors, ScheduleOf(s)', UNCHANGED now,
         \A t \in Sensors \ {s} : UNCHANGED ScheduleFrame(t)
  PROVE  ScheduleInv'
<1>1. ASSUME NEW t \in Sensors, t # s PROVE ScheduleOf(t)'
  BY <1>1, ScheduleKept DEF TypeInv, ProcTypes
<1> QED
  BY <1>1 DEF ScheduleInv

(* Every step keeps the schedule. *)
LEMMA ScheduleStep == TypeInv /\ ScheduleInv /\ [Next]_vars => ScheduleInv'
<1> SUFFICES ASSUME TypeInv, ScheduleInv, [Next]_vars PROVE ScheduleInv'
  OBVIOUS
<1> USE AcquisitionAssumption
<1>t. SensorTypes /\ now \in Nat
  BY DEF TypeInv, ProcTypes
<1>s. ASSUME NEW s \in Sensors
      PROVE  /\ ScheduleOf(s) /\ nextDeadline[s] \in Nat /\ lastTick[s] \in Nat
             /\ late[s] \in Nat /\ lateBefore[s] \in Nat /\ seq[s] \in Nat
  BY <1>t DEF ScheduleInv, SensorTypes
<1>f. ASSUME now' \in Nat, now' >= now,
             \A s \in Sensors : UNCHANGED ScheduleFrame(s)
      PROVE  ScheduleInv'
  BY <1>t, <1>f, ScheduleKept DEF ScheduleInv
<1>1. CASE Tick
  BY <1>t, <1>1, <1>f DEF Tick, ScheduleFrame, sensorVars, releaseVars
<1>2. ASSUME NEW s \in Sensors, Start(s) PROVE ScheduleInv'
  <2>1. ScheduleOf(s)'
    BY <1>t, <1>s, <1>2 DEF Start, SensorTypes, ScheduleOf, Waiting, Released
  <2>2. \A t \in Sensors \ {s} : UNCHANGED ScheduleFrame(t)
    BY <1>t, <1>2 DEF Start, SensorTypes, ScheduleFrame
  <2> QED
    BY <1>2, <2>1, <2>2, OneSensor DEF Start
<1>3. ASSUME NEW s \in Sensors, CheckDeadline(s) PROVE ScheduleInv'
  <2>1. ScheduleOf(s)'
    <3>1. sPc'[s] = IF DeadlinePassed(s) THEN "awake" ELSE "asleep"
      BY <1>t, <1>3 DEF CheckDeadline, SensorTypes
    <3>2. missed'[s] = DeadlinePassed(s)
      BY <1>t, <1>3 DEF CheckDeadline, SensorTypes
    <3>3. UNCHANGED <<now, seq, nextDeadline, lastTick, late>>
      BY <1>3 DEF CheckDeadline
    <3>4. lastTick[s] + Period = nextDeadline[s] + late[s] /\ lastTick[s] <= now
      BY <1>3, <1>s DEF CheckDeadline, ScheduleOf, Waiting
    <3>5. CASE DeadlinePassed(s)
      <4>1. sPc'[s] = "awake" /\ missed'[s] = TRUE /\ now >= nextDeadline[s]
        BY <3>1, <3>2, <3>5 DEF DeadlinePassed
      <4> QED
        BY <3>3, <3>4, <4>1 DEF ScheduleOf, Waiting, Released
    <3>6. CASE ~DeadlinePassed(s)
      <4>1. sPc'[s] = "asleep" /\ now < nextDeadline[s]
        BY <1>t, <1>s, <3>1, <3>6 DEF DeadlinePassed
      <4>2. late[s] < Period
        BY <1>t, <1>s, <3>4, <4>1
      <4> QED
        BY <3>3, <3>4, <4>1, <4>2 DEF ScheduleOf, Waiting, Released
    <3> QED
      BY <3>5, <3>6
  <2>2. \A t \in Sensors \ {s} : UNCHANGED ScheduleFrame(t)
    BY <1>t, <1>3 DEF CheckDeadline, SensorTypes, ScheduleFrame
  <2> QED
    BY <1>3, <2>1, <2>2, OneSensor DEF CheckDeadline
<1>4. ASSUME NEW s \in Sensors, Release(s) PROVE ScheduleInv'
  <2>1. ScheduleOf(s)'
    <3>1. /\ sPc[s] \in {"awake", "asleep"} /\ now >= nextDeadline[s]
          /\ lastTick[s] + Period = nextDeadline[s] + late[s] /\ lastTick[s] <= now
          /\ late[s] >= Period => missed[s]
      BY <1>s, <1>4, <1>t DEF Release, ScheduleOf, Waiting
    <3>2. /\ sPc'[s] = "send" /\ lastTick'[s] = now
          /\ lateBefore'[s] = late[s] /\ late'[s] = now - nextDeadline[s]
          /\ jitter'[s] = Abs((now - lastTick[s]) - Period)
          /\ UNCHANGED <<now, nextDeadline, missed, seq>>
      BY <1>t, <1>4 DEF Release, SensorTypes
    <3>3. (now - lastTick[s]) - Period = late'[s] - lateBefore'[s]
      BY <1>t, <1>s, <3>1, <3>2
    <3>4. jitter'[s] = Abs(late'[s] - lateBefore'[s])
      BY <3>2, <3>3
    <3>5. late'[s] >= lateBefore'[s] - Period
      BY <1>t, <1>s, <3>1, <3>2
    <3>6. lastTick'[s] = nextDeadline'[s] + late'[s] /\ lastTick'[s] <= now'
      BY <1>t, <1>s, <3>2
    <3> QED
      BY <3>1, <3>2, <3>4, <3>5, <3>6 DEF ScheduleOf, Waiting, Released
  <2>2. \A t \in Sensors \ {s} : UNCHANGED ScheduleFrame(t)
    BY <1>t, <1>4 DEF Release, SensorTypes, ScheduleFrame
  <2> QED
    BY <1>4, <2>1, <2>2, OneSensor DEF Release
<1>5. ASSUME NEW s \in Sensors, Send(s) PROVE ScheduleInv'
  <2>1. ScheduleOf(s)'
    BY <1>t, <1>s, <1>5 DEF Send, SensorTypes, ScheduleOf, Waiting, Released, releaseVars
  <2>2. \A t \in Sensors \ {s} : UNCHANGED ScheduleFrame(t)
    BY <1>t, <1>5 DEF Send, SensorTypes, ScheduleFrame, releaseVars
  <2> QED
    BY <1>5, <2>1, <2>2, OneSensor DEF Send
<1>6. ASSUME NEW s \in Sensors, FinishLoop(s) PROVE ScheduleInv'
  <2>0. /\ sPc[s] = "store" /\ UNCHANGED <<now, lastTick, late>>
        /\ seq' = [seq EXCEPT ![s] = @ + 1]
        /\ jitter' = [jitter EXCEPT ![s] = 0]
        /\ lateBefore' = [lateBefore EXCEPT ![s] = 0]
        /\ missed' = [missed EXCEPT ![s] = FALSE]
        /\ sPc' = [sPc EXCEPT ![s] = "check"]
        /\ nextDeadline' = [nextDeadline EXCEPT ![s] = nextDeadline[s] + Period]
    BY <1>6 DEF FinishLoop, StoreAndSchedule, EndIteration
  <2>1. ScheduleOf(s)'
    <3>1. lastTick[s] = nextDeadline[s] + late[s] /\ lastTick[s] <= now
      BY <1>s, <2>0 DEF ScheduleOf, Released
    <3>2. sPc'[s] = "check" /\ nextDeadline'[s] = nextDeadline[s] + Period
      BY <1>t, <2>0 DEF SensorTypes
    <3>3. lastTick'[s] + Period = nextDeadline'[s] + late'[s] /\ lastTick'[s] <= now'
      BY <1>s, <2>0, <3>1, <3>2
    <3> QED
      BY <3>2, <3>3 DEF ScheduleOf, Waiting, Released
  <2>2. \A t \in Sensors \ {s} : UNCHANGED ScheduleFrame(t)
    BY <1>t, <2>0 DEF SensorTypes, ScheduleFrame
  <2> QED
    BY <2>0, <2>1, <2>2, OneSensor
<1>7. CASE Receive
  BY <1>t, <1>7, <1>f DEF Receive, ScheduleFrame, sensorVars, releaseVars
<1>8. CASE FinishCycle
  BY <1>t, <1>8, <1>f DEF FinishCycle, ScheduleFrame, sensorVars, releaseVars
<1>9. CASE UNCHANGED vars
  BY <1>t, <1>9, <1>f DEF vars, ScheduleFrame, sensorVars, releaseVars
<1> QED
  BY <1>1, <1>2, <1>3, <1>4, <1>5, <1>6, <1>7, <1>8, <1>9
  DEF Next, SensorStep, TimeIsUp

(* The initial states are on schedule. *)
LEMMA InitSchedule == Init => ScheduleInv
  BY AcquisitionAssumption DEF Init, ScheduleInv, ScheduleOf, Waiting, Released

(* A sensor that fell behind catches up at most one period per sample, and    *)
(* each release that follows one a period late or more is counted as a miss   *)
(* (sensor.rs:110-129), for any period and any delays.                        *)
THEOREM BacklogAlwaysCounted == Spec => []BacklogIsCounted
<1>1. Spec => [](TypeInv /\ ScheduleInv)
  BY InitType, TypeStep, InitSchedule, ScheduleStep, PTL DEF Spec
<1>2. ScheduleInv => BacklogIsCounted
  BY DEF ScheduleInv, ScheduleOf, BacklogIsCounted
<1> QED
  BY <1>1, <1>2, PTL

-------------------------------------------------------------------------------
(* The jitter of the processor *)

(* What is true of a sample number n with the time stamp ts that s has sent:   *)
(* it was taken before, and when it is the sample before the one in work, the  *)
(* jitter of the one in work counts from its time stamp.                       *)
Fits(s, n, ts) ==
  /\ n >= 1 /\ n <= (IF sPc[s] = "store" THEN seq[s] ELSE seq[s] - 1)
  /\ n = seq[s] - 1 =>
       /\ Waiting(s) => ts = lastTick[s]
       /\ sPc[s] = "send" => jitter[s] = Abs((lastTick[s] - ts) - Period)
  /\ n = seq[s] => ts = lastTick[s]

(* The number of the latest sample of s that the processor received. *)
LatestNumber(s) == received[s][Len(received[s])]

Received(s) == received[s] # <<>>

ChannelFits == \A i \in DOMAIN chan : Fits(chan[i].src, chan[i].seq, chan[i].ts)

ReceivedFits ==
  \A s \in Sensors : Received(s) => lastTs[s] \in Nat /\ Fits(s, LatestNumber(s), lastTs[s])

(* d follows a sample with the time stamp ts. *)
Follows(d, ts) == d.jitter = Abs((d.ts - ts) - Period)

ChannelFollows ==
  \A i, j \in DOMAIN chan :
    i < j /\ chan[i].src = chan[j].src /\ chan[j].seq = chan[i].seq + 1 =>
      Follows(chan[j], chan[i].ts)

NextFollows ==
  \A i \in DOMAIN chan :
    Received(chan[i].src) /\ chan[i].seq = LatestNumber(chan[i].src) + 1 =>
      Follows(chan[i], lastTs[chan[i].src])

HeldReported ==
  \A i \in DOMAIN held : Consecutive(held[i]) => reported = held[i].jitter

SampleInv == ChannelFits /\ ReceivedFits /\ ChannelFollows /\ NextFollows /\ HeldReported

(* The fields of the samples in the channel. *)
LEMMA ChannelSamples ==
  ASSUME ChannelTypes, NEW i \in DOMAIN chan
  PROVE  chan[i].src \in Sensors /\ chan[i].seq \in Nat /\ chan[i].ts \in Nat
<1>1. chan[i] \in Sample
  BY DEF ChannelTypes
<1> QED
  BY <1>1 DEF Sample

(* What the fitting of the samples of s depends on. *)
FitFrame(s) == <<sPc[s], seq[s], lastTick[s], jitter[s]>>

(* The samples of a sensor that makes no step fit on. *)
LEMMA FitsKept ==
  ASSUME NEW s \in Sensors, NEW n, NEW ts, UNCHANGED FitFrame(s), Fits(s, n, ts)
  PROVE  Fits(s, n, ts)'
  BY DEF FitFrame, Fits, Waiting

(* A step that leaves channel and processor alone keeps SampleInv when every  *)
(* sample that fitted fits on.                                                *)
LEMMA SampleKept ==
  ASSUME SampleInv, TypeInv, UNCHANGED <<chan, lastTs, received, held, reported>>,
         \A s \in Sensors : \A n, ts \in Nat : Fits(s, n, ts) => Fits(s, n, ts)'
  PROVE  SampleInv'
<1>1. \A i \in DOMAIN chan : /\ chan[i].src \in Sensors
                             /\ chan[i].seq \in Nat /\ chan[i].ts \in Nat
  BY ChannelSamples DEF TypeInv
<1>2. \A s \in Sensors : Received(s) => LatestNumber(s) \in Nat
  BY DEF TypeInv, ProcTypes, Received, LatestNumber
<1>3. ChannelFits'
  BY <1>1 DEF SampleInv, ChannelFits
<1>4. ReceivedFits'
  BY <1>2 DEF SampleInv, ReceivedFits, Received, LatestNumber
<1>5. ChannelFollows' /\ NextFollows' /\ HeldReported'
  BY DEF SampleInv, ChannelFollows, NextFollows, HeldReported, Follows, Received,
         LatestNumber, Consecutive
<1> QED
  BY <1>3, <1>4, <1>5 DEF SampleInv

(* Every step keeps SampleInv. *)
LEMMA SampleStep == TypeInv /\ ScheduleInv /\ SampleInv /\ [Next]_vars => SampleInv'
<1> SUFFICES ASSUME TypeInv, ScheduleInv, SampleInv, [Next]_vars PROVE SampleInv'
  OBVIOUS
<1> USE AcquisitionAssumption
<1>t. SensorTypes /\ ChannelTypes /\ ProcTypes
  BY DEF TypeInv
<1>n. ASSUME NEW s \in Sensors
      PROVE  lastTick[s] \in Nat /\ seq[s] \in Nat \ {0} /\ jitter[s] \in Nat
  BY <1>t DEF SensorTypes
<1>o. ASSUME NEW s \in Sensors, UNCHANGED <<chan, lastTs, received, held, reported>>,
             \A t \in Sensors \ {s} : UNCHANGED FitFrame(t),
             \A n, ts \in Nat : Fits(s, n, ts) => Fits(s, n, ts)'
      PROVE  SampleInv'
  <2>1. \A t \in Sensors : \A n, ts \in Nat : Fits(t, n, ts) => Fits(t, n, ts)'
    BY <1>o, FitsKept
  <2> QED
    BY <1>o, <2>1, SampleKept
<1>1. CASE Tick
  <2>1. \A s \in Sensors : UNCHANGED FitFrame(s)
    BY <1>1 DEF Tick, sensorVars, FitFrame
  <2> QED
    BY <1>1, <2>1, FitsKept, SampleKept DEF Tick, procVars
<1>2. ASSUME NEW s \in Sensors, Start(s) PROVE SampleInv'
  <2>1. seq[s] = 1 /\ seq'[s] = 1 /\ sPc'[s] = "check" /\ sPc[s] = "start"
    BY <1>t, <1>2 DEF Start, ScheduleInv, ScheduleOf, SensorTypes
  <2>2. \A n, ts \in Nat : ~Fits(s, n, ts)
    BY <2>1 DEF Fits
  <2>3. \A t \in Sensors \ {s} : UNCHANGED FitFrame(t)
    BY <1>t, <1>2 DEF Start, SensorTypes, FitFrame
  <2> QED
    BY <1>2, <1>o, <2>2, <2>3 DEF Start, procVars
<1>3. ASSUME NEW s \in Sensors, CheckDeadline(s) PROVE SampleInv'
  <2>1. \A t \in Sensors \ {s} : UNCHANGED FitFrame(t)
    BY <1>t, <1>3 DEF CheckDeadline, SensorTypes, FitFrame
  <2>2. sPc[s] = "check" /\ sPc'[s] \in {"awake", "asleep"}
        /\ UNCHANGED <<seq, lastTick, jitter>>
    BY <1>t, <1>3 DEF CheckDeadline, SensorTypes
  <2>3. \A n, ts \in Nat : Fits(s, n, ts) => Fits(s, n, ts)'
    BY <2>2 DEF Fits, Waiting
  <2> QED
    BY <1>3, <1>o, <2>1, <2>3 DEF CheckDeadline, procVars
<1>4. ASSUME NEW s \in Sensors, Release(s) PROVE SampleInv'
  <2>1. \A t \in Sensors \ {s} : UNCHANGED FitFrame(t)
    BY <1>t, <1>4 DEF Release, SensorTypes, FitFrame
  <2>2. /\ sPc[s] \in {"awake", "asleep"} /\ sPc'[s] = "send"
        /\ lastTick'[s] = now /\ jitter'[s] = Abs((now - lastTick[s]) - Period)
        /\ seq' = seq
    BY <1>t, <1>4 DEF Release, SensorTypes
  <2>3. ASSUME NEW n \in Nat, NEW ts \in Nat, Fits(s, n, ts) PROVE Fits(s, n, ts)'
    <3>1. n >= 1 /\ n <= seq[s] - 1
      BY <2>2, <2>3 DEF Fits
    <3>2. n = seq[s] - 1 => ts = lastTick[s]
      BY <2>2, <2>3 DEF Fits, Waiting
    <3>3. n # seq[s]
      BY <1>n, <3>1
    <3> QED
      BY <2>2, <3>1, <3>2, <3>3 DEF Fits, Waiting
  <2> QED
    BY <1>4, <1>o, <2>1, <2>3 DEF Release, procVars
<1>5. ASSUME NEW s \in Sensors, Send(s) PROVE SampleInv'
  <2> DEFINE new == [src |-> s, seq |-> seq[s], ts |-> lastTick[s], jitter |-> jitter[s]]
  <2>1. \A t \in Sensors \ {s} : UNCHANGED FitFrame(t)
    BY <1>t, <1>5 DEF Send, SensorTypes, FitFrame
  <2>2. /\ sPc[s] = "send" /\ sPc'[s] = "store"
        /\ chan' = IF ChannelTakes THEN Append(chan, new) ELSE chan
        /\ UNCHANGED <<seq, lastTick, jitter, lastTs, received, held, reported>>
    BY <1>t, <1>5 DEF Send, SensorTypes, procVars
  <2>3. ASSUME NEW n \in Nat, NEW ts \in Nat, Fits(s, n, ts)
        PROVE  /\ Fits(s, n, ts)' /\ n <= seq[s] - 1
               /\ n = seq[s] - 1 => jitter[s] = Abs((lastTick[s] - ts) - Period)
    <3>1. n >= 1 /\ n <= seq[s] - 1
      BY <2>2, <2>3 DEF Fits
    <3>2. n # seq[s] /\ n <= seq[s]
      BY <1>n, <3>1
    <3> QED
      BY <2>2, <2>3, <3>1, <3>2 DEF Fits, Waiting
  <2>4. \A t \in Sensors : \A n, ts \in Nat : Fits(t, n, ts) => Fits(t, n, ts)'
    BY <2>1, <2>3, FitsKept
  <2>5. CASE ~ChannelTakes
    BY <2>2, <2>4, <2>5, SampleKept
  <2>6. CASE ChannelTakes
    <3>1. new.src = s /\ new.seq = seq[s] /\ new.ts = lastTick[s] /\ new.jitter = jitter[s]
      OBVIOUS
    <3>2. Fits(s, seq[s], lastTick[s])'
      BY <1>n, <2>2 DEF Fits, Waiting
    <3> DEFINE len == Len(chan)
    <3> HIDE DEF new
    <3>3. /\ len \in Nat /\ DOMAIN chan = 1..len /\ DOMAIN chan' = 1..len + 1
          /\ chan'[len + 1] = new
          /\ \A i \in 1..len : chan'[i] = chan[i]
      BY <1>t, <2>2, <2>6 DEF ChannelTypes
    <3>4. \A i \in 1..len : /\ chan[i].src \in Sensors
                            /\ chan[i].seq \in Nat /\ chan[i].ts \in Nat
      BY <1>t, <3>3, ChannelSamples
    <3>5. \A t \in Sensors : Received(t) => LatestNumber(t) \in Nat
      BY <1>t DEF ProcTypes, Received, LatestNumber
    <3> HIDE DEF len
    <3>6. ChannelFits'
      <4>1. ASSUME NEW i \in 1..len PROVE Fits(chan[i].src, chan[i].seq, chan[i].ts)'
        BY <2>4, <3>3, <3>4 DEF SampleInv, ChannelFits
      <4>2. ASSUME NEW i \in DOMAIN chan' PROVE Fits(chan[i].src, chan[i].seq, chan[i].ts)'
        <5>1. CASE i = len + 1
          <6>1. chan'[i].src = s /\ chan'[i].seq = seq[s] /\ chan'[i].ts = lastTick[s]
            BY <3>1, <3>3, <5>1
          <6>2. seq'[s] = seq[s] /\ lastTick'[s] = lastTick[s]
            BY <2>2
          <6> QED
            BY <2>2, <3>2, <6>1, <6>2 DEF Fits, Waiting
        <5>2. CASE i # len + 1
          <6>1. i \in 1..len
            BY <3>3, <5>2
          <6> QED
            BY <4>1, <6>1
        <5> QED
          BY <5>1, <5>2
      <4> QED
        BY <4>2 DEF ChannelFits
    <3>7. ReceivedFits'
      BY <2>2, <2>4, <3>5 DEF SampleInv, ReceivedFits, Received, LatestNumber
    <3>8. ChannelFollows'
      <4> SUFFICES ASSUME NEW i \in DOMAIN chan', NEW j \in DOMAIN chan', i < j,
                          chan'[i].src = chan'[j].src, chan'[j].seq = chan'[i].seq + 1
                   PROVE  Follows(chan'[j], chan'[i].ts)
        BY DEF ChannelFollows, Follows
      <4>1. i \in 1..len /\ chan'[i] = chan[i]
        BY <3>3
      <4>2. CASE j = len + 1
        <5>1. chan[i].src = s /\ chan[i].seq = seq[s] - 1
          <6>1. chan'[j].src = s /\ chan'[j].seq = seq[s]
            BY <3>1, <3>3, <4>2
          <6>2. chan[i].src = s /\ seq[s] = chan[i].seq + 1
            BY <4>1, <6>1
          <6>3. chan[i].seq \in Nat
            BY <3>4, <4>1
          <6> QED
            BY <6>2, <6>3
        <5>2. Fits(s, chan[i].seq, chan[i].ts)
          BY <3>3, <4>1, <5>1 DEF SampleInv, ChannelFits
        <5>3. jitter[s] = Abs((lastTick[s] - chan[i].ts) - Period)
          BY <2>3, <3>4, <4>1, <5>1, <5>2
        <5> QED
          BY <3>1, <3>3, <4>1, <4>2, <5>3 DEF Follows
      <4>3. CASE j # len + 1
        <5>1. j \in 1..len /\ chan'[j] = chan[j]
          BY <3>3, <4>3
        <5> QED
          BY <3>3, <4>1, <5>1 DEF SampleInv, ChannelFollows
      <4> QED
        BY <4>2, <4>3
    <3>9. NextFollows'
      <4> SUFFICES ASSUME NEW i \in DOMAIN chan', Received(chan'[i].src),
                          chan'[i].seq = LatestNumber(chan'[i].src) + 1
                   PROVE  Follows(chan'[i], lastTs[chan'[i].src])
        BY <2>2 DEF NextFollows, Follows, Received, LatestNumber
      <4>1. CASE i = len + 1
        <5>1. chan'[i] = new /\ Received(s) /\ LatestNumber(s) = seq[s] - 1
          BY <1>n, <3>1, <3>3, <3>5, <4>1
        <5>2. lastTs[s] \in Nat /\ Fits(s, LatestNumber(s), lastTs[s])
          BY <5>1 DEF SampleInv, ReceivedFits
        <5>3. jitter[s] = Abs((lastTick[s] - lastTs[s]) - Period)
          BY <2>3, <3>5, <5>1, <5>2
        <5> QED
          BY <3>1, <5>1, <5>3 DEF Follows
      <4>2. CASE i # len + 1
        <5>1. i \in 1..len /\ chan'[i] = chan[i]
          BY <3>3, <4>2
        <5> QED
          BY <3>3, <5>1 DEF SampleInv, NextFollows
      <4> QED
        BY <4>1, <4>2
    <3>10. HeldReported'
      BY <2>2 DEF SampleInv, HeldReported, Consecutive
    <3> QED
      BY <3>6, <3>7, <3>8, <3>9, <3>10 DEF SampleInv
  <2> QED
    BY <2>5, <2>6
<1>6. ASSUME NEW s \in Sensors, FinishLoop(s) PROVE SampleInv'
  <2>1. /\ sPc[s] = "store" /\ UNCHANGED <<lastTick, chan, lastTs, received, held, reported>>
        /\ seq' = [seq EXCEPT ![s] = @ + 1]
        /\ jitter' = [jitter EXCEPT ![s] = 0]
        /\ sPc' = [sPc EXCEPT ![s] = "check"]
    BY <1>6 DEF FinishLoop, StoreAndSchedule, EndIteration, procVars
  <2>2. \A t \in Sensors \ {s} : UNCHANGED FitFrame(t)
    BY <1>t, <2>1 DEF SensorTypes, FitFrame
  <2>3. seq'[s] = seq[s] + 1 /\ sPc'[s] = "check"
    BY <1>t, <2>1 DEF SensorTypes
  <2>4. ASSUME NEW n \in Nat, NEW ts \in Nat, Fits(s, n, ts) PROVE Fits(s, n, ts)'
    <3>1. n >= 1 /\ n <= seq[s] /\ (n = seq[s] => ts = lastTick[s])
      BY <2>1, <2>4 DEF Fits
    <3>2. n <= seq'[s] - 1 /\ n # seq'[s] /\ (n = seq'[s] - 1 => n = seq[s])
      BY <1>n, <2>3, <3>1
    <3> QED
      BY <2>1, <2>3, <3>1, <3>2 DEF Fits, Waiting
  <2> QED
    BY <1>o, <2>1, <2>2, <2>4
<1>7. CASE Receive
  <2>1. PICK data \in Sample, reading \in Readings :
          /\ chan # <<>> /\ data = Head(chan) /\ data = chan[1]
          /\ data.src \in Sensors /\ data.seq \in Nat /\ data.ts \in Nat
          /\ data.jitter \in Nat
          /\ ReceiveSample(data, reading)
    BY <1>7, ReceiveNamed
  <2> DEFINE s == data.src
             len == Len(chan)
  <2>2. /\ held' = <<data>> /\ chan' = Tail(chan)
        /\ reported' = IF lastTs[s] = never THEN 0 ELSE Abs((data.ts - lastTs[s]) - Period)
        /\ lastTs' = [lastTs EXCEPT ![s] = data.ts]
        /\ received' = [received EXCEPT ![s] = Append(@, data.seq)]
        /\ UNCHANGED sensorVars
    BY <2>1 DEF ReceiveSample
  <2>3. /\ len \in Nat \ {0} /\ DOMAIN chan = 1..len /\ DOMAIN chan' = 1..len - 1
        /\ \A i \in 1..len - 1 : chan'[i] = chan[i + 1]
    BY <1>t, <2>1, <2>2 DEF ChannelTypes
  <2>4. /\ Received(s)' /\ LatestNumber(s)' = data.seq /\ lastTs'[s] = data.ts
        /\ received'[s] = Append(received[s], data.seq)
    <3>1. received'[s] = Append(received[s], data.seq) /\ lastTs'[s] = data.ts
      BY <1>t, <2>1, <2>2 DEF ProcTypes
    <3>2. received[s] \in Seq(Nat)
      BY <1>t, <2>1 DEF ProcTypes
    <3>3. received'[s] # <<>> /\ received'[s][Len(received'[s])] = data.seq
      BY <2>1, <3>1, <3>2
    <3> QED
      BY <3>1, <3>3 DEF Received, LatestNumber
  <2>5. \A t \in Sensors \ {s} : received'[t] = received[t] /\ lastTs'[t] = lastTs[t]
    BY <1>t, <2>2 DEF ProcTypes
  <2>6. \A t \in Sensors, n, ts \in Nat : Fits(t, n, ts) => Fits(t, n, ts)'
    <3>1. \A t \in Sensors : UNCHANGED FitFrame(t)
      BY <2>2 DEF sensorVars, FitFrame
    <3> QED
      BY <3>1, FitsKept
  <2>7. \A i \in 1..len : /\ chan[i].src \in Sensors
                          /\ chan[i].seq \in Nat /\ chan[i].ts \in Nat
    BY <1>t, <2>3, ChannelSamples
  <2>8. \A t \in Sensors : Received(t) => LatestNumber(t) \in Nat
    BY <1>t DEF ProcTypes, Received, LatestNumber
  <2> HIDE DEF s, len
  <2>s. s \in Sensors /\ chan[1].src = s /\ 1 \in 1..len
    BY <2>1, <2>3 DEF s
  <2>9. ChannelFits'
    <3> SUFFICES ASSUME NEW i \in DOMAIN chan'
                 PROVE  Fits(chan[i].src, chan[i].seq, chan[i].ts)'
      BY DEF ChannelFits
    <3>1. i + 1 \in 1..len /\ i + 1 \in DOMAIN chan /\ chan'[i] = chan[i + 1]
      BY <2>3
    <3>2. Fits(chan[i + 1].src, chan[i + 1].seq, chan[i + 1].ts)
      BY <3>1 DEF SampleInv, ChannelFits
    <3> QED
      BY <2>6, <2>7, <3>1, <3>2 DEF Fits, Waiting
  <2>10. ReceivedFits'
    <3>1. Fits(s, data.seq, data.ts)
      BY <2>1, <2>3, <2>s DEF SampleInv, ChannelFits
    <3>2. Fits(s, data.seq, data.ts)'
      BY <2>1, <2>6, <2>s, <3>1
    <3>3. ASSUME NEW t \in Sensors, Received(t)'
          PROVE  lastTs'[t] \in Nat /\ Fits(t, LatestNumber(t), lastTs[t])'
      <4>1. CASE t = s
        BY <2>1, <2>4, <3>2, <4>1 DEF Fits, Waiting
      <4>2. CASE t # s
        <5>1. /\ received'[t] = received[t] /\ lastTs'[t] = lastTs[t]
              /\ Received(t) /\ LatestNumber(t)' = LatestNumber(t)
          BY <2>5, <3>3, <4>2 DEF Received, LatestNumber
        <5>2. lastTs[t] \in Nat /\ Fits(t, LatestNumber(t), lastTs[t])
          BY <5>1 DEF SampleInv, ReceivedFits
        <5>3. Fits(t, LatestNumber(t), lastTs[t])'
          BY <2>6, <2>8, <5>1, <5>2 DEF Fits, Waiting
        <5> QED
          BY <5>1, <5>2, <5>3
      <4> QED
        BY <4>1, <4>2
    <3> QED
      BY <3>3 DEF ReceivedFits
  <2>11. ChannelFollows'
    <3> SUFFICES ASSUME NEW i \in DOMAIN chan', NEW j \in DOMAIN chan', i < j,
                        chan'[i].src = chan'[j].src, chan'[j].seq = chan'[i].seq + 1
                 PROVE  Follows(chan'[j], chan'[i].ts)
      BY DEF ChannelFollows, Follows
    <3>1. /\ i + 1 \in DOMAIN chan /\ j + 1 \in DOMAIN chan /\ i + 1 < j + 1
          /\ chan'[i] = chan[i + 1] /\ chan'[j] = chan[j + 1]
      BY <2>3
    <3> QED
      BY <3>1 DEF SampleInv, ChannelFollows
  <2>12. NextFollows'
    <3> SUFFICES ASSUME NEW i \in DOMAIN chan', Received(chan[i].src)',
                        chan'[i].seq = LatestNumber(chan[i].src)' + 1
                 PROVE  Follows(chan'[i], lastTs'[chan'[i].src])
      BY DEF NextFollows, Follows
    <3>1. /\ i + 1 \in DOMAIN chan /\ 1 \in DOMAIN chan /\ 1 < i + 1
          /\ chan'[i] = chan[i + 1] /\ chan[i + 1].src \in Sensors
      BY <2>3, <2>7
    <3>2. CASE chan[i + 1].src = s
      <4>1. chan[i + 1].seq = chan[1].seq + 1 /\ chan[1].ts = data.ts
        BY <2>1, <2>4, <3>1, <3>2 DEF Received, LatestNumber
      <4>2. Follows(chan[i + 1], data.ts)
        BY <2>s, <3>1, <3>2, <4>1 DEF SampleInv, ChannelFollows
      <4> QED
        BY <2>4, <3>1, <3>2, <4>2
    <3>3. CASE chan[i + 1].src # s
      <4> DEFINE t == chan[i + 1].src
      <4>1. received'[t] = received[t] /\ lastTs'[t] = lastTs[t]
        BY <2>5, <3>1, <3>3
      <4>2. Received(t) /\ chan[i + 1].seq = LatestNumber(t) + 1
        BY <3>1, <4>1 DEF Received, LatestNumber
      <4>3. Follows(chan[i + 1], lastTs[t])
        BY <3>1, <4>2 DEF SampleInv, NextFollows
      <4> QED
        BY <3>1, <4>1, <4>3
    <3> QED
      BY <3>2, <3>3
  <2>13. HeldReported'
    <3> SUFFICES ASSUME Consecutive(data)' PROVE reported' = data.jitter
      BY <2>2 DEF HeldReported
    <3>1. Received(s) /\ LatestNumber(s) = data.seq - 1
      <4>1. received[s] \in Seq(Nat)
        BY <1>t, <2>s DEF ProcTypes
      <4>2. Len(received'[s]) > 1 /\ received'[s][Len(received'[s]) - 1] = data.seq - 1
        BY DEF Consecutive, s
      <4>3. Len(received'[s]) = Len(received[s]) + 1
        BY <2>1, <2>4, <4>1
      <4>4. received[s] # <<>> /\ Len(received[s]) \in 1..Len(received[s])
        BY <4>1, <4>2, <4>3
      <4>5. received'[s][Len(received[s])] = received[s][Len(received[s])]
        BY <2>1, <2>4, <4>1, <4>4
      <4>6. Len(received'[s]) - 1 = Len(received[s])
        BY <4>1, <4>3
      <4> QED
        BY <4>2, <4>4, <4>5, <4>6 DEF Received, LatestNumber
    <3>2. data.seq = LatestNumber(s) + 1
      BY <2>1, <2>8, <2>s, <3>1
    <3>3. Follows(data, lastTs[s])
      BY <2>1, <2>3, <2>s, <3>1, <3>2 DEF SampleInv, NextFollows
    <3>4. lastTs[s] # never
      BY <2>s, <3>1 DEF SampleInv, ReceivedFits, never
    <3> QED
      BY <2>2, <3>3, <3>4 DEF Follows
  <2> QED
    BY <2>9, <2>10, <2>11, <2>12, <2>13 DEF SampleInv
<1>8. CASE FinishCycle
  <2>1. \A s \in Sensors : UNCHANGED FitFrame(s)
    BY <1>8 DEF FinishCycle, sensorVars, FitFrame
  <2>2. UNCHANGED <<chan, lastTs, received>> /\ held' = <<>>
    BY <1>8 DEF FinishCycle
  <2>3. HeldReported'
    BY <2>2 DEF HeldReported
  <2>4. ChannelFits'
    <3>1. \A i \in DOMAIN chan : chan[i].src \in Sensors
      BY <1>t, ChannelSamples
    <3> QED
      BY <2>1, <2>2, <3>1, FitsKept DEF SampleInv, ChannelFits
  <2>5. ReceivedFits'
    BY <2>1, <2>2, FitsKept DEF SampleInv, ReceivedFits, Received, LatestNumber
  <2>6. ChannelFollows' /\ NextFollows'
    BY <2>2 DEF SampleInv, ChannelFollows, NextFollows, Follows, Received, LatestNumber
  <2> QED
    BY <2>3, <2>4, <2>5, <2>6 DEF SampleInv
<1>9. CASE UNCHANGED vars
  <2>1. \A s \in Sensors : UNCHANGED FitFrame(s)
    BY <1>9 DEF vars, sensorVars, FitFrame
  <2> QED
    BY <1>9, <2>1, FitsKept, SampleKept DEF vars, procVars
<1> QED
  BY <1>1, <1>2, <1>3, <1>4, <1>5, <1>6, <1>7, <1>8, <1>9
  DEF Next, SensorStep, TimeIsUp

(* At the start there are no samples. *)
LEMMA InitSample == Init => SampleInv
  BY DEF Init, SampleInv, ChannelFits, ReceivedFits, ChannelFollows, NextFollows,
         HeldReported, Received

(* The jitter of a sensor is the change of its lateness, and the processor     *)
(* computes the same from the time stamps unless a sample was dropped before   *)
(* (sensor.rs:147-149, processor.rs:139-147), however many sensors share the   *)
(* channel and whatever is under way in it.                                    *)
THEOREM JitterIsFaithful == Spec => []JitterIsChangeOfLateness
<1>1. Spec => [](TypeInv /\ ScheduleInv /\ SampleInv)
  BY InitType, TypeStep, InitSchedule, ScheduleStep, InitSample, SampleStep, PTL DEF Spec
<1>2. ScheduleInv /\ SampleInv => JitterIsChangeOfLateness
  BY DEF ScheduleInv, ScheduleOf, SampleInv, HeldReported, JitterIsChangeOfLateness
<1> QED
  BY <1>1, <1>2, PTL

-------------------------------------------------------------------------------
(* What windows and series keep *)

(* A window or series that holds the latest goes on to do so. *)
LEMMA PushValueKeeps ==
  ASSUME StoreTypes, NEW s \in Sensors, NEW value \in Value, PushValue(s, value),
         \A t \in Sensors : series[t] = LatestOf(pushed[t], MaxPoints)
  PROVE  \A t \in Sensors : series'[t] = LatestOf(pushed'[t], MaxPoints)
<1>1. ASSUME NEW t \in Sensors, t # s PROVE series'[t] = series[t] /\ pushed'[t] = pushed[t]
  BY <1>1 DEF StoreTypes, PushValue
<1>2. /\ series'[s] = PushCapped(series[s], value, MaxPoints)
      /\ pushed'[s] = Append(pushed[s], value) /\ pushed[s] \in Seq(Value)
  BY DEF StoreTypes, PushValue
<1>3. series'[s] = LatestOf(pushed'[s], MaxPoints)
  BY <1>2, PushKeepsLatest, AcquisitionAssumption
<1> QED
  BY <1>1, <1>3

LatestValues == \A s \in Sensors : series[s] = LatestOf(pushed[s], MaxPoints)

LatestReadings == \A s \in Sensors : buffers[s] = LatestOf(readings[s], Window)

(* Every step keeps LatestAreKept. *)
LEMMA LatestStep ==
  TypeInv /\ LatestValues /\ LatestReadings /\ [Next]_vars
    => LatestValues' /\ LatestReadings'
<1> SUFFICES ASSUME TypeInv, LatestValues, LatestReadings, [Next]_vars
             PROVE  LatestValues' /\ LatestReadings'
  OBVIOUS
<1>t. StoreTypes /\ SensorTypes
  BY DEF TypeInv
<1>u. ASSUME UNCHANGED <<series, pushed, buffers, readings>>
      PROVE  LatestValues' /\ LatestReadings'
  BY <1>u DEF LatestValues, LatestReadings, LatestOf
<1>1. ASSUME NEW s \in Sensors, FinishLoop(s) PROVE LatestValues' /\ LatestReadings'
  <2>1. /\ UNCHANGED <<buffers, readings>>
        /\ IF sent[s] THEN PushValue(s, [kind |-> "raw", seq |-> seq[s]])
                      ELSE UNCHANGED <<series, pushed>>
    BY <1>1 DEF FinishLoop, StoreAndSchedule, procVars
  <2>2. CASE sent[s]
    <3>1. [kind |-> "raw", seq |-> seq[s]] \in Value
      BY <1>t DEF SensorTypes, Value
    <3>2. LatestValues'
      BY <1>t, <2>1, <2>2, <3>1, PushValueKeeps DEF LatestValues
    <3> QED
      BY <2>1, <3>2 DEF LatestReadings, LatestOf
  <2>3. CASE ~sent[s]
    BY <1>u, <2>1, <2>3
  <2> QED
    BY <2>2, <2>3
<1>2. CASE Receive
  <2>1. PICK data \in Sample, reading \in Readings :
          /\ chan # <<>> /\ data = Head(chan) /\ data = chan[1]
          /\ data.src \in Sensors /\ data.seq \in Nat /\ data.ts \in Nat
          /\ data.jitter \in Nat
          /\ ReceiveSample(data, reading)
    BY <1>2, ReceiveNamed
  <2>2. LatestValues'
    <3>1. [kind |-> "avg", seq |-> data.seq] \in Value
      BY <2>1 DEF Value
    <3> QED
      BY <1>t, <2>1, <3>1, PushValueKeeps DEF LatestValues, ReceiveSample
  <2>3. LatestReadings'
    <3> DEFINE s == data.src
    <3>1. /\ buffers' = [buffers EXCEPT ![s] = Slide(@, reading)]
          /\ readings' = [readings EXCEPT ![s] = Append(@, reading)]
      BY <2>1 DEF ReceiveSample
    <3>2. s \in Sensors /\ reading \in Int
      BY <2>1, AcquisitionAssumption
    <3> HIDE DEF s
    <3>3. ASSUME NEW t \in Sensors, t # s
          PROVE  buffers'[t] = buffers[t] /\ readings'[t] = readings[t]
      BY <1>t, <3>1, <3>3 DEF StoreTypes
    <3>4. /\ buffers'[s] = Slide(buffers[s], reading)
          /\ readings'[s] = Append(readings[s], reading)
          /\ readings[s] \in Seq(Int) /\ buffers[s] \in Seq(Int)
          /\ buffers[s] = LatestOf(readings[s], Window)
      BY <1>t, <3>1, <3>2 DEF StoreTypes, LatestReadings
    <3>5. Len(buffers[s]) <= Window
      BY <3>4, LatestOfFacts, FilterAssumption
    <3>6. Slide(buffers[s], reading) = PushCapped(buffers[s], reading, Window)
      BY <3>2, <3>4, <3>5, SlideIsPush
    <3>7. buffers'[s] = LatestOf(readings'[s], Window)
      BY <3>2, <3>4, <3>6, PushKeepsLatest, FilterAssumption
    <3> QED
      BY <3>3, <3>7 DEF LatestReadings
  <2> QED
    BY <2>2, <2>3
<1>3. CASE Tick
  BY <1>u, <1>3 DEF Tick, procVars
<1>4. ASSUME NEW s \in Sensors,
             Start(s) \/ CheckDeadline(s) \/ Release(s) \/ Send(s)
      PROVE  LatestValues' /\ LatestReadings'
  BY <1>u, <1>4 DEF Start, CheckDeadline, Release, Send, procVars
<1>5. CASE FinishCycle
  BY <1>u, <1>5 DEF FinishCycle
<1>6. CASE UNCHANGED vars
  BY <1>u, <1>6 DEF vars, procVars
<1> QED
  BY <1>1, <1>2, <1>3, <1>4, <1>5, <1>6 DEF Next, SensorStep, TimeIsUp

(* At the start windows and series are empty. *)
LEMMA InitLatest == Init => LatestValues /\ LatestReadings
<1>1. ASSUME NEW n \in Nat \ {0} PROVE LatestOf(<<>>, n) = <<>>
  BY DEF LatestOf
<1> QED
  BY <1>1, AcquisitionAssumption, FilterAssumption DEF Init, LatestValues, LatestReadings

(* The window of every sensor holds its latest readings and every series the  *)
(* latest values pushed into it, in order, for any window and any MAX_POINTS  *)
(* (processor.rs:197-203, metrics.rs:240-254).                                *)
THEOREM LatestAlwaysKept == Spec => []LatestAreKept
<1>1. Spec => [](TypeInv /\ LatestValues /\ LatestReadings)
  BY InitType, TypeStep, InitLatest, LatestStep, PTL DEF Spec
<1>2. LatestValues /\ LatestReadings => LatestAreKept
  BY DEF LatestValues, LatestReadings, LatestAreKept
<1> QED
  BY <1>1, <1>2, PTL

-------------------------------------------------------------------------------
(* The sums of a window *)

(* The sums exist, so they satisfy their equation.                            *)
LEMMA SumUpToEquation ==
  ASSUME NEW w \in Seq(Int)
  PROVE  SumUpTo(w) = [i \in 0..Len(w) |-> IF i = 0 THEN 0 ELSE SumUpTo(w)[i - 1] + w[i]]
<1> DEFINE Step(f, i) == IF i = 0 THEN 0 ELSE f[i - 1] + w[i]
           Q == {n \in Nat : \E f : f = [i \in 0..n |-> Step(f, i)]}
<1>1. 0 \in Q
  <2> DEFINE f == [i \in 0..0 |-> 0]
  <2>1. f = [i \in 0..0 |-> Step(f, i)]
    OBVIOUS
  <2> QED
    BY <2>1
<1>2. ASSUME NEW n \in Nat, n \in Q PROVE n + 1 \in Q
  <2>1. PICK f : f = [i \in 0..n |-> Step(f, i)]
    BY <1>2
  <2> DEFINE g == [i \in 0..(n + 1) |-> IF i = n + 1 THEN Step(f, i) ELSE f[i]]
  <2>2. ASSUME NEW i \in 0..(n + 1) PROVE g[i] = Step(g, i)
    <3>1. CASE i = 0
      BY <3>1, <2>1
    <3>2. CASE i # 0
      <4>1. i - 1 \in 0..n /\ i - 1 # n + 1
        BY <3>2
      <4>2. g[i - 1] = f[i - 1]
        BY <4>1
      <4>3. Step(g, i) = Step(f, i)
        BY <4>2
      <4>4. CASE i = n + 1
        BY <4>3, <4>4
      <4>5. CASE i # n + 1
        <5>1. i \in 0..n
          BY <4>5
        <5>2. f[i] = Step(f, i)
          BY <2>1, <5>1
        <5> QED
          BY <4>3, <4>5, <5>2
      <4> QED
        BY <4>4, <4>5
    <3> QED
      BY <3>1, <3>2
  <2>3. g = [i \in 0..(n + 1) |-> Step(g, i)]
    <3> HIDE DEF Step
    <3> QED
      BY <2>2
  <2>4. n + 1 \in Nat
    OBVIOUS
  <2> QED
    BY <2>3, <2>4
<1>3. Len(w) \in Q
  <2>1. \A n \in Nat : n \in Q
    <3> HIDE DEF Q
    <3> QED
      BY <1>1, <1>2, Induction
  <2> QED
    BY <2>1
<1>4. \E f : f = [i \in 0..Len(w) |-> Step(f, i)]
  BY <1>3
<1>5. SumUpTo(w) = CHOOSE f : f = [i \in 0..Len(w) |-> Step(f, i)]
  BY DEF SumUpTo
<1> HIDE DEF Step
<1>6. SumUpTo(w) = [i \in 0..Len(w) |-> Step(SumUpTo(w), i)]
  BY <1>4, <1>5
<1> QED
  BY <1>6 DEF Step

(* The equation at the two kinds of its argument.                             *)
LEMMA SumUpToStep ==
  ASSUME NEW w \in Seq(Int)
  PROVE  /\ SumUpTo(w)[0] = 0
         /\ \A n \in Nat : n + 1 <= Len(w) => SumUpTo(w)[n + 1] = SumUpTo(w)[n] + w[n + 1]
<1> DEFINE F == SumUpTo(w)
           Step(i) == IF i = 0 THEN 0 ELSE F[i - 1] + w[i]
<1>1. F = [i \in 0..Len(w) |-> Step(i)]
  BY SumUpToEquation
<1>2. Len(w) \in Nat
  OBVIOUS
<1>3. \A i \in 0..Len(w) : F[i] = Step(i)
  <2> HIDE DEF Step, F
  <2> QED
    BY <1>1
<1>4. F[0] = 0
  <2>1. 0 \in 0..Len(w)
    BY <1>2
  <2>2. F[0] = Step(0)
    BY <1>3, <2>1
  <2> QED
    BY <2>2
<1>5. ASSUME NEW n \in Nat, n + 1 <= Len(w) PROVE F[n + 1] = F[n] + w[n + 1]
  <2>1. n + 1 \in 0..Len(w) /\ n + 1 # 0 /\ n + 1 - 1 = n
    BY <1>2, <1>5
  <2>2. F[n + 1] = Step(n + 1)
    BY <1>3, <2>1
  <2> HIDE DEF F
  <2> QED
    BY <2>1, <2>2
<1> QED
  BY <1>4, <1>5

(* A sum does not depend on the readings that follow.                         *)
LEMMA SumUpToPrefix ==
  ASSUME NEW w \in Seq(Int), NEW x \in Int
  PROVE  \A n \in Nat : n <= Len(w) => SumUpTo(Append(w, x))[n] = SumUpTo(w)[n]
<1> DEFINE F == SumUpTo(w)
           r == Append(w, x)
           G == SumUpTo(r)
           Q == {n \in Nat : n <= Len(w) => G[n] = F[n]}
<1>1. /\ r \in Seq(Int) /\ Len(r) = Len(w) + 1 /\ Len(w) \in Nat
      /\ \A i \in 1..Len(w) : r[i] = w[i]
  OBVIOUS
<1>2. F[0] = 0 /\ \A n \in Nat : n + 1 <= Len(w) => F[n + 1] = F[n] + w[n + 1]
  BY SumUpToStep
<1> HIDE DEF r
<1>3. G[0] = 0 /\ \A n \in Nat : n + 1 <= Len(r) => G[n + 1] = G[n] + r[n + 1]
  BY <1>1, SumUpToStep
<1> HIDE DEF F, G
<1>4. 0 \in Q
  BY <1>2, <1>3
<1>5. ASSUME NEW n \in Nat, n \in Q PROVE n + 1 \in Q
  <2>1. SUFFICES ASSUME n + 1 <= Len(w) PROVE G[n + 1] = F[n + 1]
    OBVIOUS
  <2>2. n + 1 \in 1..Len(w) /\ n <= Len(w) /\ n + 1 <= Len(r)
    BY <1>1, <2>1
  <2>3. r[n + 1] = w[n + 1] /\ G[n] = F[n]
    BY <1>1, <1>5, <2>2
  <2>4. F[n + 1] = F[n] + w[n + 1] /\ G[n + 1] = G[n] + r[n + 1]
    BY <1>2, <1>3, <2>1, <2>2
  <2> QED
    BY <2>3, <2>4
<1>6. \A n \in Nat : n \in Q
  <2> HIDE DEF Q
  <2> QED
    BY <1>4, <1>5, Induction
<1> QED
  BY <1>6 DEF F, G, r

(* The sum of no readings, and of one reading more.                           *)
LEMMA SumOfNone == Sum(<<>>) = 0
<1>1. <<>> \in Seq(Int) /\ Len(<<>>) = 0
  OBVIOUS
<1> QED
  BY <1>1, SumUpToStep DEF Sum

LEMMA SumAppend ==
  ASSUME NEW w \in Seq(Int), NEW x \in Int
  PROVE  Sum(Append(w, x)) = Sum(w) + x
<1> DEFINE r == Append(w, x)
<1>1. r \in Seq(Int) /\ Len(r) = Len(w) + 1 /\ Len(w) \in Nat /\ r[Len(w) + 1] = x
  OBVIOUS
<1>2. SumUpTo(r)[Len(w)] = SumUpTo(w)[Len(w)]
  BY <1>1, SumUpToPrefix
<1> HIDE DEF r
<1>3. SumUpTo(r)[Len(w) + 1] = SumUpTo(r)[Len(w)] + r[Len(w) + 1]
  <2>1. \A n \in Nat : n + 1 <= Len(r) => SumUpTo(r)[n + 1] = SumUpTo(r)[n] + r[n + 1]
    BY <1>1, SumUpToStep
  <2>2. Len(w) + 1 <= Len(r)
    BY <1>1
  <2> QED
    BY <1>1, <2>1, <2>2
<1> QED
  BY <1>1, <1>2, <1>3 DEF Sum, r

(* The squares of one reading more. *)
Squares(w) == [i \in DOMAIN w |-> w[i] * w[i]]

LEMMA SumSquareAppend ==
  ASSUME NEW w \in Seq(Int), NEW x \in Int
  PROVE  SumSquare(Append(w, x)) = SumSquare(w) + x * x
<1> DEFINE q == Squares(w)
           r == Squares(Append(w, x))
<1>1. Append(w, x) \in Seq(Int) /\ Len(Append(w, x)) = Len(w) + 1 /\ Len(w) \in Nat
  OBVIOUS
<1>2. \A i \in 1..Len(w) : Append(w, x)[i] = w[i] /\ w[i] \in Int
  OBVIOUS
<1>3. Append(w, x)[Len(w) + 1] = x
  OBVIOUS
<1>4. q \in Seq(Int) /\ Len(q) = Len(w) /\ \A i \in 1..Len(w) : q[i] = w[i] * w[i]
  BY <1>2, SMTT(30) DEF Squares
<1>5. /\ r \in Seq(Int) /\ Len(r) = Len(w) + 1
      /\ \A i \in 1..(Len(w) + 1) : r[i] = Append(w, x)[i] * Append(w, x)[i]
  BY <1>1 DEF Squares
<1>6. x * x \in Int
  OBVIOUS
<1>7. r = Append(q, x * x)
  <2> DEFINE p == Append(q, x * x)
  <2>1. /\ p \in Seq(Int) /\ Len(p) = Len(w) + 1
        /\ \A i \in 1..Len(w) : p[i] = q[i]
        /\ p[Len(w) + 1] = x * x
    BY <1>4, <1>6
  <2>2. ASSUME NEW i \in 1..(Len(w) + 1) PROVE r[i] = p[i]
    <3>1. CASE i = Len(w) + 1
      BY <1>1, <1>3, <1>5, <2>1, <3>1
    <3>2. CASE i # Len(w) + 1
      <4>1. i \in 1..Len(w)
        BY <1>1, <3>2
      <4> HIDE DEF p, r, q
      <4> QED
        BY <1>2, <1>4, <1>5, <2>1, <4>1
    <3> QED
      BY <3>1, <3>2
  <2>3. p \in Seq(Int) /\ r \in Seq(Int) /\ Len(r) = Len(p)
    BY <1>5, <2>1
  <2>4. \A i \in 1..Len(r) : r[i] = p[i]
    BY <1>5, <2>2
  <2>5. r = p
    <3> HIDE DEF p, r
    <3> QED
      BY <2>3, <2>4, SeqEqual
  <2> QED
    BY <2>5
<1>8. SumSquare(w) = Sum(q) /\ SumSquare(Append(w, x)) = Sum(r)
  BY DEF SumSquare, Squares
<1> HIDE DEF q, r
<1>9. Sum(Append(q, x * x)) = Sum(q) + x * x
  BY <1>4, <1>6, SumAppend
<1> QED
  BY <1>7, <1>8, <1>9

-------------------------------------------------------------------------------
(* The deviation of the latest reading *)

(* One value more, in the inequality of the variance: with n*Q >= S*S,        *)
(* n*((n+1)*(Q + x*x) - (S+x)*(S+x)) = (n+1)*(n*Q - S*S) + (S - n*x)^2.       *)
LEMMA SquaresGrow ==
  ASSUME NEW n \in Nat, NEW S \in Int, NEW Q \in Nat, NEW x \in Int,
         S * S <= n * Q, n = 0 => S = 0 /\ Q = 0
  PROVE  (S + x) * (S + x) <= (n + 1) * (Q + x * x)
<1>1. CASE n = 0
  BY <1>1
<1>2. CASE n # 0
  <2> DEFINE d == n * Q - S * S
             e == S - n * x
             v == (n + 1) * (Q + x * x) - (S + x) * (S + x)
  <2>1. n * v = (n + 1) * d + e * e
    OBVIOUS
  <2>2. d \in Nat /\ e \in Int /\ v \in Int
    OBVIOUS
  <2>3. v >= 0 => (S + x) * (S + x) <= (n + 1) * (Q + x * x)
    OBVIOUS
  <2> HIDE DEF d, e, v
  <2>4. e * e >= 0 /\ (n + 1) * d >= 0
    BY <2>2
  <2>5. n * v >= 0
    BY <2>1, <2>2, <2>4
  <2>6. v >= 0
    BY <1>2, <2>2, <2>5
  <2> QED
    BY <2>3, <2>6
<1> QED
  BY <1>1, <1>2

(* The square of the sum of n readings is at most n times the sum of their    *)
(* squares: the variance of a window is never negative.                       *)
LEMMA SpreadNotNegative ==
  \A w \in Seq(Int) : /\ Sum(w) \in Int /\ SumSquare(w) \in Nat
                      /\ Sum(w) * Sum(w) <= Len(w) * SumSquare(w)
                      /\ w = <<>> => Sum(w) = 0 /\ SumSquare(w) = 0
<1> DEFINE T == {w \in Seq(Int) : /\ Sum(w) \in Int /\ SumSquare(w) \in Nat
                                  /\ Sum(w) * Sum(w) <= Len(w) * SumSquare(w)
                                  /\ w = <<>> => Sum(w) = 0 /\ SumSquare(w) = 0}
<1>1. <<>> \in T
  <2>1. [i \in DOMAIN <<>> |-> <<>>[i] * <<>>[i]] = <<>>
    OBVIOUS
  <2>2. Sum(<<>>) = 0 /\ SumSquare(<<>>) = 0
    BY <2>1, SumOfNone DEF SumSquare
  <2>3. <<>> \in Seq(Int) /\ Len(<<>>) = 0
    OBVIOUS
  <2> QED
    BY <2>2, <2>3
<1>2. ASSUME NEW w \in Seq(Int), NEW x \in Int, w \in T PROVE Append(w, x) \in T
  <2> DEFINE n == Len(w)
             S == Sum(w)
             Q == SumSquare(w)
  <2>1. /\ n \in Nat /\ S \in Int /\ Q \in Nat /\ S * S <= n * Q
        /\ n = 0 => S = 0 /\ Q = 0
    BY <1>2
  <2>2. /\ Append(w, x) \in Seq(Int) /\ Len(Append(w, x)) = n + 1 /\ Append(w, x) # <<>>
    BY <1>2, SMTT(30)
  <2>3. Sum(Append(w, x)) = S + x /\ SumSquare(Append(w, x)) = Q + x * x
    BY <1>2, SumAppend, SumSquareAppend
  <2> HIDE DEF n, S, Q
  <2>4. (S + x) * (S + x) <= (n + 1) * (Q + x * x)
    BY <1>2, <2>1, SquaresGrow
  <2>5. S + x \in Int /\ Q + x * x \in Nat
    <3>1. x * x \in Nat
      BY <1>2
    <3> QED
      BY <1>2, <2>1, <3>1
  <2> QED
    BY <2>2, <2>3, <2>4, <2>5
<1>3. \A w \in Seq(Int) : w \in T
  <2> HIDE DEF T
  <2> QED
    BY <1>1, <1>2, SequenceInduction
<1> QED
  BY <1>3

(* The squared deviation of the latest of n readings is at most n - 1 times    *)
(* the variance: with the others' sums R and P,                                *)
(* (n-1)*Spread - Deviation^2 = n*((n-1)*P - R*R).                             *)
LEMMA DeviationBound ==
  ASSUME NEW w \in Seq(Int), w # <<>>
  PROVE  /\ Spread(w) \in Nat /\ Deviation(w) \in Int /\ Len(w) - 1 \in Nat
         /\ Deviation(w) * Deviation(w) <= (Len(w) - 1) * Spread(w)
<1>1. PICK p \in Seq(Int), x \in Int : w = Append(p, x) /\ Len(p) = Len(w) - 1
  <2>1. Len(w) # 0
    OBVIOUS
  <2> QED
    BY <2>1, FrontAndLast
<1> DEFINE m == Len(p)
           R == Sum(p)
           P == SumSquare(p)
<1>2. /\ m \in Nat /\ R \in Int /\ P \in Nat /\ R * R <= m * P
  BY SpreadNotNegative
<1>3. Len(w) = m + 1 /\ Last(w) = x /\ Sum(w) = R + x /\ SumSquare(w) = P + x * x
  BY <1>1, SumAppend, SumSquareAppend, SMTT(30) DEF Last
<1>4. (R + x) * (R + x) <= (m + 1) * (P + x * x)
  <2>1. Sum(w) * Sum(w) <= Len(w) * SumSquare(w)
    BY SpreadNotNegative
  <2> HIDE DEF m, R, P
  <2> QED
    BY <1>3, <2>1
<1>5. /\ Deviation(w) = (m + 1) * x - (R + x)
      /\ Spread(w) = (m + 1) * (P + x * x) - (R + x) * (R + x)
  BY <1>3 DEF Deviation, Spread
<1> HIDE DEF m, R, P
<1> DEFINE d == (m + 1) * x - (R + x)
           v == (m + 1) * (P + x * x) - (R + x) * (R + x)
           k == m * P - R * R
<1>6. m * v - d * d = (m + 1) * k
  BY <1>1, <1>2
<1>7. d \in Int /\ v \in Nat /\ k \in Nat
  <2>1. d \in Int /\ v \in Int /\ k \in Int
    BY <1>1, <1>2
  <2>2. v >= 0 /\ k >= 0
    BY <1>1, <1>2, <1>4
  <2> QED
    BY <2>1, <2>2
<1>8. Deviation(w) = d /\ Spread(w) = v
  BY <1>5
<1> HIDE DEF d, v, k
<1>9. d * d <= m * v
  <2>1. (m + 1) * k \in Nat /\ m * v \in Int /\ d * d \in Int
    BY <1>2, <1>7
  <2> QED
    BY <1>6, <2>1
<1>10. Len(w) - 1 = m
  BY <1>2, <1>3
<1> QED
  BY <1>2, <1>7, <1>8, <1>9, <1>10

(* A window with an anomaly has a variance, and more readings than the square *)
(* of the threshold.                                                          *)
LEMMA AnomalyBound ==
  ASSUME NEW w \in Seq(Int), w # <<>>, NEW t \in Nat, Anomalous(w, t)
  PROVE  t * t < Unit * Unit * (Len(w) - 1) /\ Spread(w) > 0
<1> DEFINE u == Unit * Unit
           d == Deviation(w)
           v == Spread(w)
           m == Len(w) - 1
           h == t * t
           e == d * d
<1>1. v \in Nat /\ d \in Int /\ m \in Nat /\ e <= m * v
  BY DeviationBound
<1>2. u \in Nat /\ h \in Nat /\ e \in Int
  <2> HIDE DEF d
  <2> QED
    BY <1>1, FilterAssumption
<1>3. u * e > h * v
  <2>1. Unit * Unit * d * d > t * t * v
    BY DEF Anomalous
  <2>2. d \in Int /\ Unit \in Int
    BY <1>1, FilterAssumption
  <2> HIDE DEF d, v
  <2>3. Unit * Unit * d * d = u * e
    BY <2>2
  <2> QED
    BY <2>1, <2>3
<1> HIDE DEF u, d, v, m, h, e
<1>4. u * e <= u * (m * v)
  BY <1>1, <1>2
<1>5. u * (m * v) = (u * m) * v
  BY <1>1, <1>2
<1>6. (u * m) * v > h * v
  BY <1>1, <1>2, <1>3, <1>4, <1>5
<1>7. v > 0 /\ h < u * m
  <2> DEFINE g == u * m
  <2>1. g \in Nat
    BY <1>1, <1>2
  <2>2. g * v > h * v
    BY <1>6
  <2> HIDE DEF g
  <2>3. v # 0
    BY <1>1, <1>2, <2>1, <2>2
  <2>4. ASSUME g <= h PROVE FALSE
    <3>1. g * v <= h * v
      BY <1>1, <1>2, <2>1, <2>4
    <3> QED
      BY <1>1, <1>2, <2>1, <2>2, <3>1
  <2>5. v > 0 /\ h < g
    BY <1>1, <1>2, <2>1, <2>3, <2>4
  <2> QED
    BY <2>5 DEF g
<1> QED
  BY <1>7 DEF u, v, m, h

(* A window into which a reading was slid is not empty.                       *)
LEMMA SlideNotEmpty ==
  ASSUME NEW buf \in Seq(Int), NEW reading \in Int
  PROVE  Slide(buf, reading) # <<>>
<1> DEFINE longer == Append(buf, reading)
<1>1. longer \in Seq(Int) /\ Len(longer) = Len(buf) + 1 /\ Len(buf) \in Nat
  OBVIOUS
<1> HIDE DEF longer
<1>2. CASE Len(longer) > Window
  <2>1. Len(longer) > 1 /\ longer # <<>>
    BY <1>1, <1>2, FilterAssumption
  <2>2. Len(Tail(longer)) = Len(longer) - 1
    BY <1>1, <2>1, HeadTailProperties
  <2>3. Tail(longer) # <<>>
    <3>1. Len(Tail(longer)) > 0
      BY <1>1, <2>1, <2>2
    <3> DEFINE rest == Tail(longer)
    <3>2. Len(rest) > 0
      BY <3>1
    <3> HIDE DEF rest
    <3>3. rest # <<>>
      BY <3>2
    <3> QED
      BY <3>3 DEF rest
  <2> QED
    BY <1>2, <2>3 DEF Slide, longer
<1>3. CASE ~(Len(longer) > Window)
  BY <1>1, <1>3 DEF Slide, longer
<1> QED
  BY <1>2, <1>3

(* The sample that the processor works on has a reading in its window.        *)
WindowInUse ==
  pPc = "work" => held[1].src \in Sensors /\ buffers[held[1].src] # <<>>

LEMMA WindowStep == TypeInv /\ WindowInUse /\ [Next]_vars => WindowInUse'
<1> SUFFICES ASSUME TypeInv, WindowInUse, [Next]_vars PROVE WindowInUse'
  OBVIOUS
<1>1. CASE Receive
  <2>1. PICK data \in Sample, reading \in Readings :
          /\ chan # <<>> /\ data = Head(chan) /\ data = chan[1]
          /\ data.src \in Sensors /\ data.seq \in Nat /\ data.ts \in Nat
          /\ data.jitter \in Nat
          /\ ReceiveSample(data, reading)
    BY <1>1, ReceiveNamed
  <2>2. /\ held' = <<data>>
        /\ buffers' = [buffers EXCEPT ![data.src] = Slide(@, reading)]
        /\ buffers \in [Sensors -> Seq(Int)]
    BY <2>1 DEF ReceiveSample, TypeInv, StoreTypes
  <2>3. buffers'[data.src] = Slide(buffers[data.src], reading) /\ buffers[data.src] \in Seq(Int)
    BY <2>1, <2>2
  <2>4. buffers'[data.src] # <<>>
    BY <2>3, SlideNotEmpty, AcquisitionAssumption
  <2> QED
    BY <2>1, <2>2, <2>4 DEF WindowInUse
<1>2. CASE FinishCycle
  BY <1>2 DEF FinishCycle, WindowInUse
<1>3. CASE UNCHANGED <<pPc, held, buffers>>
  BY <1>3 DEF WindowInUse
<1>4. ASSUME NEW s \in Sensors, SensorStep(s) PROVE UNCHANGED <<pPc, held, buffers>>
  BY <1>4 DEF SensorStep, Start, CheckDeadline, Release, Send, FinishLoop, StoreAndSchedule,
     procVars
<1> QED
  BY <1>1, <1>2, <1>3, <1>4 DEF Next, Tick, TimeIsUp, vars, procVars

(* The latest reading can be anomalous only in a window with more than        *)
(* threshold^2 + 1 readings, whatever the readings, and the test of the async *)
(* processor differs from that of the processor in its threshold only: its    *)
(* guards (two readings, a variance) never decide.                            *)
THEOREM AnomalyNeedsReadings == Spec => []AnomalyNeedsWindow
<1>1. Init => WindowInUse
  BY DEF Init, WindowInUse
<1>2. TypeInv /\ WindowInUse => AnomalyNeedsWindow
  <2> SUFFICES ASSUME TypeInv, WindowInUse, pPc = "work"
               PROVE  LET w == buffers[held[1].src] IN
                      /\ \A t \in Thresholds : Anomalous(w, t) => t * t < Unit * Unit * (Len(w) - 1)
                      /\ AsyncAnomalous(w) <=> Anomalous(w, 3 * Unit)
    BY DEF AnomalyNeedsWindow
  <2> DEFINE w == buffers[held[1].src]
  <2>1. w \in Seq(Int) /\ w # <<>>
    BY DEF WindowInUse, TypeInv, StoreTypes
  <2> HIDE DEF w
  <2>2. \A t \in Thresholds : Anomalous(w, t) => t * t < Unit * Unit * (Len(w) - 1)
    BY <2>1, AnomalyBound, AcquisitionAssumption
  <2>3. ASSUME Anomalous(w, 3 * Unit) PROVE AsyncAnomalous(w)
    <3>1. 3 * Unit \in Nat /\ Unit \in Nat \ {0} /\ Len(w) \in Nat
      BY <2>1, FilterAssumption
    <3>2. (3 * Unit) * (3 * Unit) < Unit * Unit * (Len(w) - 1) /\ Spread(w) > 0
      BY <2>1, <2>3, <3>1, AnomalyBound
    <3>3. Len(w) >= 2
      <4>1. ASSUME Len(w) <= 1 PROVE FALSE
        <5>1. Unit * Unit \in Nat /\ Len(w) - 1 <= 0 /\ Len(w) - 1 \in Int
          BY <3>1, <4>1
        <5>2. Unit * Unit * (Len(w) - 1) <= 0
          BY <5>1
        <5>3. (3 * Unit) * (3 * Unit) >= 0
          BY <3>1
        <5> QED
          BY <3>1, <3>2, <5>1, <5>2, <5>3
      <4> QED
        BY <3>1, <4>1
    <3> QED
      BY <2>3, <3>2, <3>3 DEF AsyncAnomalous
  <2>4. AsyncAnomalous(w) => Anomalous(w, 3 * Unit)
    BY DEF AsyncAnomalous
  <2> QED
    BY <2>2, <2>3, <2>4 DEF w
<1> QED
  BY <1>1, <1>2, InitType, TypeStep, WindowStep, PTL DEF Spec

=============================================================================
