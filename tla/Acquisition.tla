------------------------------- MODULE Acquisition -------------------------------
(***************************************************************************)
(* Time in the threaded pipeline: the periodic release of the sensors      *)
(* (component_a/sensor.rs), the filter window and the deadline of the      *)
(* processor (component_a/processor.rs), and the series both of them push  *)
(* into the shared Metrics.                                                *)
(*                                                                         *)
(* The clock is an integer that runs on between any two steps, so a sleep  *)
(* or a preempted thread may be late by any amount.  The value of a        *)
(* reading is chosen when the processor first uses it; in a series, a      *)
(* reading is the number of its sample and an average the number of the    *)
(* latest sample in it.  The running flag and the channels behind the processor are in   *)
(* Pipeline; the feedback, which sets the threshold, is in FeedbackLoop.   *)
(***************************************************************************)
EXTENDS Metrics, Filter

CONSTANTS
  Sensors,     \* the sensor threads
  Period,      \* sampling_rate_ms (5 ms) and expected_interval_us (5000)
  Busy,        \* BUSY_US (110 us) of simulated work
  Deadline,    \* deadline_us (200 us)
  ChanCap,     \* capacity of the sensors -> processor channel (2048)
  MaxPoints,   \* MAX_POINTS (1000)
  Readings,    \* bound of the model: the values of a reading
  Thresholds,  \* bound of the model: the values of anomaly_threshold
  MaxSeq,      \* bound of the model: samples of one sensor
  MaxTime      \* bound of the model: the clock

ASSUME AcquisitionAssumption ==
  /\ Period \in Nat \ {0} /\ Busy \in Nat /\ Deadline \in Nat
  /\ ChanCap \in Nat \ {0} /\ MaxPoints \in Nat \ {0}
  /\ Readings \subseteq Int /\ Thresholds \subseteq Nat
  /\ MaxSeq \in Nat /\ MaxTime \in Nat

VARIABLES
  now,           \* the clock
  sPc,           \* sPc[s]: where sensor s is in its loop
  seq,           \* its locals: seq,
  nextDeadline,  \*   next_deadline,
  lastTick,      \*   last_tick
  jitter,        \*   and jitter_us
  sent,          \*   and sent
  chan,          \* the channel: samples with their time stamps
  pPc,           \* where the processor is
  held,          \* the sample it works on, as a sequence of at most one
  cycleStart,    \* its cycle_start
  buffers,       \* buffers[s]: the filter window
  lastTs,        \* lastTs[s]: last_ts, and never before the first sample of s
  reported,      \* the jitter that the processor last recorded
  metrics,       \* the counters of the shared Metrics
  series,        \* series[s]: its force, position or temperature
  lateBefore,    \* history: the lateness of the release before the latest,
  late,          \*   and of the latest; the start of the loop counts as the first
  missed,        \*   and whether the latest was counted as a miss
  received,      \* history: the samples of s that the processor received,
  readings,      \*   and their readings
  pushed         \* history: all that was ever pushed into series[s]

sensorVars  == <<sPc, seq, nextDeadline, lastTick, jitter, sent>>
procVars    == <<pPc, held, cycleStart, buffers, lastTs, reported>>
releaseVars == <<lateBefore, late, missed>>
vars == <<now, sensorVars, chan, procVars, metrics, series, releaseVars, received,
          readings, pushed>>

Sample == [src : Sensors, seq : Nat, ts : Nat, jitter : Nat]
Value  == [kind : {"raw", "avg"}, seq : Nat]

Abs(x) == IF x < 0 THEN -x ELSE x

never == -1

Init ==
  /\ now = 0
  /\ sPc = [s \in Sensors |-> "start"]
  /\ seq = [s \in Sensors |-> 1]
  /\ nextDeadline = [s \in Sensors |-> Period]
  /\ lastTick = [s \in Sensors |-> 0]
  /\ jitter = [s \in Sensors |-> 0] /\ sent = [s \in Sensors |-> FALSE]
  /\ chan = <<>>
  /\ pPc = "recv" /\ held = <<>> /\ cycleStart = 0
  /\ buffers = [s \in Sensors |-> <<>>]
  /\ lastTs = [s \in Sensors |-> never] /\ reported = 0
  /\ metrics = DefaultMetrics
  /\ series = [s \in Sensors |-> <<>>]
  /\ lateBefore = [s \in Sensors |-> 0] /\ late = [s \in Sensors |-> 0]
  /\ missed = [s \in Sensors |-> FALSE]
  /\ received = [s \in Sensors |-> <<>>]
  /\ readings = [s \in Sensors |-> <<>>] /\ pushed = [s \in Sensors |-> <<>>]

Tick ==
  /\ now < MaxTime /\ now' = now + 1
  /\ UNCHANGED <<sensorVars, chan, procVars, metrics, series, releaseVars,
                 received, readings, pushed>>

-------------------------------------------------------------------------------
(* Sensor::run *)

(* The sensors start at time 0; between its first and its second look at the *)
(* clock, a sensor may be delayed.                                           *)
Start(s) ==
  /\ sPc[s] = "start"
  /\ lastTick' = [lastTick EXCEPT ![s] = now]
  /\ late' = [late EXCEPT ![s] = now]
  /\ sPc' = [sPc EXCEPT ![s] = "check"]
  /\ UNCHANGED <<now, seq, nextDeadline, jitter, sent, chan, procVars, metrics,
                 series, lateBefore, missed, received, readings, pushed>>

(* Variant: a deadline that has just passed is not a miss. *)
DeadlinePassedLate(s) == now >= nextDeadline[s] + Period

DeadlinePassed(s) == now >= nextDeadline[s]

(* The loop head reads the clock: before the deadline the sensor sleeps,   *)
(* else this release counts as a miss.                                     *)
CheckDeadline(s) ==
  /\ sPc[s] = "check" /\ seq[s] <= MaxSeq
  /\ sPc' = [sPc EXCEPT ![s] = IF DeadlinePassed(s) THEN "awake" ELSE "asleep"]
  /\ missed' = [missed EXCEPT ![s] = DeadlinePassed(s)]
  /\ metrics' = IF DeadlinePassed(s) THEN RecordMiss(metrics, "sensor") ELSE metrics
  /\ UNCHANGED <<now, seq, nextDeadline, lastTick, jitter, sent, chan, procVars,
                 series, lateBefore, late, received, readings, pushed>>

(* The sleeper returns at the deadline or later; actual_tick is read, and the *)
(* jitter is the deviation of the actual period.                              *)
Release(s) ==
  /\ \/ sPc[s] = "awake"
     \/ sPc[s] = "asleep" /\ now >= nextDeadline[s]
  /\ jitter' = [jitter EXCEPT ![s] = Abs((now - lastTick[s]) - Period)]
  /\ lastTick' = [lastTick EXCEPT ![s] = now]
  /\ lateBefore' = [lateBefore EXCEPT ![s] = late[s]]
  /\ late' = [late EXCEPT ![s] = now - nextDeadline[s]]
  /\ sPc' = [sPc EXCEPT ![s] = "send"]
  /\ UNCHANGED <<now, seq, nextDeadline, sent, chan, procVars, metrics, series,
                 missed, received, readings, pushed>>

(* Variant: the channel takes one sample too many. *)
ChannelTakesMore == Len(chan) <= ChanCap

ChannelTakes == Len(chan) < ChanCap

(* try_send; a full channel drops the sample. *)
Send(s) ==
  /\ sPc[s] = "send"
  /\ sent' = [sent EXCEPT ![s] = ChannelTakes]
  /\ chan' = IF ChannelTakes
             THEN Append(chan, [src |-> s, seq |-> seq[s], ts |-> lastTick[s],
                                jitter |-> jitter[s]])
             ELSE chan
  /\ sPc' = [sPc EXCEPT ![s] = "store"]
  /\ UNCHANGED <<now, seq, nextDeadline, lastTick, jitter, procVars, metrics,
                 series, releaseVars, received, readings, pushed>>

PushValue(s, value) ==
  /\ series' = [series EXCEPT ![s] = PushCapped(@, value, MaxPoints)]
  /\ pushed' = [pushed EXCEPT ![s] = Append(@, value)]

(* seq goes on, and the locals of the iteration end. *)
EndIteration(s) ==
  /\ seq' = [seq EXCEPT ![s] = @ + 1]
  /\ jitter' = [jitter EXCEPT ![s] = 0]
  /\ sent' = [sent EXCEPT ![s] = FALSE]
  /\ lateBefore' = [lateBefore EXCEPT ![s] = 0]
  /\ missed' = [missed EXCEPT ![s] = FALSE]
  /\ sPc' = [sPc EXCEPT ![s] = "check"]

(* The reading goes into the series of its type when it was sent, and the *)
(* schedule moves on.                                                     *)
StoreAndSchedule(s, deadline) ==
  /\ sPc[s] = "store"
  /\ IF sent[s] THEN PushValue(s, [kind |-> "raw", seq |-> seq[s]])
                ELSE UNCHANGED <<series, pushed>>
  /\ nextDeadline' = [nextDeadline EXCEPT ![s] = deadline]
  /\ EndIteration(s)
  /\ UNCHANGED <<now, lastTick, late, chan, procVars, metrics, received, readings>>

(* Variant: the next deadline is counted from the release. *)
FinishLoopDrifting(s) == StoreAndSchedule(s, lastTick[s] + Period)

(* next_deadline += period *)
FinishLoop(s) == StoreAndSchedule(s, nextDeadline[s] + Period)

-------------------------------------------------------------------------------
(* Processor::run, process_data and update_metrics *)

(* A sample is measured against the one before, enters the window of its   *)
(* sensor, and the average goes into the same series as the readings.      *)
Receive ==
  /\ pPc = "recv" /\ chan # <<>>
  /\ LET data == Head(chan) IN
     /\ held' = <<data>>
     /\ reported' = IF lastTs[data.src] = never THEN 0
                    ELSE Abs((data.ts - lastTs[data.src]) - Period)
     /\ lastTs' = [lastTs EXCEPT ![data.src] = data.ts]
     /\ \E reading \in Readings :
          /\ buffers' = [buffers EXCEPT ![data.src] = Slide(@, reading)]
          /\ readings' = [readings EXCEPT ![data.src] = Append(@, reading)]
     /\ received' = [received EXCEPT ![data.src] = Append(@, data.seq)]
     /\ PushValue(data.src, [kind |-> "avg", seq |-> data.seq])
  /\ chan' = Tail(chan)
  /\ cycleStart' = now
  /\ pPc' = "work"
  /\ UNCHANGED <<now, sensorVars, metrics, releaseVars>>

(* After the simulated work, the test and the transmission. *)
FinishCycle ==
  /\ pPc = "work" /\ now >= cycleStart + Busy
  /\ LET elapsed == now - cycleStart
         cycle   == [metrics EXCEPT !.total_cycles = @ + 1]
     IN  metrics' = IF elapsed > Deadline THEN RecordMiss(cycle, "processor") ELSE cycle
  /\ held' = <<>> /\ cycleStart' = 0 /\ reported' = 0 /\ pPc' = "recv"
  /\ UNCHANGED <<now, sensorVars, chan, buffers, lastTs, series,
                 releaseVars, received, readings, pushed>>

-------------------------------------------------------------------------------
SensorStep(s) == Start(s) \/ CheckDeadline(s) \/ Release(s) \/ Send(s) \/ FinishLoop(s)

(* The bound of the clock is reached. *)
TimeIsUp == now = MaxTime /\ UNCHANGED vars

Next ==
  \/ Tick
  \/ \E s \in Sensors : SensorStep(s)
  \/ Receive \/ FinishCycle
  \/ TimeIsUp

Spec == Init /\ [][Next]_vars

-------------------------------------------------------------------------------
(* Properties *)

TypeOK ==
  /\ now \in Nat
  /\ sPc \in [Sensors -> {"start", "check", "asleep", "awake", "send", "store"}]
  /\ seq \in [Sensors -> Nat \ {0}]
  /\ nextDeadline \in [Sensors -> Nat] /\ lastTick \in [Sensors -> Nat]
  /\ jitter \in [Sensors -> Nat] /\ sent \in [Sensors -> BOOLEAN]
  /\ chan \in Seq(Sample) /\ Len(chan) <= ChanCap
  /\ pPc \in {"recv", "work"} /\ held \in Seq(Sample)
  /\ cycleStart \in 0..now
  /\ buffers \in [Sensors -> Seq(Int)]
  /\ lastTs \in [Sensors -> Nat \cup {never}] /\ reported \in Nat
  /\ metrics \in MetricsRecord
  /\ series \in [Sensors -> Seq(Value)]
  /\ lateBefore \in [Sensors -> Nat] /\ late \in [Sensors -> Nat]
  /\ missed \in [Sensors -> BOOLEAN]
  /\ received \in [Sensors -> Seq(Nat)] /\ readings \in [Sensors -> Seq(Int)]
  /\ pushed \in [Sensors -> Seq(Value)]

(* s has made a release and is not yet through with it. *)
Released(s) == sPc[s] \in {"send", "store"}

(* A sensor that fell behind does not skip a release: it catches up at most   *)
(* one period per sample, and every release whose predecessor was a period    *)
(* late or more is counted as a miss (sensor.rs:110-129).  So a release that  *)
(* comes k periods late is followed by at least k counted misses.             *)
BacklogIsCounted ==
  \A s \in Sensors : Released(s) =>
    /\ late[s] >= lateBefore[s] - Period
    /\ lateBefore[s] >= Period => missed[s]

(* The sample that the processor works on is the next of its sensor after the *)
(* one it received before: none between them was dropped.                     *)
Consecutive(d) ==
  LET r == received[d.src] IN Len(r) > 1 /\ r[Len(r) - 1] = d.seq - 1

(* The jitter is the change of the lateness from one release to the next      *)
(* (sensor.rs:147-149): as the schedule does not drift, a sensor that is late *)
(* by the same time at every release shows none.  The processor records the   *)
(* same jitter (processor.rs:139-147) unless a sample before was dropped.     *)
JitterIsChangeOfLateness ==
  /\ \A s \in Sensors : Released(s) => jitter[s] = Abs(late[s] - lateBefore[s])
  /\ \A i \in DOMAIN held : Consecutive(held[i]) => reported = held[i].jitter

LatestOf(q, n) == SubSeq(q, IF Len(q) > n THEN Len(q) - n + 1 ELSE 1, Len(q))

(* The window of a sensor holds the latest readings that arrived from it,     *)
(* however the samples of the sensors are mixed in the channel, and a series  *)
(* the latest values that its sensor and the processor pushed, in the order   *)
(* in which they pushed them (processor.rs:197-203, metrics.rs:240-254).      *)
LatestAreKept ==
  \A s \in Sensors :
    /\ buffers[s] = LatestOf(readings[s], Window)
    /\ series[s] = LatestOf(pushed[s], MaxPoints)

(* With n readings in the window the latest can be anomalous only if          *)
(* threshold^2 < n - 1: a first reading never is, nor one in a constant       *)
(* window (processor.rs:229-232); and with ten readings and a threshold of    *)
(* 3.0 or more no reading is, however far out.  The test of the async         *)
(* processor (async_processor.rs:65-81) is the same with 3.0 for good.        *)
AnomalyNeedsWindow ==
  pPc = "work" =>
    LET w == buffers[held[1].src] IN
    /\ \A t \in Thresholds : Anomalous(w, t) => t * t < Unit * Unit * (Len(w) - 1)
    /\ AsyncAnomalous(w) <=> Anomalous(w, 3 * Unit)

==============================================================================
