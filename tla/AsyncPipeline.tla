----------------------------- MODULE AsyncPipeline -----------------------------
(***************************************************************************)
(* The tokio pipeline of src/bin/async_main.rs: sensor tasks -> processor  *)
(* task -> bridge thread, over two bounded mpsc channels written with      *)
(* try_send.  In contrast to the threaded pipeline the tasks are detached  *)
(* and leave on the running flag alone: the processor drops its channel    *)
(* with whatever is in it, and main returns after a sleep, without a join. *)
(*                                                                         *)
(* A sample is its sensor and its number; readings, the filter and the     *)
(* clock are left out.  The blocking closure of the filter cannot fail, so *)
(* the exit for a failed closure has no step here.                         *)
(***************************************************************************)
EXTENDS Integers, Sequences, FiniteSets, SensorLines

CONSTANTS
  Sensors,     \* the sensor tasks
  SensorCap,   \* capacity of the sensors -> processor channel (1024)
  OutCap,      \* capacity of the processor -> bridge channel (1024)
  MaxSeq       \* bound of the model: samples one sensor produces

ASSUME AsyncAssumption ==
  IsFiniteSet(Sensors) /\ SensorCap \in Nat \ {0} /\ OutCap \in Nat \ {0} /\ MaxSeq \in Nat

VARIABLES
  running,    \* the shared running flag
  returned,   \* main has returned, which ends every task and thread
  sPc, seq,   \* where sensor task s is, and the number of its next sample
  sensorQ,    \* channel sensors -> processor
  pPc, pHeld, \* where the processor task is, and its sample (at most one)
  outQ,       \* channel processor -> bridge
  received,   \* history: what the bridge has received, in order
  drops,      \* drops[stage][s]: record_tx_drop calls for samples of s
  samples,    \* samples[s]: record_sample calls for sensor s
  abandoned   \* history: the samples that went away with the processor

taskVars == <<sPc, seq, sensorQ, pPc, pHeld, outQ, received, drops, samples, abandoned>>
vars     == <<running, returned, taskVars>>

Sample == [src : Sensors, seq : Nat \ {0}]

CountSample(s) == samples' = [samples EXCEPT ![s] = @ + 1]

(* Variant: only the sensors count their drops. *)
CountDropAtSensor(stage, s) ==
  IF stage = "sensor" THEN drops' = [drops EXCEPT ![stage][s] = @ + 1]
                      ELSE UNCHANGED drops

CountDrop(stage, s) == drops' = [drops EXCEPT ![stage][s] = @ + 1]

Init ==
  /\ running = TRUE /\ returned = FALSE
  /\ sPc = [s \in Sensors |-> "check"] /\ seq = [s \in Sensors |-> 1]
  /\ sensorQ = <<>> /\ outQ = <<>> /\ received = <<>>
  /\ pPc = "recv" /\ pHeld = <<>>
  /\ drops = [g \in {"sensor", "transmit"} |-> [s \in Sensors |-> 0]]
  /\ samples = [s \in Sensors |-> 0]
  /\ abandoned = <<>>

-------------------------------------------------------------------------------
(* async_sensor *)

(* Variant: the loop does not look at the flag. *)
SensorCheckDeaf(s) ==
  /\ sPc[s] = "check" /\ seq[s] <= MaxSeq
  /\ sPc' = [sPc EXCEPT ![s] = "tick"]
  /\ UNCHANGED <<seq, sensorQ, pPc, pHeld, outQ, received, drops, samples, abandoned>>

(* The loop head: leave when the flag is clear, else wait for the tick. *)
SensorCheck(s) ==
  /\ sPc[s] = "check"
  /\ \/ running /\ seq[s] <= MaxSeq /\ sPc' = [sPc EXCEPT ![s] = "tick"]
     \/ ~running /\ sPc' = [sPc EXCEPT ![s] = "stopped"]
  /\ UNCHANGED <<seq, sensorQ, pPc, pHeld, outQ, received, drops, samples, abandoned>>

(* Variant: the channel is unbounded. *)
SensorChannelOpenAlways == pPc # "stopped"

(* try_send succeeds: the processor has the channel and there is room. *)
SensorChannelOpen == pPc # "stopped" /\ Len(sensorQ) < SensorCap

(* After the tick: the sample is sent and counted, or counted as a drop; *)
(* the loop goes on also when the processor has gone.                    *)
SensorTick(s) ==
  /\ sPc[s] = "tick"
  /\ \/ /\ SensorChannelOpen
        /\ sensorQ' = Append(sensorQ, [src |-> s, seq |-> seq[s]])
        /\ CountSample(s)
        /\ UNCHANGED drops
     \/ /\ ~SensorChannelOpen
        /\ CountDrop("sensor", s)
        /\ UNCHANGED <<sensorQ, samples>>
  /\ seq' = [seq EXCEPT ![s] = @ + 1]
  /\ sPc' = [sPc EXCEPT ![s] = "check"]
  /\ UNCHANGED <<pPc, pHeld, outQ, received, abandoned>>

-------------------------------------------------------------------------------
(* async_processor_task and async_transmit *)

ProcRecv ==
  /\ pPc = "recv" /\ sensorQ # <<>>
  /\ pHeld' = <<Head(sensorQ)>>
  /\ sensorQ' = Tail(sensorQ)
  /\ pPc' = "check"
  /\ UNCHANGED <<sPc, seq, outQ, received, drops, samples, abandoned>>

(* recv returns None: the channel is empty and every sensor has ended. *)
ProcEnd ==
  /\ pPc = "recv" /\ sensorQ = <<>> /\ \A s \in Sensors : sPc[s] = "stopped"
  /\ pPc' = "stopped"
  /\ UNCHANGED <<sPc, seq, sensorQ, pHeld, outQ, received, drops, samples, abandoned>>

(* The task ends: its sample and its channel go with it, uncounted. *)
Abandon ==
  /\ pPc' = "stopped" /\ pHeld' = <<>> /\ sensorQ' = <<>>
  /\ abandoned' = abandoned \o pHeld \o sensorQ

(* The flag is read after recv: a sample received too late ends the task. *)
ProcCheck ==
  /\ pPc = "check"
  /\ \/ running /\ pPc' = "transmit" /\ UNCHANGED <<pHeld, sensorQ, abandoned>>
     \/ ~running /\ Abandon
  /\ UNCHANGED <<sPc, seq, outQ, received, drops, samples>>

(* Variant: a packet that cannot be sent ends the task. *)
ProcTransmitOrLeave ==
  /\ pPc = "transmit"
  /\ LET s == pHeld[1].src IN
     \/ /\ Len(outQ) < OutCap
        /\ outQ' = outQ \o pHeld
        /\ CountSample(s)
        /\ pPc' = "recv" /\ pHeld' = <<>>
        /\ UNCHANGED <<drops, sensorQ, abandoned>>
     \/ Len(outQ) = OutCap /\ Abandon /\ UNCHANGED <<outQ, drops, samples>>
  /\ UNCHANGED <<sPc, seq, received>>

(* Variant: the sample is counted before the result of try_send is known. *)
ProcTransmitCountFirst ==
  /\ pPc = "transmit"
  /\ LET s == pHeld[1].src IN
     /\ CountSample(s)
     /\ \/ /\ Len(outQ) < OutCap /\ outQ' = outQ \o pHeld /\ UNCHANGED drops
        \/ /\ Len(outQ) = OutCap /\ CountDrop("transmit", s) /\ UNCHANGED outQ
  /\ pPc' = "recv" /\ pHeld' = <<>>
  /\ UNCHANGED <<sPc, seq, sensorQ, received, abandoned>>

(* try_send to the bridge: counted as a sample or as a drop.  The bridge *)
(* holds its end for as long as the process lives.                       *)
ProcTransmit ==
  /\ pPc = "transmit"
  /\ LET s == pHeld[1].src IN
     \/ /\ Len(outQ) < OutCap
        /\ outQ' = outQ \o pHeld
        /\ CountSample(s)
        /\ UNCHANGED drops
     \/ /\ Len(outQ) = OutCap
        /\ CountDrop("transmit", s)
        /\ UNCHANGED <<outQ, samples>>
  /\ pPc' = "recv" /\ pHeld' = <<>>
  /\ UNCHANGED <<sPc, seq, sensorQ, received, abandoned>>

-------------------------------------------------------------------------------
(* The bridge thread and main of async_main.rs *)

(* Variant: the bridge waits for a full channel. *)
BridgeRecvBatch ==
  /\ Len(outQ) = OutCap
  /\ received' = received \o outQ /\ outQ' = <<>>
  /\ UNCHANGED <<sPc, seq, sensorQ, pPc, pHeld, drops, samples, abandoned>>

(* main keeps a sender, so blocking_recv never returns None. *)
BridgeRecv ==
  /\ outQ # <<>>
  /\ received' = Append(received, Head(outQ)) /\ outQ' = Tail(outQ)
  /\ UNCHANGED <<sPc, seq, sensorQ, pPc, pHeld, drops, samples, abandoned>>

MainStop   == running /\ running' = FALSE /\ UNCHANGED <<returned, taskVars>>
(* 500 ms later, whatever the tasks have got to. *)
MainReturn == ~running /\ ~returned /\ returned' = TRUE /\ UNCHANGED <<running, taskVars>>

-------------------------------------------------------------------------------
TaskStep(step) == ~returned /\ step /\ UNCHANGED <<running, returned>>

Sensor(s) == TaskStep(SensorCheck(s) \/ SensorTick(s))
Processor == TaskStep(ProcRecv \/ ProcEnd \/ ProcCheck \/ ProcTransmit)
Bridge    == TaskStep(BridgeRecv)

Next ==
  \/ \E s \in Sensors : Sensor(s)
  \/ Processor
  \/ Bridge
  \/ MainStop
  \/ MainReturn
  \/ returned /\ UNCHANGED vars

(* The runtime keeps polling the tasks and the bridge is scheduled; nothing *)
(* is said of when main stops the run or returns.                           *)
Fairness ==
  /\ \A s \in Sensors : WF_vars(Sensor(s))
  /\ WF_vars(Processor) /\ WF_vars(Bridge)

Spec     == Init /\ [][Next]_vars
FairSpec == Spec /\ Fairness

-------------------------------------------------------------------------------
(* Properties *)

(* Every variable has its type and no channel exceeds its capacity. *)
TypeOK ==
  /\ running \in BOOLEAN /\ returned \in BOOLEAN
  /\ sPc \in [Sensors -> {"check", "tick", "stopped"}]
  /\ seq \in [Sensors -> Nat \ {0}]
  /\ sensorQ \in Seq(Sample) /\ Len(sensorQ) <= SensorCap
  /\ pPc \in {"recv", "check", "transmit", "stopped"}
  /\ pHeld \in Seq(Sample)
  /\ Len(pHeld) = IF pPc \in {"check", "transmit"} THEN 1 ELSE 0
  /\ outQ \in Seq(Sample) /\ Len(outQ) <= OutCap
  /\ received \in Seq(Sample)
  /\ drops \in [{"sensor", "transmit"} -> [Sensors -> Nat]]
  /\ samples \in [Sensors -> Nat] /\ abandoned \in Seq(Sample)

(* The numbers of what the bridge has received of s and of what is still under *)
(* way, oldest first.                                                          *)
Line(s) == NumbersOf(s, received \o outQ \o pHeld \o sensorQ)

(* Each sensor's samples reach the bridge once and in order, through drops    *)
(* at both channels, and every number is received, under way, counted by      *)
(* record_tx_drop (async_sensor.rs:107, async_transmitter.rs:54) or abandoned *)
(* by the processor.                                                          *)
AccountedInOrder ==
  \A s \in Sensors :
    /\ \A i, j \in DOMAIN Line(s) : i < j => Line(s)[i] < Line(s)[j]
    /\ seq[s] - 1 = Len(Line(s)) + drops["sensor"][s] + drops["transmit"][s]
                   + Len(NumbersOf(s, abandoned))

(* Unlike in the threaded pipeline, the second record_sample of a sample      *)
(* happens only when the packet was sent (async_transmitter.rs:49-55): the    *)
(* count is what the first channel took plus what the second one took.        *)
CountsWhatWasSent ==
  \A s \in Sensors :
    samples[s] = (seq[s] - 1 - drops["sensor"][s]) + Len(NumbersOf(s, received \o outQ))

(* A sample disappears without being counted only in a shutdown, and at most  *)
(* a channel of them and the one in hand (async_processor.rs:46-48).          *)
AbandonedOnlyByStop ==
  /\ running => abandoned = <<>>
  /\ Len(abandoned) <= SensorCap + 1

(* After the flag every task ends by itself, if main leaves it the time: a    *)
(* processor waiting in recv is woken by a last sample or by the last sensor  *)
(* that drops its sender (async_pipeline.rs:67-68).                           *)
TasksEnd ==
  ~running ~> returned \/ (pPc = "stopped" /\ \A s \in Sensors : sPc[s] = "stopped")

(* While the flag is set, a sample that is under way reaches the bridge or is *)
(* counted as a drop; the tasks never wait for each other.                    *)
ResolvedUnlessStopped ==
  \A s \in Sensors : \A n \in 1..MaxSeq :
    LET underWay == NumbersOf(s, outQ \o pHeld \o sensorQ)
        here     == \E i \in DOMAIN underWay : underWay[i] = n
    IN  here ~> (~here \/ ~running)

(* async_pipeline.rs:67, "Drop parent sender so processor exits once sensors  *)
(* stop": the processor ends when no sensor is left.                          *)
ProcessorOutlivesSensors ==
  pPc = "stopped" => \A s \in Sensors : sPc[s] = "stopped"

==============================================================================
