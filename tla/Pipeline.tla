------------------------------- MODULE Pipeline -------------------------------
(***************************************************************************)
(* The threaded pipeline of src/main.rs: sensors -> processor -> receiver  *)
(* -> actuators, over bounded channels that are only written with          *)
(* try_send, together with the main thread that starts it, clears the      *)
(* running flag, drops the senders and joins the threads.                  *)
(*                                                                         *)
(* Readings, filters and PID values are left out: a sample is its sensor   *)
(* and its sequence number.  Timing is left out: a sleep is a step that    *)
(* may come late.  One step is what a thread does between two points at    *)
(* which another thread can see a difference in a channel.                 *)
(***************************************************************************)
EXTENDS Integers, Sequences, FiniteSets, SensorLines

CONSTANTS
  Sensors,     \* the sensor threads started, a set of sensor types
  SensorCap,   \* capacity of the sensors -> processor channel (2048)
  ProcCap,     \* capacity of the processor -> receiver channel (1024)
  MaxQueued,   \* max_queued of the Transmitter (1024)
  LaneCap,     \* CHANNEL_CAPACITY of the channel of one actuator (8)
  MaxSeq,      \* bound of the model: samples one sensor produces
  Stalled      \* actuators whose thread need not make progress

SensorType == {"Force", "Position", "Temperature"}
Actuators  == {"Gripper", "Motor", "Stabiliser"}
Stages     == {"sensor", "transmit", "dispatch"}

ASSUME PipelineAssumption ==
  /\ Sensors \subseteq SensorType
  /\ SensorCap \in Nat \ {0} /\ ProcCap \in Nat \ {0} /\ LaneCap \in Nat \ {0}
  /\ MaxQueued \in Nat /\ MaxQueued <= ProcCap
  /\ MaxSeq \in Nat
  /\ Stalled \subseteq Actuators

VARIABLES
  running,   \* the shared running flag
  mPc,       \* where the main thread is
  sPc,       \* sPc[s]: where sensor thread s is
  seq,       \* seq[s]: the number of the sample s makes next
  sensorQ,   \* channel sensors -> processor
  pPc,       \* where the processor thread is
  pHeld,     \* the sample the processor works on, as a sequence of at most one
  procQ,     \* channel processor -> receiver
  rPc,       \* where the receiver thread is
  rHeld,     \* the packet the receiver works on
  lane,      \* lane[a]: channel receiver -> actuator a
  aPc,       \* aPc[a]: where actuator thread a is
  aHeld,     \* aHeld[a]: the packet actuator a works on
  acted,     \* history: the packets actuator a has finished, in order
  drops,     \* drops[stage][s]: record_tx_drop calls for samples of s
  samples    \* samples[s]: record_sample calls for sensor s

mainVars   == <<running, mPc>>
sensorVars == <<sPc, seq>>
procVars   == <<pPc, pHeld>>
recvVars   == <<rPc, rHeld>>
actVars    == <<aPc, aHeld, acted>>
countVars  == <<drops, samples>>
vars == <<mainVars, sensorVars, sensorQ, procVars, procQ, recvVars, lane,
          actVars, countVars>>

Sample == [src : Sensors, seq : Nat \ {0}]

(* MultiActuator::dispatch sends every sensor type to an actuator of its own. *)
ActuatorOf(type) ==
  [Force |-> "Gripper", Position |-> "Motor", Temperature |-> "Stabiliser"][type]

-------------------------------------------------------------------------------
(* A channel is disconnected for its reader when every Sender is dropped.    *)

(* main holds tx_sensors, each sensor thread owns a clone. *)
SensorSendersGone ==
  /\ mPc \notin {"running", "stopping"}
  /\ \A s \in Sensors : sPc[s] = "stopped"

(* main holds tx_proc and an Arc of the Transmitter, the processor another. *)
ProcSendersGone ==
  /\ mPc \notin {"running", "stopping", "sensorTxDropped"}
  /\ pPc = "stopped"

(* The receiver thread owns the MultiActuator and so the three lane senders. *)
LaneSendersGone == rPc = "stopped"

(* Variant: dispatch forgets its record_tx_drop. *)
CountDropUpstream(stage, s) ==
  IF stage = "dispatch" THEN UNCHANGED drops
                        ELSE drops' = [drops EXCEPT ![stage][s] = @ + 1]

CountDrop(stage, s) == drops' = [drops EXCEPT ![stage][s] = @ + 1]
CountSample(s)      == samples' = [samples EXCEPT ![s] = @ + 1]

-------------------------------------------------------------------------------
Init ==
  /\ running = TRUE /\ mPc = "running"
  /\ sPc = [s \in Sensors |-> "check"] /\ seq = [s \in Sensors |-> 1]
  /\ sensorQ = <<>>
  /\ pPc = "recv" /\ pHeld = <<>>
  /\ procQ = <<>>
  /\ rPc = "recv" /\ rHeld = <<>>
  /\ lane = [a \in Actuators |-> <<>>]
  /\ aPc = [a \in Actuators |-> "recv"]
  /\ aHeld = [a \in Actuators |-> <<>>]
  /\ acted = [a \in Actuators |-> <<>>]
  /\ drops = [g \in Stages |-> [s \in Sensors |-> 0]]
  /\ samples = [s \in Sensors |-> 0]

-------------------------------------------------------------------------------
(* Sensor::run *)

(* The loop head: leave when the flag is clear, else wait for the release. *)
SensorCheck(s) ==
  /\ sPc[s] = "check"
  /\ \/ ~running /\ sPc' = [sPc EXCEPT ![s] = "stopped"]
     \/ running /\ seq[s] <= MaxSeq /\ sPc' = [sPc EXCEPT ![s] = "send"]
  /\ UNCHANGED <<mainVars, seq, sensorQ, procVars, procQ, recvVars, lane,
                 actVars, countVars>>

(* try_send of the sample: counted as a sample when the channel takes it, *)
(* as a drop otherwise; only a disconnected channel ends the loop.        *)
SensorSend(s) ==
  /\ sPc[s] = "send"
  /\ LET disconnected == pPc = "stopped"
         sent         == ~disconnected /\ Len(sensorQ) < SensorCap
     IN  /\ \/ /\ sent
               /\ sensorQ' = Append(sensorQ, [src |-> s, seq |-> seq[s]])
               /\ CountSample(s)
               /\ UNCHANGED drops
            \/ /\ ~sent
               /\ CountDrop("sensor", s)
               /\ UNCHANGED <<sensorQ, samples>>
         /\ sPc' = [sPc EXCEPT ![s] = IF disconnected THEN "stopped" ELSE "check"]
         /\ seq' = [seq EXCEPT ![s] = IF disconnected THEN @ ELSE @ + 1]
  /\ UNCHANGED <<mainVars, procVars, procQ, recvVars, lane, actVars>>

-------------------------------------------------------------------------------
(* Processor::run and Transmitter::transmit *)

ProcRecv ==
  /\ pPc = "recv" /\ sensorQ # <<>>
  /\ pHeld' = <<Head(sensorQ)>>
  /\ sensorQ' = Tail(sensorQ)
  /\ pPc' = "transmit"
  /\ UNCHANGED <<mainVars, sensorVars, procQ, recvVars, lane, actVars, countVars>>

(* Variant: the processor leaves on the flag, not on the closed channel. *)
ProcExitOnFlag ==
  /\ pPc = "recv" /\ ~running
  /\ pPc' = "stopped"
  /\ UNCHANGED <<mainVars, sensorVars, sensorQ, pHeld, procQ, recvVars, lane,
                 actVars, countVars>>

(* Disconnected: empty and without senders. *)
ProcExit ==
  /\ pPc = "recv" /\ sensorQ = <<>> /\ SensorSendersGone
  /\ pPc' = "stopped"
  /\ UNCHANGED <<mainVars, sensorVars, sensorQ, pHeld, procQ, recvVars, lane,
                 actVars, countVars>>

(* Variant: the length check is off by one. *)
SaturatedEarly == Len(procQ) >= MaxQueued - 1

(* self.tx.len() >= self.max_queued *)
Saturated == Len(procQ) >= MaxQueued

(* Variant: a sample whose packet is dropped is not counted. *)
DropInTransmitOnly(s) == CountDrop("transmit", s) /\ UNCHANGED samples

(* The packet is dropped, and the processor still counts the sample. *)
DropInTransmit(s) == CountDrop("transmit", s) /\ CountSample(s)

(* The fast-path check of transmit. *)
TransmitCheck ==
  /\ pPc = "transmit"
  /\ LET s == pHeld[1].src IN
     \/ /\ Saturated
        /\ DropInTransmit(s)
        /\ pPc' = "recv" /\ pHeld' = <<>>
     \/ /\ ~Saturated
        /\ pPc' = "send"
        /\ UNCHANGED <<pHeld, countVars>>
  /\ UNCHANGED <<mainVars, sensorVars, sensorQ, procQ, recvVars, lane, actVars>>

(* The try_send after the check, then record_sample whatever came of it. *)
TransmitSend ==
  /\ pPc = "send"
  /\ LET s    == pHeld[1].src
         sent == rPc # "stopped" /\ Len(procQ) < ProcCap
     IN  /\ procQ' = IF sent THEN procQ \o pHeld ELSE procQ
         /\ IF sent THEN UNCHANGED drops ELSE CountDrop("transmit", s)
         /\ CountSample(s)
  /\ pPc' = "recv" /\ pHeld' = <<>>
  /\ UNCHANGED <<mainVars, sensorVars, sensorQ, recvVars, lane, actVars>>

-------------------------------------------------------------------------------
(* Receiving::run and MultiActuator::dispatch *)

RecvPacket ==
  /\ rPc = "recv" /\ procQ # <<>>
  /\ rHeld' = <<Head(procQ)>>
  /\ procQ' = Tail(procQ)
  /\ rPc' = "dispatch"
  /\ UNCHANGED <<mainVars, sensorVars, sensorQ, procVars, lane, actVars, countVars>>

(* Variant: the lanes are unbounded. *)
LaneAcceptsAlways(a) == aPc[a] # "stopped"

(* try_send to a lane succeeds: its reader is there and there is room. *)
LaneAccepts(a) == aPc[a] # "stopped" /\ Len(lane[a]) < LaneCap

(* Variant: dispatch waits for room in the lane. *)
DispatchBlocking ==
  /\ rPc = "dispatch"
  /\ LET a == ActuatorOf(rHeld[1].src)
     IN  LaneAccepts(a) /\ lane' = [lane EXCEPT ![a] = @ \o rHeld]
  /\ rPc' = "recv" /\ rHeld' = <<>>
  /\ UNCHANGED <<mainVars, sensorVars, sensorQ, procVars, procQ, actVars, countVars>>

(* try_send to the lane of the actuator: a full lane drops the packet. *)
Dispatch ==
  /\ rPc = "dispatch"
  /\ LET s == rHeld[1].src
         a == ActuatorOf(s)
     IN  \/ /\ LaneAccepts(a)
            /\ lane' = [lane EXCEPT ![a] = @ \o rHeld]
            /\ UNCHANGED drops
         \/ /\ ~LaneAccepts(a)
            /\ CountDrop("dispatch", s)
            /\ UNCHANGED lane
  /\ rPc' = "recv" /\ rHeld' = <<>>
  /\ UNCHANGED <<mainVars, sensorVars, sensorQ, procVars, procQ, actVars, samples>>

(* The thread ends and drops the MultiActuator with its three senders. *)
RecvExit ==
  /\ rPc = "recv" /\ procQ = <<>> /\ ProcSendersGone
  /\ rPc' = "stopped"
  /\ UNCHANGED <<mainVars, sensorVars, sensorQ, procVars, procQ, rHeld, lane,
                 actVars, countVars>>

-------------------------------------------------------------------------------
(* spawn_actuator_thread *)

ActRecv(a) ==
  /\ aPc[a] = "recv" /\ lane[a] # <<>>
  /\ aHeld' = [aHeld EXCEPT ![a] = <<Head(lane[a])>>]
  /\ lane' = [lane EXCEPT ![a] = Tail(@)]
  /\ aPc' = [aPc EXCEPT ![a] = "handle"]
  /\ UNCHANGED <<mainVars, sensorVars, sensorQ, procVars, procQ, recvVars,
                 acted, countVars>>

ActHandle(a) ==
  /\ aPc[a] = "handle"
  /\ acted' = [acted EXCEPT ![a] = @ \o aHeld[a]]
  /\ aHeld' = [aHeld EXCEPT ![a] = <<>>]
  /\ aPc' = [aPc EXCEPT ![a] = "recv"]
  /\ UNCHANGED <<mainVars, sensorVars, sensorQ, procVars, procQ, recvVars,
                 lane, countVars>>

ActExit(a) ==
  /\ aPc[a] = "recv" /\ lane[a] = <<>> /\ LaneSendersGone
  /\ aPc' = [aPc EXCEPT ![a] = "stopped"]
  /\ UNCHANGED <<mainVars, sensorVars, sensorQ, procVars, procQ, recvVars,
                 lane, aHeld, acted, countVars>>

-------------------------------------------------------------------------------
(* run_simulation_internal, from the end of its sleep on *)

MainStep(from, to) ==
  /\ mPc = from /\ mPc' = to
  /\ UNCHANGED <<sensorVars, sensorQ, procVars, procQ, recvVars, lane, actVars,
                 countVars>>

MainStop         == MainStep("running", "stopping") /\ running' = FALSE
MainDropSensorTx == MainStep("stopping", "sensorTxDropped") /\ UNCHANGED running
MainDropProcTx   == MainStep("sensorTxDropped", "joinSensors") /\ UNCHANGED running

MainJoinSensors ==
  /\ \A s \in Sensors : sPc[s] = "stopped"
  /\ MainStep("joinSensors", "joinProcessor") /\ UNCHANGED running

MainJoinProcessor ==
  /\ pPc = "stopped"
  /\ MainStep("joinProcessor", "joinReceiver") /\ UNCHANGED running

(* Variant: main also joins the actuators. *)
MainJoinAll ==
  /\ rPc = "stopped" /\ \A a \in Actuators : aPc[a] = "stopped"
  /\ MainStep("joinReceiver", "joined") /\ UNCHANGED running

(* The actuator threads are detached: their handles are never joined. *)
MainJoinReceiver ==
  /\ rPc = "stopped"
  /\ MainStep("joinReceiver", "joined") /\ UNCHANGED running

-------------------------------------------------------------------------------
SensorStep(s)   == SensorCheck(s) \/ SensorSend(s)
ProcessorStep   == ProcRecv \/ ProcExit \/ TransmitCheck \/ TransmitSend
ReceiverStep    == RecvPacket \/ Dispatch \/ RecvExit
ActuatorStep(a) == ActRecv(a) \/ ActHandle(a) \/ ActExit(a)
MainThread      == \/ MainStop \/ MainDropSensorTx \/ MainDropProcTx
                   \/ MainJoinSensors \/ MainJoinProcessor \/ MainJoinReceiver

Finished == mPc = "joined" /\ \A a \in Actuators : aPc[a] = "stopped"

Next ==
  \/ \E s \in Sensors : SensorStep(s)
  \/ ProcessorStep
  \/ ReceiverStep
  \/ \E a \in Actuators : ActuatorStep(a)
  \/ MainThread
  \/ Finished /\ UNCHANGED vars

(* Every thread keeps being scheduled, except the actuators in Stalled. *)
Fairness ==
  /\ \A s \in Sensors : WF_vars(SensorStep(s))
  /\ WF_vars(ProcessorStep)
  /\ WF_vars(ReceiverStep)
  /\ \A a \in Actuators \ Stalled : WF_vars(ActuatorStep(a))
  /\ WF_vars(MainThread)

Spec     == Init /\ [][Next]_vars
FairSpec == Spec /\ Fairness

-------------------------------------------------------------------------------
(* Properties *)

MainPc == {"running", "stopping", "sensorTxDropped", "joinSensors",
           "joinProcessor", "joinReceiver", "joined"}

(* Every variable has its type, no channel exceeds its capacity, and a      *)
(* thread holds a sample exactly while it is working on one.                *)
TypeOK ==
  /\ running \in BOOLEAN /\ mPc \in MainPc
  /\ sPc \in [Sensors -> {"check", "send", "stopped"}]
  /\ seq \in [Sensors -> Nat \ {0}]
  /\ sensorQ \in Seq(Sample) /\ Len(sensorQ) <= SensorCap
  /\ pPc \in {"recv", "transmit", "send", "stopped"}
  /\ pHeld \in Seq(Sample)
  /\ Len(pHeld) = IF pPc \in {"transmit", "send"} THEN 1 ELSE 0
  /\ procQ \in Seq(Sample) /\ Len(procQ) <= ProcCap
  /\ rPc \in {"recv", "dispatch", "stopped"}
  /\ rHeld \in Seq(Sample)
  /\ Len(rHeld) = IF rPc = "dispatch" THEN 1 ELSE 0
  /\ lane \in [Actuators -> Seq(Sample)]
  /\ \A a \in Actuators : Len(lane[a]) <= LaneCap
  /\ aPc \in [Actuators -> {"recv", "handle", "stopped"}]
  /\ aHeld \in [Actuators -> Seq(Sample)]
  /\ \A a \in Actuators : Len(aHeld[a]) = IF aPc[a] = "handle" THEN 1 ELSE 0
  /\ acted \in [Actuators -> Seq(Sample)]
  /\ drops \in [Stages -> [Sensors -> Nat]]
  /\ samples \in [Sensors -> Nat]

(* The stages stop from the sensors down, and none leaves work behind: a     *)
(* stopped stage has an empty input channel whose writers have all stopped,  *)
(* and main has passed a join only when the joined thread has stopped.  The  *)
(* drops of main.rs:394-396 and the joins of 403-412 depend on it.           *)
ShutdownOrder ==
  /\ running <=> mPc = "running"
  /\ (\E s \in Sensors : sPc[s] = "stopped") => ~running
  /\ pPc = "stopped" => SensorSendersGone /\ sensorQ = <<>>
  /\ rPc = "stopped" => ProcSendersGone /\ procQ = <<>>
  /\ \A a \in Actuators : aPc[a] = "stopped" => LaneSendersGone /\ lane[a] = <<>>
  /\ mPc \in {"joinProcessor", "joinReceiver", "joined"} =>
        \A s \in Sensors : sPc[s] = "stopped"
  /\ mPc \in {"joinReceiver", "joined"} => pPc = "stopped"
  /\ mPc = "joined" => rPc = "stopped"

(* The channel that s drops at in this stage is at its limit. *)
FullAt(stage, s) ==
  CASE stage = "sensor"   -> Len(sensorQ) = SensorCap
    [] stage = "transmit" -> Len(procQ) >= MaxQueued
    [] stage = "dispatch" -> Len(lane[ActuatorOf(s)]) = LaneCap

(* A sample is dropped only by a full channel: at every drop the channel of  *)
(* that stage is at its limit.  No drop is due to a reader that has already  *)
(* gone, nor to the window between the length check and the try_send of      *)
(* transmit (transmitter.rs:35-41), nor to a stall of another actuator.      *)
DropOnlyWhenFull ==
  [][\A g \in Stages : \A s \in Sensors :
       drops'[g][s] # drops[g][s] => FullAt(g, s)]_vars

(* Both the sensor and the processor call record_sample (sensor.rs:173,      *)
(* processor.rs:162): whatever is dropped later, a sample the sensor channel *)
(* accepted is counted twice, and once while it waits for the processor.     *)
CountedTwice ==
  \A s \in Sensors :
    LET accepted == seq[s] - 1 - drops["sensor"][s]
        waiting  == Len(NumbersOf(s, sensorQ \o pHeld))
    IN  samples[s] = 2 * accepted - waiting

(* main always gets past its last join: a stalled actuator cannot hold it,   *)
(* because dispatch never waits and the actuator threads are not joined.     *)
ShutdownCompletes == <>(mPc = "joined")

==============================================================================
