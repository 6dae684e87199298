----------------------------- MODULE PipelineFifo -----------------------------
(***************************************************************************)
(* The pipeline implements LossyFifo: seen from one sensor, its stages and *)
(* channels are one line of samples from the sensor to its own actuator.   *)
(***************************************************************************)
EXTENDS Pipeline

(* What is under way for s, the oldest first: from the actuator that is      *)
(* dispatch's choice for s back to the channel of the sensors.               *)
UnderWay(s) ==
  LET a == ActuatorOf(s)
  IN  NumbersOf(s, aHeld[a] \o lane[a] \o rHeld \o procQ \o pHeld \o sensorQ)

Fifo == INSTANCE LossyFifo WITH
  Sources <- Sensors,
  made    <- [s \in Sensors |-> seq[s] - 1],
  pending <- [s \in Sensors |-> UnderWay(s)],
  done    <- [s \in Sensors |-> NumbersOf(s, acted[ActuatorOf(s)])],
  lost    <- [s \in Sensors |-> drops["sensor"][s] + drops["transmit"][s]
                                  + drops["dispatch"][s]]

(* Every sample a sensor makes is acted on once, by the actuator of its type *)
(* and in the order of production, or counted as one drop; it is never       *)
(* duplicated, reordered, misrouted or lost without a record_tx_drop.        *)
FifoPerSensor == Fifo!Spec

(* A sample that a channel accepted does not stay under way for ever, also   *)
(* while the actuator of another sensor stalls (per-actuator lanes of        *)
(* multi_actuator.rs:42-44) and also when shutdown begins in the meantime.   *)
EverySampleResolved ==
  \A s \in Sensors : \A n \in 1..MaxSeq :
    ActuatorOf(s) \notin Stalled =>
      (n \in {UnderWay(s)[i] : i \in DOMAIN UnderWay(s)}
         ~> n \notin {UnderWay(s)[i] : i \in DOMAIN UnderWay(s)})

==============================================================================
