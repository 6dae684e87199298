---------------------------- MODULE Pipeline_proofs ----------------------------
(***************************************************************************)
(* Proofs about the pipeline, for any set of sensors, any capacities and   *)
(* any number of samples.                                                  *)
(***************************************************************************)
EXTENDS PipelineFifo, SensorLines_proofs, SequenceTheorems, TLAPS

(* The actuator of a sensor is one of the actuators (multi_actuator.rs:91).  *)
LEMMA ActuatorOfType == \A s \in Sensors : ActuatorOf(s) \in Actuators
BY PipelineAssumption DEF ActuatorOf, Actuators, SensorType

(* Concatenating a sequence of one sample adds one to the length.            *)
LEMMA ConcatOne ==
  ASSUME NEW S, NEW q \in Seq(S), NEW h \in Seq(S), Len(h) = 1
  PROVE  q \o h \in Seq(S) /\ Len(q \o h) = Len(q) + 1
<1>1. q \o h \in Seq(S) /\ Len(q \o h) = Len(q) + Len(h)
  BY ConcatProperties
<1> QED
  BY <1>1

(* Replacing the sequence of one actuator leaves the others alone.           *)
LEMMA SetSeq ==
  ASSUME NEW A, NEW S, NEW f \in [A -> Seq(S)], NEW a \in A, NEW q \in Seq(S)
  PROVE  /\ [f EXCEPT ![a] = q] \in [A -> Seq(S)]
         /\ \A b \in A : [f EXCEPT ![a] = q][b] = IF b = a THEN q ELSE f[b]
OBVIOUS

(* Counting a drop or a sample keeps the counters well typed.                *)
LEMMA CountersTyped ==
  ASSUME drops \in [Stages -> [Sensors -> Nat]], samples \in [Sensors -> Nat],
         NEW g \in Stages, NEW s \in Sensors
  PROVE  /\ CountDrop(g, s) => drops' \in [Stages -> [Sensors -> Nat]]
         /\ CountSample(s) => samples' \in [Sensors -> Nat]
<1>1. [drops[g] EXCEPT ![s] = @ + 1] \in [Sensors -> Nat]
  OBVIOUS
<1>2. [samples EXCEPT ![s] = @ + 1] \in [Sensors -> Nat]
  OBVIOUS
<1> QED
  BY <1>1, <1>2 DEF CountDrop, CountSample

(* What a step of main leaves alone.                                         *)
LEMMA MainFrame ==
  MainThread => UNCHANGED <<sensorVars, sensorQ, procVars, procQ, recvVars, lane,
                            actVars, countVars>>
BY DEF MainThread, MainStop, MainDropSensorTx, MainDropProcTx, MainJoinSensors,
       MainJoinProcessor, MainJoinReceiver, MainStep

(* Every reachable state of the pipeline is well typed, and no channel ever  *)
(* exceeds its capacity.                                                     *)
THEOREM TypeCorrect == Spec => []TypeOK
<1> USE PipelineAssumption
<1>1. Init => TypeOK
  BY DEF Init, TypeOK, MainPc, Sample, Actuators, Stages
<1>2. TypeOK /\ [Next]_vars => TypeOK'
  <2> SUFFICES ASSUME TypeOK, [Next]_vars PROVE TypeOK'
    OBVIOUS
  <2>1. ASSUME NEW s \in Sensors, SensorCheck(s) PROVE TypeOK'
    BY <2>1 DEF TypeOK, SensorCheck, mainVars, sensorVars, procVars, recvVars,
                actVars, countVars
  <2>2. ASSUME NEW s \in Sensors, SensorSend(s) PROVE TypeOK'
    <3>1. [src |-> s, seq |-> seq[s]] \in Sample
      BY DEF TypeOK, Sample
    <3>2. sensorQ' \in Seq(Sample) /\ Len(sensorQ') <= SensorCap
      <4>1. \/ sensorQ' = sensorQ
            \/ /\ Len(sensorQ) < SensorCap
               /\ sensorQ' = Append(sensorQ, [src |-> s, seq |-> seq[s]])
        BY <2>2 DEF SensorSend
      <4>2. sensorQ \in Seq(Sample) /\ Len(sensorQ) <= SensorCap
        BY DEF TypeOK
      <4> QED
        BY <3>1, <4>1, <4>2
    <3>3. drops' \in [Stages -> [Sensors -> Nat]] /\ samples' \in [Sensors -> Nat]
      BY <2>2, CountersTyped DEF TypeOK, SensorSend, Stages
    <3>4. /\ sPc' \in [Sensors -> {"check", "send", "stopped"}]
          /\ seq' \in [Sensors -> Nat \ {0}]
      <4> DEFINE gone == pPc = "stopped"
      <4>1. /\ sPc' = [sPc EXCEPT ![s] = IF gone THEN "stopped" ELSE "check"]
            /\ seq' = [seq EXCEPT ![s] = IF gone THEN @ ELSE @ + 1]
        BY <2>2 DEF SensorSend
      <4>2. seq[s] \in Nat \ {0} /\ seq[s] + 1 \in Nat \ {0}
        BY DEF TypeOK
      <4> HIDE DEF gone
      <4> QED
        BY <4>1, <4>2 DEF TypeOK
    <3> QED
      BY <2>2, <3>2, <3>3, <3>4 DEF TypeOK, SensorSend, mainVars, procVars, recvVars,
         actVars
  <2>3. CASE ProcRecv
    BY <2>3 DEF TypeOK, ProcRecv, mainVars, sensorVars, recvVars, actVars, countVars
  <2>4. CASE ProcExit
    BY <2>4 DEF TypeOK, ProcExit, mainVars, sensorVars, recvVars, actVars, countVars
  <2>5. CASE TransmitCheck
    <3>1. pHeld[1] \in Sample /\ pHeld[1].src \in Sensors
      BY <2>5, Singleton DEF TypeOK, TransmitCheck, Sample
    <3>2. drops' \in [Stages -> [Sensors -> Nat]] /\ samples' \in [Sensors -> Nat]
      BY <2>5, <3>1, CountersTyped DEF TypeOK, TransmitCheck, DropInTransmit,
         countVars, Stages
    <3>3. /\ pPc' \in {"recv", "transmit", "send", "stopped"}
          /\ pHeld' \in Seq(Sample)
          /\ Len(pHeld') = IF pPc' \in {"transmit", "send"} THEN 1 ELSE 0
      <4>1. \/ pPc' = "recv" /\ pHeld' = <<>>
            \/ pPc' = "send" /\ pHeld' = pHeld
        BY <2>5 DEF TransmitCheck
      <4>2. pHeld \in Seq(Sample) /\ Len(pHeld) = 1
        BY <2>5 DEF TypeOK, TransmitCheck
      <4>3. <<>> \in Seq(Sample) /\ Len(<<>>) = 0
        OBVIOUS
      <4>4. CASE pPc' = "recv" /\ pHeld' = <<>>
        BY <4>3, <4>4
      <4>5. CASE pPc' = "send" /\ pHeld' = pHeld
        BY <4>2, <4>5
      <4> QED
        BY <4>1, <4>4, <4>5
    <3> QED
      BY <2>5, <3>2, <3>3 DEF TypeOK, TransmitCheck, mainVars, sensorVars, recvVars,
         actVars
  <2>6. CASE TransmitSend
    <3>1. pHeld[1] \in Sample /\ pHeld = <<pHeld[1]>> /\ pHeld[1].src \in Sensors
      BY <2>6, Singleton DEF TypeOK, TransmitSend, Sample
    <3>2. drops' \in [Stages -> [Sensors -> Nat]] /\ samples' \in [Sensors -> Nat]
      BY <2>6, <3>1, CountersTyped DEF TypeOK, TransmitSend, Stages
    <3>3. procQ' \in Seq(Sample) /\ Len(procQ') <= ProcCap
      <4>1. \/ procQ' = procQ
            \/ Len(procQ) < ProcCap /\ procQ' = procQ \o pHeld
        BY <2>6 DEF TransmitSend
      <4>2. /\ procQ \in Seq(Sample) /\ Len(procQ) <= ProcCap
            /\ pHeld \in Seq(Sample) /\ Len(pHeld) = 1
        BY <2>6 DEF TypeOK, TransmitSend
      <4>3. procQ \o pHeld \in Seq(Sample) /\ Len(procQ \o pHeld) = Len(procQ) + 1
        BY <4>2, ConcatOne
      <4> QED
        BY <4>1, <4>2, <4>3
    <3>4. pPc' = "recv" /\ pHeld' \in Seq(Sample) /\ Len(pHeld') = 0
      BY <2>6 DEF TransmitSend
    <3>5. UNCHANGED <<mainVars, sensorVars, sensorQ, recvVars, lane, actVars>>
      BY <2>6 DEF TransmitSend
    <3> QED
      BY <3>2, <3>3, <3>4, <3>5 DEF TypeOK, mainVars, sensorVars, recvVars, actVars
  <2>7. CASE RecvPacket
    BY <2>7 DEF TypeOK, RecvPacket, mainVars, sensorVars, procVars, actVars, countVars
  <2>8. CASE Dispatch
    <3>1. rHeld[1] \in Sample /\ rHeld = <<rHeld[1]>> /\ rHeld[1].src \in Sensors
      BY <2>8, Singleton DEF TypeOK, Dispatch, Sample
    <3>2. ActuatorOf(rHeld[1].src) \in Actuators
      BY <3>1, ActuatorOfType
    <3>3. drops' \in [Stages -> [Sensors -> Nat]]
      BY <2>8, <3>1, CountersTyped DEF TypeOK, Dispatch, Stages
    <3>4. /\ lane' \in [Actuators -> Seq(Sample)]
          /\ \A a \in Actuators : Len(lane'[a]) <= LaneCap
      <4> DEFINE dest == ActuatorOf(rHeld[1].src)
      <4>1. \/ lane' = lane
            \/ Len(lane[dest]) < LaneCap /\ lane' = [lane EXCEPT ![dest] = @ \o rHeld]
        BY <2>8 DEF Dispatch, LaneAccepts
      <4>2. /\ lane \in [Actuators -> Seq(Sample)] /\ lane[dest] \in Seq(Sample)
            /\ \A a \in Actuators : Len(lane[a]) <= LaneCap
            /\ rHeld \in Seq(Sample) /\ Len(rHeld) = 1
        BY <3>2, <2>8 DEF TypeOK, Dispatch
      <4>3. /\ lane[dest] \o rHeld \in Seq(Sample)
            /\ Len(lane[dest] \o rHeld) = Len(lane[dest]) + 1
        BY <4>2, ConcatOne
      <4>4. CASE lane' = lane
        BY <4>2, <4>4
      <4>5. CASE /\ Len(lane[dest]) < LaneCap
                 /\ lane' = [lane EXCEPT ![dest] = @ \o rHeld]
        <5>1. dest \in Actuators
          BY <3>2
        <5>2. /\ lane' \in [Actuators -> Seq(Sample)]
              /\ \A b \in Actuators :
                   lane'[b] = IF b = dest THEN lane[dest] \o rHeld ELSE lane[b]
          BY <4>2, <4>3, <4>5, <5>1, SetSeq
        <5>3. Len(lane[dest] \o rHeld) <= LaneCap
          BY <4>2, <4>3, <4>5
        <5> QED
          BY <4>2, <5>2, <5>3
      <4> QED
        BY <4>1, <4>4, <4>5
    <3>5. rPc' = "recv" /\ rHeld' \in Seq(Sample) /\ Len(rHeld') = 0
      BY <2>8 DEF Dispatch
    <3>6. UNCHANGED <<mainVars, sensorVars, sensorQ, procVars, procQ, actVars, samples>>
      BY <2>8 DEF Dispatch
    <3> QED
      BY <3>3, <3>4, <3>5, <3>6 DEF TypeOK, mainVars, sensorVars, procVars, actVars
  <2>9. CASE RecvExit
    BY <2>9 DEF TypeOK, RecvExit, mainVars, sensorVars, procVars, actVars, countVars
  <2>10. ASSUME NEW a \in Actuators, ActRecv(a) PROVE TypeOK'
    <3>1. /\ Head(lane[a]) \in Sample
          /\ Tail(lane[a]) \in Seq(Sample) /\ Len(Tail(lane[a])) <= LaneCap
      BY <2>10 DEF TypeOK, ActRecv
    <3>2. /\ lane' \in [Actuators -> Seq(Sample)]
          /\ \A b \in Actuators : Len(lane'[b]) <= LaneCap
      BY <2>10, <3>1 DEF TypeOK, ActRecv
    <3>3. /\ aPc' \in [Actuators -> {"recv", "handle", "stopped"}]
          /\ aHeld' \in [Actuators -> Seq(Sample)]
          /\ \A b \in Actuators : Len(aHeld'[b]) = IF aPc'[b] = "handle" THEN 1 ELSE 0
      <4>1. /\ aPc \in [Actuators -> {"recv", "handle", "stopped"}]
            /\ aHeld \in [Actuators -> Seq(Sample)]
            /\ \A b \in Actuators : Len(aHeld[b]) = IF aPc[b] = "handle" THEN 1 ELSE 0
        BY DEF TypeOK
      <4>2. <<Head(lane[a])>> \in Seq(Sample) /\ Len(<<Head(lane[a])>>) = 1
        BY <3>1
      <4>3. /\ aHeld' \in [Actuators -> Seq(Sample)]
            /\ \A b \in Actuators :
                 aHeld'[b] = IF b = a THEN <<Head(lane[a])>> ELSE aHeld[b]
        BY <2>10, <4>1, <4>2, SetSeq DEF ActRecv
      <4>4. /\ aPc' \in [Actuators -> {"recv", "handle", "stopped"}]
            /\ \A b \in Actuators : aPc'[b] = IF b = a THEN "handle" ELSE aPc[b]
        BY <2>10, <4>1 DEF ActRecv
      <4> QED
        BY <4>1, <4>2, <4>3, <4>4
    <3> QED
      BY <2>10, <3>2, <3>3 DEF TypeOK, ActRecv, mainVars, sensorVars, procVars,
         recvVars, countVars
  <2>11. ASSUME NEW a \in Actuators, ActHandle(a) PROVE TypeOK'
    <3>1. acted[a] \o aHeld[a] \in Seq(Sample)
      BY DEF TypeOK
    <3>2. acted' \in [Actuators -> Seq(Sample)]
      BY <2>11, <3>1 DEF TypeOK, ActHandle
    <3>3. /\ aPc' \in [Actuators -> {"recv", "handle", "stopped"}]
          /\ aHeld' \in [Actuators -> Seq(Sample)]
          /\ \A b \in Actuators : Len(aHeld'[b]) = IF aPc'[b] = "handle" THEN 1 ELSE 0
      <4>1. /\ aPc \in [Actuators -> {"recv", "handle", "stopped"}]
            /\ aHeld \in [Actuators -> Seq(Sample)]
            /\ \A b \in Actuators : Len(aHeld[b]) = IF aPc[b] = "handle" THEN 1 ELSE 0
        BY DEF TypeOK
      <4>2. <<>> \in Seq(Sample) /\ Len(<<>>) = 0
        OBVIOUS
      <4>3. /\ aHeld' \in [Actuators -> Seq(Sample)]
            /\ \A b \in Actuators :
                 aHeld'[b] = IF b = a THEN <<>> ELSE aHeld[b]
        BY <2>11, <4>1, <4>2, SetSeq DEF ActHandle
      <4>4. /\ aPc' \in [Actuators -> {"recv", "handle", "stopped"}]
            /\ \A b \in Actuators : aPc'[b] = IF b = a THEN "recv" ELSE aPc[b]
        BY <2>11, <4>1 DEF ActHandle
      <4> QED
        BY <4>1, <4>2, <4>3, <4>4
    <3> QED
      BY <2>11, <3>2, <3>3 DEF TypeOK, ActHandle, mainVars, sensorVars, procVars,
         recvVars, countVars
  <2>12. ASSUME NEW a \in Actuators, ActExit(a) PROVE TypeOK'
    BY <2>12 DEF TypeOK, ActExit, mainVars, sensorVars, procVars, recvVars, countVars
  <2>13. CASE MainThread
    <3>1. running' \in BOOLEAN /\ mPc' \in MainPc
      BY <2>13 DEF TypeOK, MainThread, MainStop, MainDropSensorTx, MainDropProcTx,
         MainJoinSensors, MainJoinProcessor, MainJoinReceiver, MainStep, MainPc
    <3> QED
      BY <2>13, <3>1, MainFrame DEF TypeOK, sensorVars, procVars, recvVars, actVars,
         countVars
  <2>14. CASE UNCHANGED vars
    BY <2>14 DEF TypeOK, vars, mainVars, sensorVars, procVars, recvVars, actVars,
       countVars
  <2> QED
    BY <2>1, <2>2, <2>3, <2>4, <2>5, <2>6, <2>7, <2>8, <2>9, <2>10, <2>11, <2>12,
       <2>13, <2>14
       DEF Next, SensorStep, ProcessorStep, ReceiverStep, ActuatorStep
<1> QED
  BY <1>1, <1>2, PTL DEF Spec

-------------------------------------------------------------------------------
(* Shutdown in order is inductive on well-typed states: a stage that has     *)
(* stopped has no writer left that could give it work.                       *)
THEOREM ShutdownInOrder == Spec => []ShutdownOrder
<1> USE DEF SensorSendersGone, ProcSendersGone, LaneSendersGone
<1>1. Init => ShutdownOrder
  BY DEF Init, ShutdownOrder
<1>2. TypeOK /\ ShutdownOrder /\ [Next]_vars => ShutdownOrder'
  <2> SUFFICES ASSUME TypeOK, ShutdownOrder, [Next]_vars PROVE ShutdownOrder'
    OBVIOUS
  <2>1. ASSUME NEW s \in Sensors, SensorCheck(s) PROVE ShutdownOrder'
    <3>1. sPc' \in [Sensors -> {"check", "send", "stopped"}] /\ sPc[s] = "check"
      BY <2>1 DEF SensorCheck, TypeOK
    <3>2. /\ \A r \in Sensors \ {s} : sPc'[r] = sPc[r]
          /\ sPc'[s] = "stopped" => ~running
      BY <2>1 DEF SensorCheck, TypeOK
    <3>3. UNCHANGED <<mainVars, sensorQ, procVars, procQ, recvVars, lane, actVars>>
      BY <2>1 DEF SensorCheck
    <3> QED
      BY <3>1, <3>2, <3>3 DEF ShutdownOrder, mainVars, procVars, recvVars, actVars
  <2>2. ASSUME NEW s \in Sensors, SensorSend(s) PROVE ShutdownOrder'
    <3>1. sPc[s] = "send" /\ pPc # "stopped"
      BY <2>2 DEF SensorSend, ShutdownOrder
    <3>2. sPc' = [sPc EXCEPT ![s] = "check"]
      BY <2>2, <3>1 DEF SensorSend
    <3>3. \A r \in Sensors : sPc'[r] = IF r = s THEN "check" ELSE sPc[r]
      BY <3>2 DEF TypeOK
    <3>4. UNCHANGED <<mainVars, procVars, procQ, recvVars, lane, actVars>>
      BY <2>2 DEF SensorSend
    <3> QED
      BY <3>1, <3>3, <3>4 DEF ShutdownOrder, mainVars, procVars, recvVars, actVars
  <2>3. CASE ProcRecv
    BY <2>3 DEF ProcRecv, ShutdownOrder, mainVars, sensorVars, recvVars, actVars
  <2>4. CASE ProcExit
    BY <2>4 DEF ProcExit, ShutdownOrder, mainVars, sensorVars, recvVars, actVars
  <2>5. CASE TransmitCheck
    <3>1. pPc = "transmit" /\ pPc' # "stopped"
      BY <2>5 DEF TransmitCheck
    <3>2. UNCHANGED <<mainVars, sensorVars, sensorQ, procQ, recvVars, lane, actVars>>
      BY <2>5 DEF TransmitCheck
    <3> QED
      BY <3>1, <3>2 DEF ShutdownOrder, mainVars, sensorVars, recvVars, actVars
  <2>6. CASE TransmitSend
    <3>1. pPc = "send" /\ pPc' = "recv"
      BY <2>6 DEF TransmitSend
    <3>2. UNCHANGED <<mainVars, sensorVars, sensorQ, recvVars, lane, actVars>>
      BY <2>6 DEF TransmitSend
    <3> QED
      BY <3>1, <3>2 DEF ShutdownOrder, mainVars, sensorVars, recvVars, actVars
  <2>7. CASE RecvPacket
    BY <2>7 DEF RecvPacket, ShutdownOrder, mainVars, sensorVars, procVars, actVars
  <2>8. CASE Dispatch
    <3>1. rPc = "dispatch" /\ rPc' = "recv"
      BY <2>8 DEF Dispatch
    <3>2. UNCHANGED <<mainVars, sensorVars, sensorQ, procVars, procQ, actVars>>
      BY <2>8 DEF Dispatch
    <3> QED
      BY <3>1, <3>2 DEF ShutdownOrder, mainVars, sensorVars, procVars, actVars
  <2>9. CASE RecvExit
    BY <2>9 DEF RecvExit, ShutdownOrder, mainVars, sensorVars, procVars, actVars
  <2>10. ASSUME NEW a \in Actuators, ActRecv(a) PROVE ShutdownOrder'
    BY <2>10 DEF ActRecv, TypeOK, ShutdownOrder, mainVars, sensorVars, procVars,
       recvVars
  <2>11. ASSUME NEW a \in Actuators, ActHandle(a) PROVE ShutdownOrder'
    BY <2>11 DEF ActHandle, TypeOK, ShutdownOrder, mainVars, sensorVars, procVars,
       recvVars
  <2>12. ASSUME NEW a \in Actuators, ActExit(a) PROVE ShutdownOrder'
    BY <2>12 DEF ActExit, TypeOK, ShutdownOrder, mainVars, sensorVars, procVars,
       recvVars
  <2>13. CASE MainThread
    <3>1. UNCHANGED <<sPc, sensorQ, pPc, procQ, rPc, lane, aPc>>
      BY <2>13, MainFrame DEF sensorVars, procVars, recvVars, actVars
    <3>2. CASE MainStop
      BY <3>1, <3>2 DEF MainStop, MainStep, ShutdownOrder
    <3>3. CASE MainDropSensorTx \/ MainDropProcTx
      BY <3>1, <3>3 DEF MainDropSensorTx, MainDropProcTx, MainStep, ShutdownOrder
    <3>4. CASE MainJoinSensors
      BY <3>1, <3>4 DEF MainJoinSensors, MainStep, ShutdownOrder
    <3>5. CASE MainJoinProcessor \/ MainJoinReceiver
      BY <3>1, <3>5 DEF MainJoinProcessor, MainJoinReceiver, MainStep, ShutdownOrder
    <3> QED
      BY <2>13, <3>2, <3>3, <3>4, <3>5 DEF MainThread
  <2>14. CASE UNCHANGED vars
    BY <2>14 DEF ShutdownOrder, vars, mainVars, sensorVars, procVars, recvVars, actVars
  <2> QED
    BY <2>1, <2>2, <2>3, <2>4, <2>5, <2>6, <2>7, <2>8, <2>9, <2>10, <2>11, <2>12,
       <2>13, <2>14
       DEF Next, SensorStep, ProcessorStep, ReceiverStep, ActuatorStep
<1> QED
  BY <1>1, <1>2, TypeCorrect, PTL DEF Spec

-------------------------------------------------------------------------------
(* The receiver only ever makes room: what the length check of transmit saw  *)
(* still holds at its try_send (transmitter.rs:35-41).                       *)
RoomToSend == pPc = "send" => Len(procQ) < MaxQueued

LEMMA RoomKept == Spec => []RoomToSend
<1>1. Init => RoomToSend
  BY DEF Init, RoomToSend
<1>2. TypeOK /\ RoomToSend /\ [Next]_vars => RoomToSend'
  <2> SUFFICES ASSUME TypeOK, RoomToSend, [Next]_vars PROVE RoomToSend'
    OBVIOUS
  <2>1. CASE UNCHANGED <<pPc, procQ>>
    BY <2>1 DEF RoomToSend
  <2>2. CASE ProcRecv \/ ProcExit \/ TransmitSend
    BY <2>2 DEF RoomToSend, ProcRecv, ProcExit, TransmitSend
  <2>3. CASE TransmitCheck
    <3>1. procQ' = procQ /\ (pPc' = "send" => ~(Len(procQ) >= MaxQueued))
      BY <2>3 DEF TransmitCheck, Saturated
    <3>2. Len(procQ) \in Nat /\ MaxQueued \in Nat
      BY LenProperties, PipelineAssumption DEF TypeOK
    <3> QED
      BY <3>1, <3>2 DEF RoomToSend
  <2>4. CASE RecvPacket
    <3>1. pPc' = pPc /\ procQ # <<>> /\ procQ' = Tail(procQ)
      BY <2>4 DEF RecvPacket, procVars
    <3>2. Len(procQ') = Len(procQ) - 1
      BY <3>1, HeadTailProperties DEF TypeOK
    <3>3. Len(procQ) \in Nat /\ MaxQueued \in Nat
      BY LenProperties, PipelineAssumption DEF TypeOK
    <3> QED
      BY <3>1, <3>2, <3>3 DEF RoomToSend
  <2> QED
    BY <2>1, <2>2, <2>3, <2>4, MainFrame DEF Next, SensorStep, ProcessorStep,
       ReceiverStep, ActuatorStep, SensorCheck, SensorSend, Dispatch, RecvExit,
       ActRecv, ActHandle, ActExit, vars, procVars
<1> QED
  BY <1>1, <1>2, TypeCorrect, PTL DEF Spec

-------------------------------------------------------------------------------
(* A step that counts a drop of r in stage h changes no other counter.       *)
LEMMA OneDrop ==
  ASSUME drops \in [Stages -> [Sensors -> Nat]],
         NEW h \in Stages, NEW r \in Sensors, CountDrop(h, r),
         NEW g \in Stages, NEW s \in Sensors, drops'[g][s] # drops[g][s]
  PROVE  g = h /\ s = r
BY DEF CountDrop

(* The only cause of a drop is a full channel: a reader is never gone before *)
(* its writers (ShutdownInOrder), and the room transmit saw is still there   *)
(* (RoomKept).                                                               *)
THEOREM DropsAreFullChannels == Spec => DropOnlyWhenFull
<1> DEFINE Drop == \A g \in Stages : \A s \in Sensors :
                     drops'[g][s] # drops[g][s] => FullAt(g, s)
<1>1. TypeOK /\ ShutdownOrder /\ RoomToSend /\ [Next]_vars => [Drop]_vars
  <2> SUFFICES ASSUME TypeOK, ShutdownOrder, RoomToSend, Next,
                      NEW g \in Stages, NEW s \in Sensors,
                      drops'[g][s] # drops[g][s]
               PROVE  FullAt(g, s)
    OBVIOUS
  <2>1. /\ drops \in [Stages -> [Sensors -> Nat]]
        /\ Len(sensorQ) \in Nat /\ Len(sensorQ) <= SensorCap
        /\ Len(procQ) \in Nat
        /\ \A a \in Actuators : Len(lane[a]) \in Nat /\ Len(lane[a]) <= LaneCap
        /\ SensorCap \in Nat /\ ProcCap \in Nat /\ LaneCap \in Nat
        /\ MaxQueued \in Nat /\ MaxQueued <= ProcCap
    BY LenProperties, PipelineAssumption DEF TypeOK
  <2>2. ASSUME NEW r \in Sensors, SensorSend(r) PROVE FullAt(g, s)
    <3>1. pPc # "stopped"
      BY <2>2 DEF SensorSend, ShutdownOrder, SensorSendersGone
    <3>2. ~(Len(sensorQ) < SensorCap) /\ CountDrop("sensor", r)
      BY <2>2, <3>1 DEF SensorSend
    <3>3. g = "sensor"
      BY <2>1, <3>2, OneDrop DEF Stages
    <3> QED
      BY <2>1, <3>2, <3>3 DEF FullAt
  <2>3. CASE TransmitCheck
    <3>1. /\ Len(procQ) >= MaxQueued
          /\ CountDrop("transmit", pHeld[1].src)
      BY <2>3 DEF TransmitCheck, Saturated, DropInTransmit, countVars
    <3>2. pHeld[1].src \in Sensors
      BY <2>3, Singleton DEF TransmitCheck, TypeOK, Sample
    <3>3. g = "transmit"
      BY <2>1, <3>1, <3>2, OneDrop, SMTT(30) DEF Stages
    <3> QED
      BY <3>1, <3>3 DEF FullAt
  <2>4. CASE TransmitSend
    <3>1. rPc # "stopped"
      BY <2>4 DEF TransmitSend, ShutdownOrder, ProcSendersGone
    <3>2. Len(procQ) < ProcCap
      BY <2>1, <2>4 DEF TransmitSend, RoomToSend
    <3>3. drops' = drops
      BY <2>4, <3>1, <3>2 DEF TransmitSend
    <3> QED
      BY <3>3
  <2>5. CASE Dispatch
    <3> DEFINE r == rHeld[1].src
    <3>1. r \in Sensors /\ ActuatorOf(r) \in Actuators
      BY <2>5, Singleton, ActuatorOfType DEF Dispatch, TypeOK, Sample
    <3>2. rPc # "stopped"
      BY <2>5 DEF Dispatch
    <3>3. aPc[ActuatorOf(r)] # "stopped"
      BY <3>1, <3>2 DEF ShutdownOrder, LaneSendersGone
    <3>4. ~(Len(lane[ActuatorOf(r)]) < LaneCap) /\ CountDrop("dispatch", r)
      BY <2>5, <3>3 DEF Dispatch, LaneAccepts
    <3>5. g = "dispatch" /\ s = r
      BY <2>1, <3>1, <3>4, OneDrop DEF Stages
    <3> QED
      BY <2>1, <3>1, <3>4, <3>5 DEF FullAt
  <2>6. CASE UNCHANGED drops
    BY <2>6
  <2> QED
    BY <2>2, <2>3, <2>4, <2>5, <2>6, MainFrame DEF Next, SensorStep, ProcessorStep,
       ReceiverStep, ActuatorStep, SensorCheck, ProcRecv, ProcExit, RecvPacket,
       RecvExit, ActRecv, ActHandle, ActExit, vars, countVars
<1>2. Spec => [][Drop]_vars
  BY <1>1, TypeCorrect, ShutdownInOrder, RoomKept, PTL DEF Spec
<1> QED
  BY <1>2 DEF DropOnlyWhenFull

-------------------------------------------------------------------------------
(* Samples carry numbers. *)
LEMMA SamplesNumbered == Numbered(Sample)
BY DEF Numbered, Sample

(* How many samples of s the channel and the processor hold together.        *)
LEMMA WaitingCount ==
  ASSUME NEW s, NEW p \in Seq(Sample), NEW q \in Seq(Sample)
  PROVE  /\ Len(NumbersOf(s, p \o q)) = Len(NumbersOf(s, p)) + Len(NumbersOf(s, q))
         /\ Len(NumbersOf(s, p)) \in Nat /\ Len(NumbersOf(s, q)) \in Nat
BY SamplesNumbered, NumbersOfLen

(* One sample counts for its own sensor only.                                *)
LEMMA OneSample ==
  ASSUME NEW s, NEW x \in Sample
  PROVE  Len(NumbersOf(s, <<x>>)) = IF x.src = s THEN 1 ELSE 0
<1>1. NumbersOf(s, <<x>>) = IF x.src = s THEN <<x.seq>> ELSE <<>>
  BY NumbersOfOne
<1> QED
  BY <1>1

(* With the samples that wait counted once, every sample that the sensor     *)
(* channel accepted is counted twice, whatever becomes of it later.          *)
THEOREM SamplesCountedTwice == Spec => []CountedTwice
<1> DEFINE W(s) == Len(NumbersOf(s, sensorQ)) + Len(NumbersOf(s, pHeld))
           Acc(s) == seq[s] - 1 - drops["sensor"][s]
           Twice == \A s \in Sensors : samples[s] + W(s) = Acc(s) + Acc(s)
<1>1. TypeOK => (CountedTwice <=> Twice)
  <2> SUFFICES ASSUME TypeOK PROVE CountedTwice <=> Twice
    OBVIOUS
  <2>1. sensorQ \in Seq(Sample) /\ pHeld \in Seq(Sample)
    BY DEF TypeOK
  <2>2. \A s : Len(NumbersOf(s, sensorQ \o pHeld)) = W(s)
    BY <2>1, WaitingCount
  <2>3. ASSUME NEW s \in Sensors PROVE W(s) \in Int /\ Acc(s) \in Int /\ samples[s] \in Int
    BY <2>1, WaitingCount DEF TypeOK, Stages
  <2>4. CountedTwice <=> \A s \in Sensors : samples[s] = 2 * Acc(s) - W(s)
    BY <2>2 DEF CountedTwice
  <2> HIDE DEF W, Acc
  <2> QED
    BY <2>3, <2>4
<1>2. Init => CountedTwice
  <2>1. SUFFICES ASSUME Init PROVE CountedTwice
    OBVIOUS
  <2>2. \A s : Len(NumbersOf(s, <<>> \o <<>>)) = 0
    <3>1. <<>> \o <<>> = <<>>
      OBVIOUS
    <3> QED
      BY <3>1, NumbersOfEmpty
  <2> QED
    BY <2>1, <2>2 DEF Init, CountedTwice, Stages
<1>3. TypeOK /\ ShutdownOrder /\ Twice /\ [Next]_vars => Twice'
  <2> SUFFICES ASSUME TypeOK, ShutdownOrder, Twice, [Next]_vars, NEW s \in Sensors
               PROVE  (samples[s] + W(s) = Acc(s) + Acc(s))'
    OBVIOUS
  <2>1. /\ sensorQ \in Seq(Sample) /\ pHeld \in Seq(Sample)
        /\ samples[s] \in Nat /\ seq[s] \in Nat /\ drops["sensor"][s] \in Nat
        /\ samples \in [Sensors -> Nat] /\ seq \in [Sensors -> Nat \ {0}]
        /\ drops \in [Stages -> [Sensors -> Nat]]
    BY DEF TypeOK, Stages
  <2>2. /\ samples[s] + W(s) = Acc(s) + Acc(s)
        /\ Len(NumbersOf(s, sensorQ)) \in Nat /\ Len(NumbersOf(s, pHeld)) \in Nat
    BY <2>1, WaitingCount
  <2> HIDE DEF Twice
  <2>3. Len(NumbersOf(s, <<>>)) = 0
    BY NumbersOfEmpty
  <2>4. ASSUME NEW r \in Sensors, SensorSend(r)
        PROVE  (samples[s] + W(s) = Acc(s) + Acc(s))'
    <3> DEFINE x == [src |-> r, seq |-> seq[r]]
    <3>1. x \in Sample /\ x.src = r
      BY DEF TypeOK, Sample
    <3>2. pPc # "stopped"
      BY <2>4 DEF SensorSend, ShutdownOrder, SensorSendersGone
    <3>3. /\ pHeld' = pHeld /\ seq' = [seq EXCEPT ![r] = @ + 1]
          /\ \/ sensorQ' = Append(sensorQ, x) /\ CountSample(r) /\ drops' = drops
             \/ sensorQ' = sensorQ /\ samples' = samples /\ CountDrop("sensor", r)
      BY <2>4, <3>2 DEF SensorSend, procVars
    <3> HIDE DEF x
    <3>4. NumbersOf(s, Append(sensorQ, x)) = IF x.src = s
                                             THEN Append(NumbersOf(s, sensorQ), x.seq)
                                             ELSE NumbersOf(s, sensorQ)
      <4>1. sensorQ \in Seq(Sample) /\ x \in Sample
        BY <2>1, <3>1
      <4> QED
        BY <4>1, NumbersOfAppend
    <3>5. /\ r = s => Len(NumbersOf(s, Append(sensorQ, x))) = Len(NumbersOf(s, sensorQ)) + 1
          /\ r # s => NumbersOf(s, Append(sensorQ, x)) = NumbersOf(s, sensorQ)
      <4>1. NumbersOf(s, sensorQ) \in Seq(Nat) /\ x.seq \in Nat
        BY <2>1, <3>1, SamplesNumbered, NumbersOfType DEF Numbered
      <4>2. Len(Append(NumbersOf(s, sensorQ), x.seq)) = Len(NumbersOf(s, sensorQ)) + 1
        BY <4>1
      <4> QED
        BY <2>2, <3>1, <3>4, <4>2
    <3>6. (r = s => seq'[s] = seq[s] + 1) /\ (r # s => seq'[s] = seq[s])
      BY <2>1, <3>3
    <3>7. CASE sensorQ' = Append(sensorQ, x) /\ CountSample(r) /\ drops' = drops
      <4>1. (r = s => samples'[s] = samples[s] + 1) /\ (r # s => samples'[s] = samples[s])
        BY <2>1, <3>7 DEF CountSample
      <4> QED
        <5>1. CASE r = s
          <6>1. W(s)' = W(s) + 1
            <7>1. Len(NumbersOf(s, sensorQ')) = Len(NumbersOf(s, sensorQ)) + 1
              BY <3>5, <3>7, <5>1
            <7>2. pHeld' = pHeld
              BY <3>3
            <7> QED
              BY <2>2, <7>1, <7>2
          <6>2. Acc(s)' = Acc(s) + 1
            <7>1. seq'[s] = seq[s] + 1 /\ drops'["sensor"][s] = drops["sensor"][s]
              BY <3>6, <3>7, <5>1
            <7>2. seq[s] \in Nat /\ drops["sensor"][s] \in Nat
              BY <2>1
            <7> QED
              BY <7>1, <7>2
          <6>3. samples'[s] = samples[s] + 1
            BY <4>1, <5>1
          <6>4. W(s) \in Int /\ Acc(s) \in Int /\ samples[s] \in Int
            BY <2>1, <2>2
          <6> HIDE DEF W, Acc
          <6> QED
            BY <2>2, <6>1, <6>2, <6>3, <6>4
        <5>2. CASE r # s
          BY <2>1, <2>2, <3>3, <3>5, <3>6, <3>7, <4>1, <5>2
        <5> QED
          BY <5>1, <5>2
    <3>8. CASE sensorQ' = sensorQ /\ samples' = samples /\ CountDrop("sensor", r)
      <4>1. /\ r = s => drops'["sensor"][s] = drops["sensor"][s] + 1
            /\ r # s => drops'["sensor"][s] = drops["sensor"][s]
        BY <2>1, <3>8 DEF CountDrop, Stages
      <4> QED
        <5>1. CASE r = s
          <6>1. W(s)' = W(s)
            BY <3>3, <3>8
          <6>2. Acc(s)' = Acc(s)
            <7>1. seq'[s] = seq[s] + 1 /\ drops'["sensor"][s] = drops["sensor"][s] + 1
              BY <3>6, <4>1, <5>1
            <7>2. seq[s] \in Nat /\ drops["sensor"][s] \in Nat
              BY <2>1
            <7> QED
              BY <7>1, <7>2
          <6> HIDE DEF W, Acc
          <6> QED
            BY <2>2, <3>8, <6>1, <6>2
        <5>2. CASE r # s
          BY <2>1, <2>2, <3>3, <3>6, <3>8, <4>1, <5>2
        <5> QED
          BY <5>1, <5>2
    <3> QED
      BY <3>3, <3>7, <3>8
  <2>5. CASE ProcRecv
    <3>1. /\ pHeld = <<>> /\ sensorQ # <<>>
          /\ pHeld' = <<Head(sensorQ)>> /\ sensorQ' = Tail(sensorQ)
          /\ UNCHANGED <<seq, samples, drops>>
      BY <2>1, <2>5 DEF ProcRecv, TypeOK, sensorVars, countVars
    <3>2. NumbersOf(s, sensorQ) = NumbersOf(s, <<Head(sensorQ)>>) \o NumbersOf(s, Tail(sensorQ))
      BY <2>1, <3>1, SamplesNumbered, NumbersOfHead
    <3>3. <<Head(sensorQ)>> \in Seq(Sample) /\ Tail(sensorQ) \in Seq(Sample)
      BY <2>1, <3>1
    <3>4. NumbersOf(s, <<Head(sensorQ)>>) \in Seq(Nat) /\ NumbersOf(s, Tail(sensorQ)) \in Seq(Nat)
      BY <3>3, SamplesNumbered, NumbersOfType
    <3>5. Len(NumbersOf(s, sensorQ)) = Len(NumbersOf(s, <<Head(sensorQ)>>)) + Len(NumbersOf(s, Tail(sensorQ)))
      BY <3>2, <3>4
    <3>6. W(s)' = W(s)
      <4>1. W(s)' = Len(NumbersOf(s, Tail(sensorQ))) + Len(NumbersOf(s, <<Head(sensorQ)>>))
        BY <3>1
      <4>2. W(s) = Len(NumbersOf(s, sensorQ))
        BY <2>2, <2>3, <3>1
      <4>3. /\ Len(NumbersOf(s, Tail(sensorQ))) \in Nat
            /\ Len(NumbersOf(s, <<Head(sensorQ)>>)) \in Nat
        BY <3>4
      <4> HIDE DEF W
      <4> QED
        BY <3>5, <4>1, <4>2, <4>3
    <3>7. Acc(s)' = Acc(s) /\ samples'[s] = samples[s]
      BY <3>1
    <3> HIDE DEF W, Acc
    <3> QED
      BY <2>2, <3>6, <3>7
  <2>6. CASE TransmitCheck \/ TransmitSend
    <3>1. pHeld[1] \in Sample /\ pHeld = <<pHeld[1]>> /\ pHeld[1].src \in Sensors
      BY <2>6, Singleton DEF TypeOK, TransmitCheck, TransmitSend, Sample
    <3>2. UNCHANGED <<seq, sensorQ>>
      BY <2>6 DEF TransmitCheck, TransmitSend, sensorVars
    <3>3. \/ UNCHANGED <<pHeld, samples, drops>>
          \/ /\ pHeld' = <<>> /\ CountSample(pHeld[1].src)
             /\ \/ drops' = drops
                \/ CountDrop("transmit", pHeld[1].src)
      BY <2>6 DEF TransmitCheck, TransmitSend, DropInTransmit, countVars
    <3>4. drops'["sensor"][s] = drops["sensor"][s]
      BY <2>1, <3>1, <3>3 DEF CountDrop, Stages
    <3>5. CASE UNCHANGED <<pHeld, samples, drops>>
      BY <2>2, <3>2, <3>5
    <3>6. CASE pHeld' = <<>> /\ CountSample(pHeld[1].src)
      <4>1. Len(NumbersOf(s, pHeld)) = IF pHeld[1].src = s THEN 1 ELSE 0
        BY <3>1, OneSample
      <4>2. samples'[s] = IF pHeld[1].src = s THEN samples[s] + 1 ELSE samples[s]
        BY <2>1, <3>1, <3>6 DEF CountSample
      <4> QED
        <5>1. CASE pHeld[1].src = s
          <6>1. W(s) = W(s)' + 1
            BY <2>2, <2>3, <3>2, <3>6, <4>1, <5>1
          <6>2. Acc(s)' = Acc(s)
            BY <3>2, <3>4
          <6>3. samples'[s] = samples[s] + 1
            BY <4>2, <5>1
          <6>4. W(s)' \in Int /\ Acc(s) \in Int /\ samples[s] \in Int
            BY <2>1, <2>2, <2>3, <3>2, <3>6
          <6> HIDE DEF W, Acc
          <6> QED
            BY <2>2, <6>1, <6>2, <6>3, <6>4
        <5>2. CASE pHeld[1].src # s
          BY <2>1, <2>2, <2>3, <3>2, <3>4, <3>6, <4>1, <4>2, <5>2
        <5> QED
          BY <5>1, <5>2
    <3> QED
      BY <3>3, <3>5, <3>6
  <2>7. CASE Dispatch
    <3>1. UNCHANGED <<samples, seq, sensorQ, pHeld>> /\ rHeld[1].src \in Sensors
      BY <2>7, Singleton DEF Dispatch, TypeOK, Sample, sensorVars, procVars
    <3>2. drops' = drops \/ CountDrop("dispatch", rHeld[1].src)
      BY <2>7 DEF Dispatch
    <3>3. drops'["sensor"][s] = drops["sensor"][s]
      BY <2>1, <3>1, <3>2 DEF CountDrop, Stages
    <3> QED
      BY <2>2, <3>1, <3>3
  <2>8. CASE UNCHANGED <<samples, seq, sensorQ, pHeld, drops>>
    BY <2>2, <2>8
  <2> QED
    BY <2>4, <2>5, <2>6, <2>7, <2>8, MainFrame DEF Next, SensorStep, ProcessorStep,
       ReceiverStep, ActuatorStep, SensorCheck, ProcExit, RecvPacket, RecvExit, ActRecv,
       ActHandle, ActExit, vars, sensorVars, procVars, countVars
<1>4. TypeOK /\ ShutdownOrder /\ CountedTwice /\ [Next]_vars /\ TypeOK' => CountedTwice'
  <2> SUFFICES ASSUME TypeOK, ShutdownOrder, CountedTwice, [Next]_vars, TypeOK'
               PROVE  CountedTwice'
    OBVIOUS
  <2>1. Twice'
    <3> HIDE DEF Twice
    <3> QED
      BY <1>1, <1>3
  <2>2. (CountedTwice <=> Twice)'
    <3>1. TypeOK => (CountedTwice <=> Twice)
      BY <1>1
    <3> HIDE DEF Twice
    <3> QED
      BY <1>1, PTL
  <2> HIDE DEF Twice
  <2> QED
    BY <2>1, <2>2
<1> QED
  BY <1>2, <1>4, TypeCorrect, ShutdownInOrder, PTL DEF Spec

-------------------------------------------------------------------------------
(* The pipeline implements LossyFifo: every step of it is, for the line of   *)
(* each sensor, a step of LossyFifo or none.                                 *)

(* Taking the oldest sample of a channel in hand does not change the line.   *)
LEMMA TakeInHand ==
  ASSUME NEW S, NEW a \in Seq(S), NEW q \in Seq(S), q # <<>>
  PROVE  a \o <<Head(q)>> \o Tail(q) = a \o <<>> \o q
<1>1. <<Head(q)>> \in Seq(S) /\ Tail(q) \in Seq(S) /\ <<Head(q)>> \o Tail(q) = q
  OBVIOUS
<1>2. a \o <<Head(q)>> \o Tail(q) = a \o (<<Head(q)>> \o Tail(q))
  BY <1>1, ConcatAssociative
<1>3. a \o <<>> = a
  OBVIOUS
<1> QED
  BY <1>1, <1>2, <1>3

(* Nor does putting the sample in hand into the channel ahead.               *)
LEMMA PassOn ==
  ASSUME NEW S, NEW a \in Seq(S), NEW q \in Seq(S), NEW h \in Seq(S)
  PROVE  a \o (q \o h) \o <<>> = a \o q \o h
<1>1. a \o (q \o h) = a \o q \o h /\ a \o q \o h \in Seq(S)
  BY ConcatAssociative, SMTT(30)
<1>2. a \o q \o h \o <<>> = a \o q \o h
  BY <1>1
<1> QED
  BY <1>1, <1>2

(* A sequence with one element between two others.                           *)
LEMMA Between ==
  \A S : \A a, b \in Seq(S) : \A n \in S :
    /\ a \o <<n>> \o b \in Seq(S) /\ Len(a \o <<n>> \o b) = Len(a) + 1 + Len(b)
    /\ \A j \in 1..Len(a) : (a \o <<n>> \o b)[j] = a[j]
    /\ (a \o <<n>> \o b)[Len(a) + 1] = n
    /\ \A j \in 1..Len(b) : (a \o <<n>> \o b)[Len(a) + 1 + j] = b[j]
OBVIOUS

(* Removing the element between two sequences leaves the two.                *)
LEMMA RemoveBetween ==
  ASSUME NEW S, NEW a \in Seq(S), NEW n \in S, NEW b \in Seq(S)
  PROVE  /\ Len(a) + 1 \in DOMAIN (a \o <<n>> \o b)
         /\ Fifo!RemoveAt(a \o <<n>> \o b, Len(a) + 1) = a \o b
<1> DEFINE c == a \o <<n>> \o b
           i == Len(a) + 1
<1>1. /\ c \in Seq(S) /\ Len(c) = Len(a) + 1 + Len(b) /\ Len(a) \in Nat /\ Len(b) \in Nat
      /\ \A j \in 1..Len(a) : c[j] = a[j]
      /\ \A j \in 1..Len(b) : c[Len(a) + 1 + j] = b[j]
  OBVIOUS
<1> HIDE DEF c
<1>2. SubSeq(c, 1, i - 1) = a
  <2>1. SubSeq(c, 1, i - 1) \in Seq(S) /\ Len(SubSeq(c, 1, i - 1)) = Len(a)
    BY <1>1, SubSeqProperties
  <2>2. \A j \in 1..Len(a) : SubSeq(c, 1, i - 1)[j] = a[j]
    BY <1>1, SubSeqProperties
  <2> QED
    BY <2>1, <2>2
<1>3. SubSeq(c, i + 1, Len(c)) = b
  <2>1. SubSeq(c, i + 1, Len(c)) \in Seq(S) /\ Len(SubSeq(c, i + 1, Len(c))) = Len(b)
    BY <1>1, SubSeqProperties
  <2>2. \A j \in 1..Len(b) : SubSeq(c, i + 1, Len(c))[j] = b[j]
    BY <1>1, SubSeqProperties
  <2> QED
    BY <2>1, <2>2
<1>4. i \in DOMAIN c
  BY <1>1
<1>5. Fifo!RemoveAt(c, i) = a \o b
  BY <1>2, <1>3 DEF Fifo!RemoveAt
<1> QED
  BY <1>4, <1>5 DEF c

(* What LossyFifo sees of sensor s, one part after the other. *)
MadeOf(s) == seq[s] - 1
DoneOf(s) == NumbersOf(s, acted[ActuatorOf(s)])
LostOf(s) == drops["sensor"][s] + drops["transmit"][s] + drops["dispatch"][s]
Seen(s)   == <<MadeOf(s), UnderWay(s), DoneOf(s), LostOf(s)>>

(* No sensor sees anything: no step of LossyFifo. *)
LEMMA NothingSeen ==
  ASSUME \A s \in Sensors : Seen(s)' = Seen(s)
  PROVE  UNCHANGED Fifo!vars
BY DEF Fifo!vars, Seen, MadeOf, DoneOf, LostOf

(* Sensor r sees that its sample was accepted. *)
LEMMA AcceptSeen ==
  ASSUME NEW r \in Sensors, \A s \in Sensors \ {r} : Seen(s)' = Seen(s),
         MadeOf(r)' = MadeOf(r) + 1, UnderWay(r)' = Append(UnderWay(r), MadeOf(r)'),
         DoneOf(r)' = DoneOf(r), LostOf(r)' = LostOf(r)
  PROVE  Fifo!Next
<1>1. \A s \in Sensors \ {r} : /\ MadeOf(s)' = MadeOf(s) /\ UnderWay(s)' = UnderWay(s)
                                /\ DoneOf(s)' = DoneOf(s) /\ LostOf(s)' = LostOf(s)
  BY DEF Seen
<1>2. Fifo!Accept(r)
  BY <1>1 DEF Fifo!Accept, MadeOf, DoneOf, LostOf
<1> QED
  BY <1>2 DEF Fifo!Next

(* Sensor r sees that its sample was refused. *)
LEMMA RefuseSeen ==
  ASSUME NEW r \in Sensors, \A s \in Sensors \ {r} : Seen(s)' = Seen(s),
         MadeOf(r)' = MadeOf(r) + 1, UnderWay(r)' = UnderWay(r),
         DoneOf(r)' = DoneOf(r), LostOf(r)' = LostOf(r) + 1
  PROVE  Fifo!Next
<1>1. \A s \in Sensors \ {r} : /\ MadeOf(s)' = MadeOf(s) /\ UnderWay(s)' = UnderWay(s)
                                /\ DoneOf(s)' = DoneOf(s) /\ LostOf(s)' = LostOf(s)
  BY DEF Seen
<1>2. Fifo!Refuse(r)
  BY <1>1 DEF Fifo!Refuse, MadeOf, DoneOf, LostOf
<1> QED
  BY <1>2 DEF Fifo!Next

(* Sensor r sees that one of its samples was lost. *)
LEMMA LossSeen ==
  ASSUME NEW r \in Sensors, \A s \in Sensors \ {r} : Seen(s)' = Seen(s),
         NEW i \in DOMAIN UnderWay(r), UnderWay(r)' = Fifo!RemoveAt(UnderWay(r), i),
         MadeOf(r)' = MadeOf(r), DoneOf(r)' = DoneOf(r), LostOf(r)' = LostOf(r) + 1
  PROVE  Fifo!Next
<1>1. \A s \in Sensors \ {r} : /\ MadeOf(s)' = MadeOf(s) /\ UnderWay(s)' = UnderWay(s)
                                /\ DoneOf(s)' = DoneOf(s) /\ LostOf(s)' = LostOf(s)
  BY DEF Seen
<1>2. Fifo!Lose(r)
  BY <1>1 DEF Fifo!Lose, MadeOf, DoneOf, LostOf
<1> QED
  BY <1>2 DEF Fifo!Next

(* Sensor r sees that its oldest sample under way was acted on. *)
LEMMA ActSeen ==
  ASSUME NEW r \in Sensors, \A s \in Sensors \ {r} : Seen(s)' = Seen(s),
         UnderWay(r) # <<>>, UnderWay(r)' = Tail(UnderWay(r)),
         DoneOf(r)' = Append(DoneOf(r), Head(UnderWay(r))),
         MadeOf(r)' = MadeOf(r), LostOf(r)' = LostOf(r)
  PROVE  Fifo!Next
<1>1. \A s \in Sensors \ {r} : /\ MadeOf(s)' = MadeOf(s) /\ UnderWay(s)' = UnderWay(s)
                                /\ DoneOf(s)' = DoneOf(s) /\ LostOf(s)' = LostOf(s)
  BY DEF Seen
<1>2. Fifo!Act(r)
  BY <1>1 DEF Fifo!Act, MadeOf, DoneOf, LostOf
<1> QED
  BY <1>2 DEF Fifo!Next

(* The samples between the sensors and the actuator of s, oldest first. *)
Behind(s) == aHeld[ActuatorOf(s)] \o lane[ActuatorOf(s)]
Before(s) == Behind(s) \o rHeld \o procQ
Raw(s)    == Before(s) \o pHeld \o sensorQ

LEMMA UnderWayRaw == \A s : UnderWay(s) = NumbersOf(s, Raw(s))
BY DEF UnderWay, Raw, Before, Behind

(* The pieces of a line are sequences of samples. *)
LEMMA LinePieces ==
  ASSUME TypeOK, NEW s \in Sensors
  PROVE  /\ ActuatorOf(s) \in Actuators
         /\ aHeld[ActuatorOf(s)] \in Seq(Sample) /\ lane[ActuatorOf(s)] \in Seq(Sample)
         /\ acted[ActuatorOf(s)] \in Seq(Sample)
         /\ rHeld \in Seq(Sample) /\ procQ \in Seq(Sample)
         /\ pHeld \in Seq(Sample) /\ sensorQ \in Seq(Sample)
         /\ Behind(s) \in Seq(Sample) /\ Before(s) \in Seq(Sample) /\ Raw(s) \in Seq(Sample)
<1>1. /\ ActuatorOf(s) \in Actuators
      /\ aHeld[ActuatorOf(s)] \in Seq(Sample) /\ lane[ActuatorOf(s)] \in Seq(Sample)
      /\ acted[ActuatorOf(s)] \in Seq(Sample)
      /\ rHeld \in Seq(Sample) /\ procQ \in Seq(Sample)
      /\ pHeld \in Seq(Sample) /\ sensorQ \in Seq(Sample)
  BY ActuatorOfType DEF TypeOK
<1>2. Behind(s) \in Seq(Sample)
  BY <1>1 DEF Behind
<1>3. Before(s) \in Seq(Sample)
  BY <1>1, <1>2 DEF Before
<1>4. Raw(s) \in Seq(Sample)
  BY <1>1, <1>3 DEF Raw
<1> QED
  BY <1>1, <1>2, <1>3, <1>4

(* A counted drop of a sample of r is one more loss of r. *)
LEMMA DropIsLoss ==
  ASSUME TypeOK, NEW g \in Stages, NEW r \in Sensors, CountDrop(g, r)
  PROVE  /\ LostOf(r)' = LostOf(r) + 1
         /\ \A s \in Sensors \ {r} : LostOf(s)' = LostOf(s)
<1>1. drops \in [Stages -> [Sensors -> Nat]]
  BY DEF TypeOK
<1>2. \A h \in Stages, s \in Sensors :
        /\ h = g /\ s = r => drops'[h][s] = drops[h][s] + 1
        /\ ~(h = g /\ s = r) => drops'[h][s] = drops[h][s]
  BY <1>1 DEF CountDrop
<1>3. \A h \in Stages, s \in Sensors : drops[h][s] \in Nat
  BY <1>1
<1>4. \A s \in Sensors \ {r} : LostOf(s)' = LostOf(s)
  BY <1>2 DEF LostOf, Stages
<1>5. LostOf(r)' = LostOf(r) + 1
  BY <1>2, <1>3 DEF LostOf, Stages
<1> QED
  BY <1>4, <1>5

(* A sample lost between two parts of a line is lost for its sensor only. *)
LEMMA LineLoss ==
  ASSUME NEW a \in Seq(Sample), NEW x \in Sample, NEW b \in Seq(Sample)
  PROVE  /\ \A s : s # x.src => NumbersOf(s, a \o <<x>> \o b) = NumbersOf(s, a \o b)
         /\ \E i \in DOMAIN NumbersOf(x.src, a \o <<x>> \o b) :
              NumbersOf(x.src, a \o b) = Fifo!RemoveAt(NumbersOf(x.src, a \o <<x>> \o b), i)
<1>0. ASSUME NEW s
      PROVE  /\ x.src # s => NumbersOf(s, a \o <<x>> \o b) = NumbersOf(s, a \o b)
             /\ x.src = s => NumbersOf(s, a \o <<x>> \o b)
                               = NumbersOf(s, a) \o <<x.seq>> \o NumbersOf(s, b)
             /\ NumbersOf(s, a \o b) = NumbersOf(s, a) \o NumbersOf(s, b)
  <2>1. <<x>> \in Seq(Sample) /\ a \o <<x>> \in Seq(Sample)
    OBVIOUS
  <2>2. NumbersOf(s, a) \in Seq(Nat) /\ NumbersOf(s, b) \in Seq(Nat)
    BY SamplesNumbered, NumbersOfType
  <2>3. NumbersOf(s, a \o b) = NumbersOf(s, a) \o NumbersOf(s, b)
    BY SamplesNumbered, NumbersOfConcat
  <2>4. NumbersOf(s, a \o <<x>>) = NumbersOf(s, a) \o NumbersOf(s, <<x>>)
    BY <2>1, SamplesNumbered, NumbersOfConcat
  <2>5. NumbersOf(s, a \o <<x>> \o b) = NumbersOf(s, a \o <<x>>) \o NumbersOf(s, b)
    BY <2>1, SamplesNumbered, NumbersOfConcat
  <2>6. NumbersOf(s, <<x>>) = IF x.src = s THEN <<x.seq>> ELSE <<>>
    BY NumbersOfOne
  <2>7. NumbersOf(s, a) \o <<>> = NumbersOf(s, a)
    BY <2>2
  <2> QED
    BY <2>3, <2>4, <2>5, <2>6, <2>7
<1>1. \A s : s # x.src => NumbersOf(s, a \o <<x>> \o b) = NumbersOf(s, a \o b)
  BY <1>0
<1> DEFINE r == x.src
           A == NumbersOf(r, a)
           B == NumbersOf(r, b)
<1>2. /\ NumbersOf(r, a \o <<x>> \o b) = A \o <<x.seq>> \o B
      /\ NumbersOf(r, a \o b) = A \o B
  BY <1>0
<1>3. A \in Seq(Nat) /\ B \in Seq(Nat) /\ x.seq \in Nat
  BY SamplesNumbered, NumbersOfType DEF Numbered
<1> HIDE DEF A, B
<1>4. /\ Len(A) + 1 \in DOMAIN (A \o <<x.seq>> \o B)
      /\ Fifo!RemoveAt(A \o <<x.seq>> \o B, Len(A) + 1) = A \o B
  BY <1>3, RemoveBetween, ZenonT(40)
<1>5. \E i \in DOMAIN NumbersOf(r, a \o <<x>> \o b) :
        NumbersOf(r, a \o b) = Fifo!RemoveAt(NumbersOf(r, a \o <<x>> \o b), i)
  BY <1>2, <1>4
<1> QED
  BY <1>1, <1>5

(* A sensor that sends: its sample is accepted or refused.  The channel is   *)
(* never disconnected, as the processor outlives the sensors.                *)
LEMMA SendSeen ==
  ASSUME TypeOK, ShutdownOrder, NEW r \in Sensors, SensorSend(r)
  PROVE  Fifo!Next
<1> DEFINE x == [src |-> r, seq |-> seq[r]]
<1>1. x \in Sample /\ x.src = r /\ x.seq = seq[r] /\ seq[r] \in Nat
  BY DEF TypeOK, Sample
<1>2. pPc # "stopped"
  BY DEF SensorSend, ShutdownOrder, SensorSendersGone
<1>3. /\ UNCHANGED <<pHeld, procQ, rHeld, lane, aHeld, acted>>
      /\ seq' = [seq EXCEPT ![r] = @ + 1]
      /\ \/ sensorQ' = Append(sensorQ, x) /\ drops' = drops
         \/ sensorQ' = sensorQ /\ CountDrop("sensor", r)
  BY <1>2 DEF SensorSend, procVars, recvVars, actVars
<1> HIDE DEF x
<1>4. /\ MadeOf(r)' = MadeOf(r) + 1 /\ MadeOf(r)' = seq[r]
      /\ \A s \in Sensors \ {r} : MadeOf(s)' = MadeOf(s)
  BY <1>1, <1>3 DEF MadeOf, TypeOK
<1>5. \A s \in Sensors : DoneOf(s)' = DoneOf(s)
  BY <1>3 DEF DoneOf
<1>6. CASE sensorQ' = Append(sensorQ, x) /\ drops' = drops
  <2>1. \A s \in Sensors : LostOf(s)' = LostOf(s)
    BY <1>6 DEF LostOf
  <2>2. \A s \in Sensors : Raw(s)' = Append(Raw(s), x)
    <3>1. TAKE s \in Sensors
    <3>2. Before(s) \o pHeld \in Seq(Sample) /\ sensorQ \in Seq(Sample)
      BY LinePieces
    <3>3. (Before(s) \o pHeld)' = Before(s) \o pHeld
      BY <1>3 DEF Before, Behind
    <3> DEFINE q == Before(s) \o pHeld
    <3> HIDE DEF q
    <3>4. q \o Append(sensorQ, x) = Append(q \o sensorQ, x)
      BY <1>1, <3>2 DEF q
    <3> QED
      BY <1>6, <3>3, <3>4 DEF Raw, q
  <2>3. \A s \in Sensors : UnderWay(s)' = IF r = s THEN Append(UnderWay(s), seq[r])
                                                  ELSE UnderWay(s)
    <3>1. TAKE s \in Sensors
    <3>2. Raw(s) \in Seq(Sample)
      BY LinePieces
    <3>3. NumbersOf(s, Append(Raw(s), x)) = IF x.src = s THEN Append(NumbersOf(s, Raw(s)), x.seq)
                                                         ELSE NumbersOf(s, Raw(s))
      BY <1>1, <3>2, NumbersOfAppend
    <3>4. UnderWay(s) = NumbersOf(s, Raw(s)) /\ UnderWay(s)' = NumbersOf(s, Raw(s)')
      BY DEF UnderWay, Raw, Before, Behind
    <3> QED
      BY <1>1, <2>2, <3>3, <3>4
  <2> QED
    BY <1>4, <1>5, <2>1, <2>3, AcceptSeen DEF Seen
<1>7. CASE sensorQ' = sensorQ /\ CountDrop("sensor", r)
  <2>1. LostOf(r)' = LostOf(r) + 1 /\ \A s \in Sensors \ {r} : LostOf(s)' = LostOf(s)
    BY <1>7, DropIsLoss DEF Stages
  <2>2. \A s \in Sensors : UnderWay(s)' = UnderWay(s)
    BY <1>3, <1>7 DEF UnderWay
  <2> QED
    BY <1>4, <1>5, <2>1, <2>2, RefuseSeen DEF Seen
<1> QED
  BY <1>3, <1>6, <1>7

(* A step that keeps every line, what was acted on and what was counted is   *)
(* not seen.                                                                 *)
LEMMA LinesKept ==
  ASSUME UNCHANGED <<seq, acted, drops>>, \A s \in Sensors : Raw(s)' = Raw(s)
  PROVE  UNCHANGED Fifo!vars
<1>1. ASSUME NEW s \in Sensors PROVE UnderWay(s)' = UnderWay(s)
  <2>1. UnderWay(s) = NumbersOf(s, Raw(s)) /\ UnderWay(s)' = NumbersOf(s, Raw(s)')
    BY DEF UnderWay, Raw, Before, Behind
  <2> QED
    BY <2>1
<1>2. \A s \in Sensors : Seen(s)' = Seen(s)
  BY <1>1 DEF Seen, MadeOf, DoneOf, LostOf
<1> QED
  BY <1>2, NothingSeen

(* A step that drops the sample x from between two parts of its line, counts *)
(* it and removes it from no other line is a loss.                           *)
LEMMA SampleLost ==
  ASSUME TypeOK, NEW g \in Stages, NEW x \in Sample, CountDrop(g, x.src),
         UNCHANGED <<seq, acted>>,
         \A s \in Sensors : \E a \in Seq(Sample), b \in Seq(Sample) :
            Raw(s) = a \o <<x>> \o b /\ Raw(s)' = a \o b
  PROVE  Fifo!Next
<1> DEFINE r == x.src
<1>1. r \in Sensors
  BY DEF Sample
<1>2. \A s : UnderWay(s) = NumbersOf(s, Raw(s)) /\ UnderWay(s)' = NumbersOf(s, Raw(s)')
  BY DEF UnderWay, Raw, Before, Behind
<1>3. \A s \in Sensors \ {r} : UnderWay(s)' = UnderWay(s)
  <2>1. TAKE s \in Sensors \ {r}
  <2>2. PICK a \in Seq(Sample), b \in Seq(Sample) :
          Raw(s) = a \o <<x>> \o b /\ Raw(s)' = a \o b
    OBVIOUS
  <2>3. NumbersOf(s, a \o <<x>> \o b) = NumbersOf(s, a \o b)
    BY LineLoss
  <2> QED
    BY <1>2, <2>2, <2>3
<1>4. \E i \in DOMAIN UnderWay(r) : UnderWay(r)' = Fifo!RemoveAt(UnderWay(r), i)
  <2>1. PICK a \in Seq(Sample), b \in Seq(Sample) :
          Raw(r) = a \o <<x>> \o b /\ Raw(r)' = a \o b
    BY <1>1
  <2>2. \E i \in DOMAIN NumbersOf(r, a \o <<x>> \o b) :
          NumbersOf(r, a \o b) = Fifo!RemoveAt(NumbersOf(r, a \o <<x>> \o b), i)
    BY LineLoss
  <2>3. UnderWay(r) = NumbersOf(r, a \o <<x>> \o b) /\ UnderWay(r)' = NumbersOf(r, a \o b)
    BY <1>2, <2>1
  <2> QED
    BY <2>2, <2>3
<1>5. LostOf(r)' = LostOf(r) + 1 /\ \A s \in Sensors \ {r} : LostOf(s)' = LostOf(s)
  BY <1>1, DropIsLoss
<1>6. \A s \in Sensors : MadeOf(s)' = MadeOf(s) /\ DoneOf(s)' = DoneOf(s)
  BY DEF MadeOf, DoneOf
<1> QED
  BY <1>1, <1>3, <1>4, <1>5, <1>6, LossSeen DEF Seen

(* The processor takes a sample, drops it or passes it on. *)
LEMMA ProcessorSeen ==
  ASSUME TypeOK, ProcRecv \/ TransmitCheck \/ TransmitSend
  PROVE  Fifo!Next \/ UNCHANGED Fifo!vars
<1>1. /\ UNCHANGED <<seq, rHeld, lane, aHeld, acted>>
      /\ \A s \in Sensors : Behind(s)' = Behind(s)
  BY DEF ProcRecv, TransmitCheck, TransmitSend, sensorVars, recvVars, actVars, Behind
<1>2. CASE ProcRecv
  <2>1. /\ pHeld = <<>> /\ sensorQ # <<>> /\ UNCHANGED <<procQ, drops>>
        /\ pHeld' = <<Head(sensorQ)>> /\ sensorQ' = Tail(sensorQ)
    BY <1>2 DEF ProcRecv, TypeOK, countVars
  <2>2. \A s \in Sensors : Raw(s)' = Raw(s)
    <3>1. TAKE s \in Sensors
    <3>2. Before(s)' = Before(s)
      BY <1>1, <2>1 DEF Before
    <3>3. Before(s) \in Seq(Sample) /\ sensorQ \in Seq(Sample)
      BY LinePieces
    <3>4. Before(s) \o <<Head(sensorQ)>> \o Tail(sensorQ) = Before(s) \o <<>> \o sensorQ
      BY <2>1, <3>3, TakeInHand
    <3> QED
      BY <2>1, <3>2, <3>4 DEF Raw
  <2> QED
    BY <1>1, <2>1, <2>2, LinesKept
<1>3. CASE TransmitCheck \/ TransmitSend
  <2> DEFINE x == pHeld[1]
  <2>1. x \in Sample /\ pHeld = <<x>> /\ UNCHANGED sensorQ
    BY <1>3, Singleton DEF TypeOK, TransmitCheck, TransmitSend
  <2>2. \/ UNCHANGED <<pHeld, procQ, drops>>
        \/ pHeld' = <<>> /\ procQ' = procQ /\ CountDrop("transmit", x.src)
        \/ pHeld' = <<>> /\ procQ' = procQ \o pHeld /\ drops' = drops
    BY <1>3 DEF TransmitCheck, TransmitSend, DropInTransmit, countVars
  <2> HIDE DEF x
  <2>3. CASE UNCHANGED <<pHeld, procQ, drops>>
    <3>1. \A s \in Sensors : Raw(s)' = Raw(s)
      BY <1>1, <2>1, <2>3 DEF Raw, Before
    <3> QED
      BY <1>1, <2>3, <3>1, LinesKept
  <2>4. CASE pHeld' = <<>> /\ procQ' = procQ /\ CountDrop("transmit", x.src)
    <3>1. ASSUME NEW s \in Sensors
          PROVE  \E a \in Seq(Sample), b \in Seq(Sample) :
                    Raw(s) = a \o <<x>> \o b /\ Raw(s)' = a \o b
      <4>1. Before(s)' = Before(s)
        BY <1>1, <2>4 DEF Before
      <4>2. Before(s) \in Seq(Sample) /\ sensorQ \in Seq(Sample)
        BY LinePieces
      <4>3. Before(s) \o <<>> = Before(s)
        BY <4>2
      <4>4. Raw(s) = Before(s) \o <<x>> \o sensorQ /\ Raw(s)' = Before(s) \o sensorQ
        BY <2>1, <2>4, <4>1, <4>3 DEF Raw
      <4> QED
        BY <4>2, <4>4
    <3> QED
      BY <1>1, <2>1, <2>4, <3>1, SampleLost DEF Stages
  <2>5. CASE pHeld' = <<>> /\ procQ' = procQ \o pHeld /\ drops' = drops
    <3>1. \A s \in Sensors : Raw(s)' = Raw(s)
      <4>1. TAKE s \in Sensors
      <4> DEFINE a == Behind(s) \o rHeld
      <4>2. /\ a \in Seq(Sample) /\ procQ \in Seq(Sample) /\ pHeld \in Seq(Sample)
            /\ a' = a
        <5>1. Behind(s) \in Seq(Sample) /\ rHeld \in Seq(Sample)
          BY LinePieces
        <5>2. procQ \in Seq(Sample) /\ pHeld \in Seq(Sample)
          BY LinePieces
        <5> QED
          BY <1>1, <5>1, <5>2
      <4>3. Raw(s) = a \o procQ \o pHeld \o sensorQ
        BY DEF Raw, Before
      <4>4. Raw(s)' = a \o (procQ \o pHeld) \o <<>> \o sensorQ
        BY <2>1, <2>5, <4>2 DEF Raw, Before
      <4> HIDE DEF a
      <4>5. a \o (procQ \o pHeld) \o <<>> = a \o procQ \o pHeld
        BY <4>2, PassOn
      <4> QED
        BY <4>3, <4>4, <4>5
    <3> QED
      BY <1>1, <2>5, <3>1, LinesKept
  <2> QED
    BY <2>2, <2>3, <2>4, <2>5
<1> QED
  BY <1>2, <1>3

(* Sensors have actuators of their own. *)
LEMMA OwnActuator ==
  \A r, s \in Sensors : ActuatorOf(r) = ActuatorOf(s) => r = s
BY PipelineAssumption DEF ActuatorOf, SensorType

(* A line, in parts that begin behind the packet that the receiver holds.    *)
LEMMA LineAtReceiver ==
  ASSUME NEW a \in Seq(Sample), NEW p \in Seq(Sample), NEW q \in Seq(Sample),
         NEW r \in Seq(Sample)
  PROVE  a \o p \o q \o r = a \o (p \o q \o r) /\ p \o q \o r \in Seq(Sample)
<1>1. p \o q \in Seq(Sample) /\ p \o q \o r \in Seq(Sample) /\ a \o p \in Seq(Sample)
  OBVIOUS
<1>2. a \o p \o q = a \o (p \o q)
  BY ConcatAssociative, SMTT(30)
<1>3. (a \o (p \o q)) \o r = a \o ((p \o q) \o r)
  BY <1>1, ConcatAssociative, SMTT(30)
<1> QED
  BY <1>1, <1>2, <1>3

(* The receiver takes a packet, and dispatch puts it into the lane of its    *)
(* own sensor or drops it.                                                   *)
LEMMA ReceiverSeen ==
  ASSUME TypeOK, RecvPacket \/ Dispatch
  PROVE  Fifo!Next \/ UNCHANGED Fifo!vars
<1>1. UNCHANGED <<seq, pHeld, sensorQ, aHeld, acted>>
  BY DEF RecvPacket, Dispatch, sensorVars, procVars, actVars
<1>2. CASE RecvPacket
  <2>1. /\ rHeld = <<>> /\ procQ # <<>> /\ UNCHANGED <<lane, drops>>
        /\ rHeld' = <<Head(procQ)>> /\ procQ' = Tail(procQ)
    BY <1>2 DEF RecvPacket, TypeOK, countVars
  <2>2. \A s \in Sensors : Raw(s)' = Raw(s)
    <3>1. TAKE s \in Sensors
    <3>2. Behind(s)' = Behind(s)
      BY <1>1, <2>1 DEF Behind
    <3>3. Behind(s) \in Seq(Sample) /\ procQ \in Seq(Sample)
      BY LinePieces
    <3>4. Behind(s) \o <<Head(procQ)>> \o Tail(procQ) = Behind(s) \o <<>> \o procQ
      BY <2>1, <3>3, TakeInHand
    <3>5. Before(s)' = Before(s)
      BY <2>1, <3>2, <3>4 DEF Before
    <3> QED
      BY <1>1, <3>5 DEF Raw
  <2> QED
    BY <1>1, <2>1, <2>2, LinesKept
<1>3. CASE Dispatch
  <2> DEFINE x == rHeld[1]
             d == ActuatorOf(x.src)
  <2>1. x \in Sample /\ rHeld = <<x>> /\ x.src \in Sensors
    BY <1>3, Singleton DEF TypeOK, Dispatch, Sample
  <2>2. /\ rHeld' = <<>> /\ UNCHANGED procQ
        /\ \/ lane' = [lane EXCEPT ![d] = @ \o rHeld] /\ drops' = drops
           \/ lane' = lane /\ CountDrop("dispatch", x.src)
    BY <1>3 DEF Dispatch
  <2> HIDE DEF x
  <2>3. ASSUME NEW s \in Sensors
        PROVE  LET b == procQ \o pHeld \o sensorQ
               IN  b \in Seq(Sample) /\ Raw(s) = Behind(s) \o <<x>> \o b
    <3>1. /\ Behind(s) \o <<x>> \in Seq(Sample) /\ procQ \in Seq(Sample)
          /\ pHeld \in Seq(Sample) /\ sensorQ \in Seq(Sample)
      BY <2>1, LinePieces
    <3>2. Raw(s) = (Behind(s) \o <<x>>) \o procQ \o pHeld \o sensorQ
      BY <2>1 DEF Raw, Before
    <3> DEFINE a == Behind(s) \o <<x>>
    <3> HIDE DEF a
    <3>3. a \in Seq(Sample)
      BY <3>1 DEF a
    <3>4. /\ a \o procQ \o pHeld \o sensorQ = a \o (procQ \o pHeld \o sensorQ)
          /\ procQ \o pHeld \o sensorQ \in Seq(Sample)
      BY <3>1, <3>3, LineAtReceiver
    <3> QED
      BY <3>2, <3>4 DEF a
  <2>4. ASSUME NEW s \in Sensors, Behind(s)' = Behind(s)
        PROVE  Raw(s)' = Behind(s) \o (procQ \o pHeld \o sensorQ)
    <3>1. /\ Behind(s) \in Seq(Sample) /\ procQ \in Seq(Sample)
          /\ pHeld \in Seq(Sample) /\ sensorQ \in Seq(Sample)
      BY LinePieces
    <3>2. Raw(s)' = Behind(s) \o <<>> \o procQ \o pHeld \o sensorQ
      BY <1>1, <2>2, <2>4 DEF Raw, Before
    <3>3. Behind(s) \o <<>> = Behind(s)
      BY <3>1
    <3>4. Behind(s) \o procQ \o pHeld \o sensorQ = Behind(s) \o (procQ \o pHeld \o sensorQ)
      <4> DEFINE a == Behind(s)
      <4>1. a \in Seq(Sample)
        BY <3>1
      <4> HIDE DEF a
      <4>2. /\ a \o procQ \o pHeld \o sensorQ = a \o (procQ \o pHeld \o sensorQ)
            /\ procQ \o pHeld \o sensorQ \in Seq(Sample)
        BY <3>1, <4>1, LineAtReceiver
      <4> QED
        BY <4>2 DEF a
    <3> QED
      BY <3>2, <3>3, <3>4
  <2>5. CASE lane' = lane /\ CountDrop("dispatch", x.src)
    <3>1. ASSUME NEW s \in Sensors
          PROVE  \E a \in Seq(Sample), b \in Seq(Sample) :
                    Raw(s) = a \o <<x>> \o b /\ Raw(s)' = a \o b
      <4>1. Behind(s)' = Behind(s) /\ Behind(s) \in Seq(Sample)
        BY <1>1, <2>5, LinePieces DEF Behind
      <4> QED
        BY <2>3, <2>4, <4>1
    <3> QED
      BY <1>1, <2>1, <2>5, <3>1, SampleLost DEF Stages
  <2>6. CASE lane' = [lane EXCEPT ![d] = @ \o rHeld] /\ drops' = drops
    <3>1. ASSUME NEW s \in Sensors PROVE UnderWay(s)' = UnderWay(s)
      <4>1. UnderWay(s) = NumbersOf(s, Raw(s)) /\ UnderWay(s)' = NumbersOf(s, Raw(s)')
        BY DEF UnderWay, Raw, Before, Behind
      <4>2. lane \in [Actuators -> Seq(Sample)] /\ ActuatorOf(s) \in Actuators
        BY LinePieces DEF TypeOK
      <4>3. CASE s = x.src
        <5>1. lane'[ActuatorOf(s)] = lane[ActuatorOf(s)] \o rHeld
          BY <2>6, <4>2, <4>3
        <5> DEFINE h == aHeld[ActuatorOf(s)]
                   l == lane[ActuatorOf(s)]
        <5>2. h \in Seq(Sample) /\ l \in Seq(Sample) /\ rHeld \in Seq(Sample)
          BY LinePieces
        <5>3. Before(s) = h \o l \o rHeld \o procQ
          BY DEF Before, Behind
        <5>4. Before(s)' = h \o (l \o rHeld) \o <<>> \o procQ
          BY <1>1, <2>2, <5>1 DEF Before, Behind
        <5> HIDE DEF h, l
        <5>5. h \o (l \o rHeld) \o <<>> = h \o l \o rHeld
          BY <5>2, PassOn
        <5>6. Raw(s)' = Raw(s)
          BY <1>1, <5>3, <5>4, <5>5 DEF Raw
        <5> QED
          BY <4>1, <5>6
      <4>4. CASE s # x.src
        <5>1. ActuatorOf(s) # d
          BY <2>1, <4>4, OwnActuator
        <5>2. lane'[ActuatorOf(s)] = lane[ActuatorOf(s)]
          BY <2>6, <4>2, <5>1
        <5>3. Behind(s)' = Behind(s) /\ Behind(s) \in Seq(Sample)
          BY <1>1, <5>2, LinePieces DEF Behind
        <5> DEFINE b == procQ \o pHeld \o sensorQ
        <5>4. b \in Seq(Sample) /\ Raw(s) = Behind(s) \o <<x>> \o b
          BY <2>3
        <5>5. Raw(s)' = Behind(s) \o b
          BY <2>4, <5>3
        <5> HIDE DEF b
        <5>6. NumbersOf(s, Behind(s) \o <<x>> \o b) = NumbersOf(s, Behind(s) \o b)
          BY <2>1, <4>4, <5>3, <5>4, LineLoss
        <5> QED
          BY <4>1, <5>4, <5>5, <5>6
      <4> QED
        BY <4>3, <4>4
    <3>2. \A s \in Sensors : Seen(s)' = Seen(s)
      BY <1>1, <2>6, <3>1 DEF Seen, MadeOf, DoneOf, LostOf
    <3> QED
      BY <3>2, NothingSeen
  <2> QED
    BY <2>2, <2>5, <2>6
<1> QED
  BY <1>2, <1>3

(* An actuator takes a packet from its lane, or is done with it. *)
LEMMA ActuatorSeen ==
  ASSUME TypeOK, NEW d \in Actuators, ActRecv(d) \/ ActHandle(d)
  PROVE  Fifo!Next \/ UNCHANGED Fifo!vars
<1>1. UNCHANGED <<seq, sensorQ, pHeld, procQ, rHeld, drops>>
  BY DEF ActRecv, ActHandle, sensorVars, procVars, recvVars, countVars
<1>2. /\ lane \in [Actuators -> Seq(Sample)] /\ aHeld \in [Actuators -> Seq(Sample)]
      /\ acted \in [Actuators -> Seq(Sample)]
      /\ \A s \in Sensors : ActuatorOf(s) \in Actuators
  BY ActuatorOfType DEF TypeOK
<1>3. CASE ActRecv(d)
  <2>1. /\ aHeld[d] = <<>> /\ lane[d] # <<>> /\ acted' = acted
        /\ aHeld' = [aHeld EXCEPT ![d] = <<Head(lane[d])>>]
        /\ lane' = [lane EXCEPT ![d] = Tail(@)]
    BY <1>2, <1>3 DEF ActRecv, TypeOK
  <2>2. \A s \in Sensors : Behind(s)' = Behind(s)
    <3>1. TAKE s \in Sensors
    <3>2. CASE ActuatorOf(s) # d
      BY <1>2, <2>1, <3>2 DEF Behind
    <3>3. CASE ActuatorOf(s) = d
      <4> DEFINE l == lane[d]
      <4>1. Behind(s)' = <<Head(l)>> \o Tail(l) /\ Behind(s) = <<>> \o l
        BY <1>2, <2>1, <3>3 DEF Behind
      <4>2. l \in Seq(Sample) /\ l # <<>>
        BY <1>2, <2>1
      <4> HIDE DEF l
      <4>3. <<Head(l)>> \o Tail(l) = <<>> \o l
        BY <4>2
      <4> QED
        BY <4>1, <4>3
    <3> QED
      BY <3>2, <3>3
  <2>3. \A s \in Sensors : Raw(s)' = Raw(s)
    BY <1>1, <2>2 DEF Raw, Before
  <2> QED
    BY <1>1, <2>1, <2>3, LinesKept
<1>4. CASE ActHandle(d)
  <2> DEFINE x == aHeld[d][1]
             h == aHeld[d]
  <2>1. x \in Sample /\ h = <<x>>
    <3>1. h \in Seq(Sample) /\ Len(h) = 1
      BY <1>2, <1>4 DEF ActHandle, TypeOK
    <3> HIDE DEF h
    <3>2. h[1] \in Sample /\ h = <<h[1]>>
      BY <3>1, Singleton
    <3> QED
      BY <3>2 DEF h
  <2>2. /\ aHeld' = [aHeld EXCEPT ![d] = <<>>] /\ lane' = lane
        /\ acted' = [acted EXCEPT ![d] = @ \o aHeld[d]]
    BY <1>4 DEF ActHandle
  <2>3. aHeld[d] = <<x>>
    BY <2>1
  <2> HIDE DEF x, h
  <2>4. ASSUME NEW s \in Sensors, ActuatorOf(s) # d PROVE Seen(s)' = Seen(s)
    <3>1. aHeld'[ActuatorOf(s)] = aHeld[ActuatorOf(s)] /\ acted'[ActuatorOf(s)] = acted[ActuatorOf(s)]
      BY <1>2, <2>2, <2>4
    <3>2. UnderWay(s)' = UnderWay(s)
      BY <1>1, <2>2, <3>1 DEF UnderWay
    <3> QED
      BY <1>1, <3>1, <3>2 DEF Seen, MadeOf, DoneOf, LostOf
  <2>5. ASSUME NEW s \in Sensors, ActuatorOf(s) = d
        PROVE  /\ MadeOf(s)' = MadeOf(s) /\ LostOf(s)' = LostOf(s)
               /\ UnderWay(s)' \in Seq(Nat) /\ DoneOf(s) \in Seq(Nat)
               /\ UnderWay(s) = NumbersOf(s, <<x>>) \o UnderWay(s)'
               /\ DoneOf(s)' = DoneOf(s) \o NumbersOf(s, <<x>>)
    <3> DEFINE rest == lane[d] \o rHeld \o procQ \o pHeld \o sensorQ
    <3>1. /\ lane[d] \in Seq(Sample) /\ rHeld \in Seq(Sample) /\ procQ \in Seq(Sample)
          /\ pHeld \in Seq(Sample) /\ sensorQ \in Seq(Sample)
      BY <1>2 DEF TypeOK
    <3>2. rest \in Seq(Sample)
      BY <3>1
    <3>3. UnderWay(s) = NumbersOf(s, <<x>> \o lane[d] \o rHeld \o procQ \o pHeld \o sensorQ)
      BY <2>3, <2>5 DEF UnderWay
    <3>4. UnderWay(s)' = NumbersOf(s, rest)
      <4>1. aHeld'[ActuatorOf(s)] = <<>> /\ lane'[ActuatorOf(s)] = lane[d]
        BY <1>2, <2>2, <2>5
      <4>2. <<>> \o lane[d] = lane[d]
        BY <3>1
      <4> QED
        BY <1>1, <4>1, <4>2 DEF UnderWay
    <3>5. <<x>> \o lane[d] \o rHeld \o procQ \o pHeld \o sensorQ = <<x>> \o rest
      <4> DEFINE o == <<x>>
                 p == lane[d] \o rHeld
      <4>1. o \in Seq(Sample) /\ p \in Seq(Sample)
        BY <2>1, <3>1
      <4> HIDE DEF o
      <4>2. o \o lane[d] \o rHeld = o \o p
        <5> DEFINE m == lane[d]
        <5>1. m \in Seq(Sample) /\ rHeld \in Seq(Sample)
          BY <3>1
        <5> HIDE DEF m
        <5>2. (o \o m) \o rHeld = o \o (m \o rHeld)
          BY <4>1, <5>1, ConcatAssociative
        <5> QED
          BY <5>2 DEF m
      <4> HIDE DEF p
      <4>3. o \o p \o procQ \o pHeld \o sensorQ = (o \o p) \o (procQ \o pHeld \o sensorQ)
        <5> DEFINE c == o \o p
        <5>1. c \in Seq(Sample)
          BY <4>1
        <5> HIDE DEF c
        <5>2. /\ c \o procQ \o pHeld \o sensorQ = c \o (procQ \o pHeld \o sensorQ)
              /\ procQ \o pHeld \o sensorQ \in Seq(Sample)
          BY <3>1, <5>1, LineAtReceiver
        <5> QED
          BY <5>2 DEF c
      <4>4. /\ p \o procQ \o pHeld \o sensorQ = p \o (procQ \o pHeld \o sensorQ)
            /\ procQ \o pHeld \o sensorQ \in Seq(Sample)
        <5>1. p \in Seq(Sample)
          BY <4>1
        <5>2. procQ \in Seq(Sample) /\ pHeld \in Seq(Sample) /\ sensorQ \in Seq(Sample)
          BY <3>1
        <5> QED
          BY <5>1, <5>2, LineAtReceiver
      <4> DEFINE b == procQ \o pHeld \o sensorQ
      <4>5. (o \o p) \o b = o \o (p \o b)
        <5>1. b \in Seq(Sample)
          BY <4>4
        <5> HIDE DEF b
        <5> QED
          BY <4>1, <5>1, ConcatAssociative
      <4> QED
        BY <4>2, <4>3, <4>4, <4>5 DEF o, p, b
    <3> HIDE DEF rest
    <3>6. NumbersOf(s, <<x>> \o rest) = NumbersOf(s, <<x>>) \o NumbersOf(s, rest)
      <4>1. <<x>> \in Seq(Sample)
        BY <2>1
      <4> QED
        BY <3>2, <4>1, SamplesNumbered, NumbersOfConcat
    <3>7. NumbersOf(s, rest) \in Seq(Nat)
      BY <3>2, SamplesNumbered, NumbersOfType
    <3>8. /\ acted[d] \in Seq(Sample) /\ <<x>> \in Seq(Sample)
          /\ acted'[d] = acted[d] \o <<x>>
      BY <1>2, <2>1, <2>2, <2>3
    <3>9. /\ DoneOf(s) = NumbersOf(s, acted[d]) /\ DoneOf(s) \in Seq(Nat)
          /\ DoneOf(s)' = NumbersOf(s, acted[d] \o <<x>>)
      BY <2>5, <3>8, SamplesNumbered, NumbersOfType DEF DoneOf
    <3>10. NumbersOf(s, acted[d] \o <<x>>) = NumbersOf(s, acted[d]) \o NumbersOf(s, <<x>>)
      BY <3>8, SamplesNumbered, NumbersOfConcat
    <3>11. MadeOf(s)' = MadeOf(s) /\ LostOf(s)' = LostOf(s)
      BY <1>1 DEF MadeOf, LostOf
    <3> QED
      BY <3>3, <3>4, <3>5, <3>6, <3>7, <3>9, <3>10, <3>11
  <2>6. \A s : NumbersOf(s, <<x>>) = IF x.src = s THEN <<x.seq>> ELSE <<>>
    BY <2>1, NumbersOfOne
  <2>7. ASSUME NEW s \in Sensors, s # x.src PROVE Seen(s)' = Seen(s)
    <3>1. CASE ActuatorOf(s) = d
      <4>1. NumbersOf(s, <<x>>) = <<>>
        BY <2>6, <2>7
      <4>2. \A q \in Seq(Nat) : <<>> \o q = q /\ q \o <<>> = q
        OBVIOUS
      <4> QED
        BY <2>5, <3>1, <4>1, <4>2 DEF Seen
    <3> QED
      BY <2>4, <3>1
  <2>8. CASE ActuatorOf(x.src) = d
    <3>1. x.src \in Sensors /\ x.seq \in Nat
      BY <2>1 DEF Sample
    <3>0. PICK r \in Sensors : r = x.src
      BY <3>1
    <3> DEFINE u == UnderWay(r)'
    <3>2. /\ MadeOf(r)' = MadeOf(r) /\ LostOf(r)' = LostOf(r)
          /\ u \in Seq(Nat) /\ DoneOf(r) \in Seq(Nat)
          /\ UnderWay(r) = <<x.seq>> \o u /\ DoneOf(r)' = DoneOf(r) \o <<x.seq>>
      <4>1. /\ MadeOf(r)' = MadeOf(r) /\ LostOf(r)' = LostOf(r)
            /\ UnderWay(r)' \in Seq(Nat) /\ DoneOf(r) \in Seq(Nat)
            /\ UnderWay(r) = NumbersOf(r, <<x>>) \o UnderWay(r)'
            /\ DoneOf(r)' = DoneOf(r) \o NumbersOf(r, <<x>>)
        BY <2>5, <2>8, <3>0
      <4>2. NumbersOf(r, <<x>>) = <<x.seq>>
        BY <2>6, <3>0
      <4> QED
        BY <4>1, <4>2
    <3> HIDE DEF u
    <3>3. /\ <<x.seq>> \o u # <<>> /\ Head(<<x.seq>> \o u) = x.seq
          /\ Tail(<<x.seq>> \o u) = u
      <4>1. /\ <<x.seq>> \o u \in Seq(Nat) /\ Len(<<x.seq>> \o u) = 1 + Len(u)
            /\ Len(u) \in Nat /\ (<<x.seq>> \o u)[1] = x.seq
            /\ \A j \in 1..Len(u) : (<<x.seq>> \o u)[j + 1] = u[j]
        BY <3>1, <3>2, SMTT(30)
      <4> DEFINE w == <<x.seq>> \o u
      <4> HIDE DEF w
      <4>2. w # <<>> /\ Head(w) = x.seq
        BY <4>1 DEF w
      <4>3. Tail(w) \in Seq(Nat) /\ Len(Tail(w)) = Len(u) /\ \A j \in 1..Len(u) : Tail(w)[j] = u[j]
        BY <4>1, <4>2, HeadTailProperties DEF w
      <4>4. Tail(w) = u
        BY <3>2, <4>3, SeqEqual
      <4> QED
        BY <4>2, <4>4 DEF w
    <3>4. DoneOf(r) \o <<x.seq>> = Append(DoneOf(r), x.seq)
      BY <3>1, <3>2
    <3>5. /\ UnderWay(r) # <<>> /\ UnderWay(r)' = Tail(UnderWay(r))
          /\ DoneOf(r)' = Append(DoneOf(r), Head(UnderWay(r)))
      BY <3>2, <3>3, <3>4 DEF u
    <3> QED
      <4>1. \A s \in Sensors \ {r} : Seen(s)' = Seen(s)
        BY <2>7, <3>0
      <4>2. Fifo!Next
        BY <3>2, <3>5, <4>1, ActSeen
      <4> QED
        BY <4>2
  <2>9. CASE ActuatorOf(x.src) # d
    <3>1. \A s \in Sensors : Seen(s)' = Seen(s)
      BY <2>4, <2>7, <2>9
    <3> QED
      BY <3>1, NothingSeen
  <2> QED
    BY <2>8, <2>9
<1> QED
  BY <1>3, <1>4

(* No step of main, of a loop head or of an exit is seen. *)
LEMMA OtherStepsUnseen ==
  ASSUME UNCHANGED <<seq, sensorQ, pHeld, procQ, rHeld, lane, aHeld, acted, drops>>
  PROVE  UNCHANGED Fifo!vars
<1>1. \A s \in Sensors : Raw(s)' = Raw(s)
  BY DEF Raw, Before, Behind
<1> QED
  BY <1>1, LinesKept

(* Every sample a sensor makes is acted on once, by the actuator of its own  *)
(* type and in the order of production, or it is one counted drop: the       *)
(* pipeline implements LossyFifo.                                            *)
THEOREM PipelineIsLossyFifo == Spec => FifoPerSensor
<1>1. Init => Fifo!Init
  <2> SUFFICES ASSUME Init PROVE Fifo!Init
    OBVIOUS
  <2>1. \A s \in Sensors : ActuatorOf(s) \in Actuators
    BY ActuatorOfType
  <2>2. \A s \in Sensors : MadeOf(s) = 0 /\ LostOf(s) = 0
    BY DEF Init, MadeOf, LostOf, Stages
  <2>3. \A s \in Sensors : UnderWay(s) = <<>>
    <3>1. <<>> \o <<>> \o <<>> \o <<>> \o <<>> \o <<>> = <<>>
      OBVIOUS
    <3> QED
      BY <2>1, <3>1, NumbersOfEmpty DEF Init, UnderWay
  <2>4. \A s \in Sensors : DoneOf(s) = <<>>
    BY <2>1, NumbersOfEmpty DEF Init, DoneOf
  <2> QED
    BY <2>2, <2>3, <2>4 DEF Fifo!Init, MadeOf, LostOf, DoneOf
<1>2. TypeOK /\ ShutdownOrder /\ [Next]_vars => [Fifo!Next]_Fifo!vars
  <2> SUFFICES ASSUME TypeOK, ShutdownOrder, [Next]_vars
               PROVE  Fifo!Next \/ UNCHANGED Fifo!vars
    OBVIOUS
  <2>1. ASSUME NEW s \in Sensors, SensorStep(s) PROVE Fifo!Next \/ UNCHANGED Fifo!vars
    <3>1. CASE SensorCheck(s)
      BY <3>1, OtherStepsUnseen DEF SensorCheck, procVars, recvVars, actVars, countVars
    <3>2. CASE SensorSend(s)
      BY <3>2, SendSeen
    <3> QED
      BY <2>1, <3>1, <3>2 DEF SensorStep
  <2>2. CASE ProcessorStep
    <3>1. CASE ProcExit
      BY <3>1, OtherStepsUnseen DEF ProcExit, sensorVars, recvVars, actVars, countVars
    <3> QED
      BY <2>2, <3>1, ProcessorSeen DEF ProcessorStep
  <2>3. CASE ReceiverStep
    <3>1. CASE RecvExit
      BY <3>1, OtherStepsUnseen DEF RecvExit, sensorVars, procVars, actVars, countVars
    <3> QED
      BY <2>3, <3>1, ReceiverSeen DEF ReceiverStep
  <2>4. ASSUME NEW a \in Actuators, ActuatorStep(a) PROVE Fifo!Next \/ UNCHANGED Fifo!vars
    <3>1. CASE ActExit(a)
      BY <3>1, OtherStepsUnseen DEF ActExit, sensorVars, procVars, recvVars, countVars
    <3> QED
      BY <2>4, <3>1, ActuatorSeen DEF ActuatorStep
  <2>5. CASE MainThread
    BY <2>5, MainFrame, OtherStepsUnseen DEF sensorVars, procVars, recvVars, actVars,
       countVars
  <2>6. CASE UNCHANGED vars
    BY <2>6, OtherStepsUnseen DEF vars, sensorVars, procVars, recvVars, actVars, countVars
  <2> QED
    BY <2>1, <2>2, <2>3, <2>4, <2>5, <2>6 DEF Next
<1> QED
  BY <1>1, <1>2, TypeCorrect, ShutdownInOrder, PTL DEF Spec, FifoPerSensor, Fifo!Spec

-------------------------------------------------------------------------------
(* What LossyFifo promises of a sensor: m samples made, those with the       *)
(* numbers u under way, those with the numbers d acted on, l lost.           *)
FifoAccount(m, u, d, l) ==
  /\ m \in Nat /\ l \in Nat /\ u \in Seq(Nat) /\ d \in Seq(Nat)
  /\ m = Len(u) + Len(d) + l
  /\ Ordered(d \o u) /\ Below(d \o u, m + 1)

(* A line whose oldest number goes to the end of another line.               *)
LEMMA HeadMoves ==
  ASSUME NEW d \in Seq(Nat), NEW u \in Seq(Nat), u # <<>>
  PROVE  /\ Tail(u) \in Seq(Nat) /\ Append(d, Head(u)) \in Seq(Nat)
         /\ Len(Tail(u)) = Len(u) - 1 /\ Len(Append(d, Head(u))) = Len(d) + 1
         /\ Append(d, Head(u)) \o Tail(u) = d \o u
OBVIOUS

(* What a loss in the second of two lines leaves of the two is in order.     *)
LEMMA OrderedBehind ==
  ASSUME NEW a \in Seq(Nat), NEW b \in Seq(Nat), NEW c \in Seq(Nat), NEW d \in Seq(Nat),
         NEW n \in Nat, Ordered(d \o (a \o b \o c)), Below(d \o (a \o b \o c), n)
  PROVE  Ordered(d \o (a \o c)) /\ Below(d \o (a \o c), n)
<1>0. a \o b \in Seq(Nat) /\ d \o a \in Seq(Nat)
  OBVIOUS
<1>1. \A p, q, r \in Seq(Nat) : p \o q \o r = p \o (q \o r)
  BY Regroup
<1> DEFINE e == a \o b
           f == d \o a
<1> HIDE DEF e, f
<1>2. d \o (e \o c) = (d \o e) \o c
  BY <1>0, <1>1, Zenon DEF e
<1>3. d \o e = f \o b
  BY <1>1, Zenon DEF e, f
<1>4. f \o c = d \o (a \o c)
  BY <1>1, Zenon DEF f
<1>5. Ordered(f \o b \o c) /\ Below(f \o b \o c, n)
  BY <1>2, <1>3, Zenon DEF e
<1>6. Ordered(f \o c) /\ Below(f \o c, n)
  <2>1. f \in Seq(Nat)
    BY <1>0 DEF f
  <2> QED
    BY <1>5, <2>1, OrderedWithout
<1> QED
  BY <1>4, <1>6, Zenon

(* A line without its i-th number.                                           *)
LEMMA WithoutOne ==
  ASSUME NEW u \in Seq(Nat), NEW i \in DOMAIN u
  PROVE  \E a, b, c \in Seq(Nat) :
           u = a \o b \o c /\ Len(b) = 1 /\ Fifo!RemoveAt(u, i) = a \o c
<1> DEFINE a == SubSeq(u, 1, i - 1)
           n == u[i]
           c == SubSeq(u, i + 1, Len(u))
           v == a \o <<n>> \o c
<1>1. i \in Nat /\ 1 <= i /\ i <= Len(u) /\ Len(u) \in Nat /\ n \in Nat
  OBVIOUS
<1>2. a \in Seq(Nat) /\ Len(a) = i - 1 /\ \A j \in 1..(i - 1) : a[j] = u[j]
  BY <1>1, SubSeqProperties
<1>3. c \in Seq(Nat) /\ Len(c) = Len(u) - i /\ \A j \in 1..(Len(u) - i) : c[j] = u[i + j]
  <2> DEFINE k == i + 1
  <2>1. k \in Nat /\ 1 <= k /\ k <= Len(u) + 1 /\ Len(u) - k + 1 = Len(u) - i
    BY <1>1
  <2>2. \A j \in 1..(Len(u) - i) : k + j - 1 = i + j
    BY <1>1
  <2>3. c = SubSeq(u, k, Len(u))
    OBVIOUS
  <2> HIDE DEF k, c
  <2>4. c \in Seq(Nat) /\ Len(c) = Len(u) - i
    BY <1>1, <2>1, <2>3, SubSeqProperties
  <2>5. \A j \in 1..(Len(u) - i) : c[j] = u[k + j - 1]
    BY <1>1, <2>1, <2>3, SubSeqProperties
  <2> QED
    BY <2>2, <2>4, <2>5
<1>4. Fifo!RemoveAt(u, i) = a \o c
  BY DEF Fifo!RemoveAt
<1> HIDE DEF a, n, c
<1>5. /\ v \in Seq(Nat) /\ Len(v) = Len(a) + 1 + Len(c)
      /\ \A j \in 1..Len(a) : v[j] = a[j]
      /\ v[Len(a) + 1] = n
      /\ \A j \in 1..Len(c) : v[Len(a) + 1 + j] = c[j]
  <2>1. a \in Seq(Nat) /\ c \in Seq(Nat) /\ n \in Nat
    BY <1>1, <1>2, <1>3
  <2> QED
    BY <2>1, Between
<1> HIDE DEF v
<1>6. ASSUME NEW j \in 1..Len(u) PROVE v[j] = u[j]
  <2>1. CASE j < i
    <3>1. j \in 1..(i - 1)
      BY <1>1, <2>1
    <3> QED
      BY <1>2, <1>5, <3>1
  <2>2. CASE j = i
    BY <1>1, <1>2, <1>5, <2>2 DEF n
  <2>3. CASE j > i
    <3>1. j - i \in 1..(Len(u) - i) /\ i + (j - i) = j
      BY <1>1, <2>3
    <3>2. c[j - i] = u[j]
      BY <1>3, <3>1
    <3>3. Len(a) + 1 + (j - i) = j
      BY <1>1, <1>2
    <3>4. v[j] = c[j - i]
      BY <1>3, <1>5, <3>1, <3>3
    <3> QED
      BY <3>2, <3>4
  <2> QED
    BY <1>1, <2>1, <2>2, <2>3
<1>7. v = u
  <2>1. Len(v) = Len(u)
    BY <1>1, <1>2, <1>3, <1>5
  <2>2. v \in [1..Len(v) -> Nat] /\ u \in [1..Len(u) -> Nat]
    <3>1. v \in Seq(Nat) /\ u \in Seq(Nat)
      BY <1>5
    <3> QED
      BY <3>1
  <2>3. \A j \in 1..Len(u) : v[j] = u[j]
    BY <1>6
  <2> QED
    BY <2>1, <2>2, <2>3
<1>8. <<n>> \in Seq(Nat) /\ Len(<<n>>) = 1
  BY <1>1
<1> QED
  BY <1>2, <1>3, <1>4, <1>7, <1>8 DEF v

(* Each step of LossyFifo keeps the account.                                 *)
LEMMA AccountKept ==
  ASSUME NEW m \in Nat, NEW u \in Seq(Nat), NEW d \in Seq(Nat), NEW l \in Nat,
         FifoAccount(m, u, d, l)
  PROVE  /\ FifoAccount(m + 1, Append(u, m + 1), d, l)
         /\ FifoAccount(m + 1, u, d, l + 1)
         /\ \A i \in DOMAIN u : FifoAccount(m, Fifo!RemoveAt(u, i), d, l + 1)
         /\ u # <<>> => FifoAccount(m, Tail(u), Append(d, Head(u)), l)
<1> DEFINE q == d \o u
<1>1. m = Len(u) + Len(d) + l /\ Ordered(q) /\ Below(q, m + 1)
  BY DEF FifoAccount
<1>2. q \in Seq(Nat) /\ Len(u) \in Nat /\ Len(d) \in Nat
  OBVIOUS
<1>3. Below(q, m + 2)
  <2> HIDE DEF q
  <2>1. \A i \in DOMAIN q : q[i] \in Nat
    BY <1>2
  <2> QED
    BY <1>1, <2>1 DEF Below
<1>4. FifoAccount(m + 1, Append(u, m + 1), d, l)
  <2>1. Append(u, m + 1) \in Seq(Nat) /\ Len(Append(u, m + 1)) = Len(u) + 1
    OBVIOUS
  <2>2. d \o Append(u, m + 1) = Append(q, m + 1)
    <3>1. \A x \in Seq(Nat), y \in Seq(Nat), k \in Nat :
            x \o Append(y, k) = Append(x \o y, k)
      BY Regroup
    <3>2. m + 1 \in Nat
      OBVIOUS
    <3> QED
      BY <3>1, <3>2, Zenon
  <2>3. Ordered(Append(q, m + 1)) /\ Below(Append(q, m + 1), m + 2)
    <3> HIDE DEF q
    <3> DEFINE n == m + 1
    <3>1. n \in Nat /\ n + 1 = m + 2
      OBVIOUS
    <3> HIDE DEF n
    <3>2. Ordered(Append(q, n)) /\ Below(Append(q, n), n + 1)
      BY <1>1, <1>2, <3>1, OrderedAppend DEF n
    <3> QED
      BY <3>1, <3>2 DEF n
  <2>4. m + 1 \in Nat /\ (m + 1) + 1 = m + 2 /\ m + 1 = Len(Append(u, m + 1)) + Len(d) + l
    BY <1>1, <1>2, <2>1
  <2> QED
    BY <2>1, <2>2, <2>3, <2>4 DEF FifoAccount
<1>5. FifoAccount(m + 1, u, d, l + 1)
  <2>1. /\ m + 1 \in Nat /\ l + 1 \in Nat /\ (m + 1) + 1 = m + 2
        /\ m + 1 = Len(u) + Len(d) + (l + 1)
    BY <1>1, <1>2
  <2> QED
    BY <1>1, <1>3, <2>1 DEF FifoAccount
<1>6. ASSUME NEW i \in DOMAIN u PROVE FifoAccount(m, Fifo!RemoveAt(u, i), d, l + 1)
  <2>1. PICK a \in Seq(Nat), b \in Seq(Nat), c \in Seq(Nat) :
          u = a \o b \o c /\ Len(b) = 1 /\ Fifo!RemoveAt(u, i) = a \o c
    BY WithoutOne
  <2>2. /\ a \o c \in Seq(Nat) /\ d \o a \in Seq(Nat) /\ Len(a) \in Nat /\ Len(c) \in Nat
        /\ Len(a \o c) = Len(a) + Len(c) /\ Len(a \o b \o c) = Len(a) + Len(b) + Len(c)
    OBVIOUS
  <2>3. Ordered(d \o (a \o b \o c)) /\ Below(d \o (a \o b \o c), m + 1)
    BY <1>1, <2>1, Zenon
  <2> DEFINE n == m + 1
  <2>4. n \in Nat
    OBVIOUS
  <2> HIDE DEF n
  <2>5. Ordered(d \o (a \o c)) /\ Below(d \o (a \o c), n)
    BY <2>3, <2>4, OrderedBehind DEF n
  <2>7. l + 1 \in Nat /\ m = Len(a \o c) + Len(d) + (l + 1)
    BY <1>1, <1>2, <2>1, <2>2
  <2> QED
    BY <2>1, <2>2, <2>5, <2>7 DEF FifoAccount, n
<1>7. ASSUME u # <<>> PROVE FifoAccount(m, Tail(u), Append(d, Head(u)), l)
  <2>1. /\ Tail(u) \in Seq(Nat) /\ Append(d, Head(u)) \in Seq(Nat)
        /\ Len(Tail(u)) = Len(u) - 1 /\ Len(Append(d, Head(u))) = Len(d) + 1
        /\ Append(d, Head(u)) \o Tail(u) = q
    BY <1>7, HeadMoves
  <2>2. m = Len(Tail(u)) + Len(Append(d, Head(u))) + l
    BY <1>1, <1>2, <2>1
  <2> QED
    BY <1>1, <2>1, <2>2 DEF FifoAccount
<1> QED
  BY <1>4, <1>5, <1>6, <1>7

(* For every sensor the samples made are those under way, those acted on and *)
(* those lost, each in one of the three; what was acted on, followed by what *)
(* is under way, is in the order of production, without a repetition.        *)
OnceInOrder ==
  \A s \in Sensors : FifoAccount(MadeOf(s), UnderWay(s), DoneOf(s), LostOf(s))

(* What LossyFifo promises holds of the pipeline: no actuator acts twice on  *)
(* a sample or on an older one after a newer one, and the counted drops are  *)
(* exactly the samples that were made, are not under way and are not acted   *)
(* on.                                                                       *)
THEOREM EverySampleOnce == Spec => []OnceInOrder
<1>1. Fifo!Init => OnceInOrder
  <2> SUFFICES ASSUME Fifo!Init, NEW s \in Sensors
               PROVE  FifoAccount(MadeOf(s), UnderWay(s), DoneOf(s), LostOf(s))
    BY DEF OnceInOrder
  <2>1. MadeOf(s) = 0 /\ UnderWay(s) = <<>> /\ DoneOf(s) = <<>> /\ LostOf(s) = 0
    BY DEF Fifo!Init, MadeOf, DoneOf, LostOf
  <2>2. <<>> \in Seq(Nat) /\ Len(<<>>) = 0 /\ <<>> \o <<>> = <<>> /\ DOMAIN <<>> = {}
    OBVIOUS
  <2> QED
    BY <2>1, <2>2 DEF FifoAccount, Ordered, Below
<1>2. OnceInOrder /\ [Fifo!Next]_Fifo!vars => OnceInOrder'
  <2> SUFFICES ASSUME OnceInOrder, [Fifo!Next]_Fifo!vars, NEW s \in Sensors
               PROVE  FifoAccount(MadeOf(s)', UnderWay(s)', DoneOf(s)', LostOf(s)')
    BY DEF OnceInOrder, FifoAccount
  <2> DEFINE m == MadeOf(s)
             u == UnderWay(s)
             d == DoneOf(s)
             l == LostOf(s)
  <2>1. FifoAccount(m, u, d, l)
    BY DEF OnceInOrder
  <2>2. ASSUME NEW r \in Sensors, Fifo!Accept(r)
        PROVE  \/ m' = m + 1 /\ u' = Append(u, m + 1) /\ d' = d /\ l' = l
               \/ m' = m /\ u' = u /\ d' = d /\ l' = l
    <3>1. /\ \A x \in Sensors : MadeOf(x)' = IF x = r THEN MadeOf(x) + 1 ELSE MadeOf(x)
          /\ d' = d /\ l' = l
      BY <2>2 DEF Fifo!Accept, MadeOf, DoneOf, LostOf
    <3>2. UnderWay(s)' = IF s = r THEN Append(UnderWay(r), MadeOf(r)') ELSE UnderWay(s)
      BY <2>2 DEF Fifo!Accept, MadeOf
    <3> QED
      BY <3>1, <3>2
  <2>3. ASSUME NEW r \in Sensors, Fifo!Refuse(r)
        PROVE  \/ m' = m + 1 /\ u' = u /\ d' = d /\ l' = l + 1
               \/ m' = m /\ u' = u /\ d' = d /\ l' = l
    BY <2>3 DEF Fifo!Refuse, MadeOf, DoneOf, LostOf
  <2>4. ASSUME NEW r \in Sensors, Fifo!Lose(r)
        PROVE  \/ m' = m /\ d' = d /\ l' = l + 1
                  /\ \E i \in DOMAIN u : u' = Fifo!RemoveAt(u, i)
               \/ m' = m /\ u' = u /\ d' = d /\ l' = l
    <3>1. m' = m /\ d' = d /\ l' = IF s = r THEN l + 1 ELSE l
      BY <2>4 DEF Fifo!Lose, MadeOf, DoneOf, LostOf
    <3>2. PICK i \in DOMAIN UnderWay(r) :
            [x \in Sensors |-> UnderWay(x)]'
              = [[x \in Sensors |-> UnderWay(x)] EXCEPT ![r] = Fifo!RemoveAt(UnderWay(r), i)]
      BY <2>4 DEF Fifo!Lose
    <3>3. UnderWay(s)' = IF s = r THEN Fifo!RemoveAt(UnderWay(r), i) ELSE UnderWay(s)
      BY <3>2
    <3> QED
      BY <3>1, <3>3
  <2>5. ASSUME NEW r \in Sensors, Fifo!Act(r)
        PROVE  \/ m' = m /\ u # <<>> /\ u' = Tail(u) /\ d' = Append(d, Head(u)) /\ l' = l
               \/ m' = m /\ u' = u /\ d' = d /\ l' = l
    BY <2>5 DEF Fifo!Act, MadeOf, DoneOf, LostOf
  <2>6. CASE UNCHANGED Fifo!vars
    BY <2>6, <2>1 DEF Fifo!vars, MadeOf, DoneOf, LostOf
  <2> HIDE DEF m, u, d, l
  <2>7. CASE Fifo!Next
    <3>1. PICK r \in Sensors : Fifo!Accept(r) \/ Fifo!Refuse(r) \/ Fifo!Lose(r) \/ Fifo!Act(r)
      BY <2>7 DEF Fifo!Next
    <3>2. \/ m' = m + 1 /\ u' = Append(u, m + 1) /\ d' = d /\ l' = l
          \/ m' = m + 1 /\ u' = u /\ d' = d /\ l' = l + 1
          \/ m' = m /\ d' = d /\ l' = l + 1
             /\ \E i \in DOMAIN u : u' = Fifo!RemoveAt(u, i)
          \/ m' = m /\ u # <<>> /\ u' = Tail(u) /\ d' = Append(d, Head(u)) /\ l' = l
          \/ m' = m /\ u' = u /\ d' = d /\ l' = l
      BY <2>2, <2>3, <2>4, <2>5, <3>1
    <3>3. m \in Nat /\ u \in Seq(Nat) /\ d \in Seq(Nat) /\ l \in Nat
      BY <2>1 DEF FifoAccount
    <3>4. /\ FifoAccount(m + 1, Append(u, m + 1), d, l)
          /\ FifoAccount(m + 1, u, d, l + 1)
          /\ \A i \in DOMAIN u : FifoAccount(m, Fifo!RemoveAt(u, i), d, l + 1)
          /\ u # <<>> => FifoAccount(m, Tail(u), Append(d, Head(u)), l)
      BY <2>1, <3>3, AccountKept
    <3>5. FifoAccount(m', u', d', l')
      BY <2>1, <3>2, <3>4
    <3> QED
      BY <3>5 DEF m, u, d, l
  <2> QED
    BY <2>6, <2>7
<1>3. Spec => Fifo!Spec
  BY PipelineIsLossyFifo DEF FifoPerSensor
<1> QED
  BY <1>1, <1>2, <1>3, PTL DEF Fifo!Spec

==============================================================================
