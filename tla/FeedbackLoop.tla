----------------------------- MODULE FeedbackLoop -----------------------------
(***************************************************************************)
(* The feedback path of src/main.rs: the controllers of the receiver and   *)
(* of the actuator threads emit messages (component_b/controller.rs,       *)
(* multi_actuator.rs, feedback.rs), a forwarder copies each to a log       *)
(* channel and to a processor channel, and the processor adjusts its       *)
(* anomaly threshold (component_a/processor.rs:94-120).                    *)
(*                                                                         *)
(* Elapsed time is one of three classes, separated by the deadlines of     *)
(* 500 us and 2000 us; it only grows while a packet is handled.  The       *)
(* threshold is an integer, in units of 1/Unit, each factor rounded down.  *)
(***************************************************************************)
EXTENDS Integers, Sequences

CONSTANTS
  Actuators,      \* the actuator threads
  LoopCap,        \* capacity of the channel of FeedbackLoop (64)
  CopyCap,        \* capacity of the two channels of the forwarder (64)
  Unit,           \* resolution of the threshold
  Unstable,       \* can |raw - filtered| exceed 10: a subset of BOOLEAN
  MaxThreshold    \* bound of the model: no relaxation beyond this threshold

ASSUME FeedbackAssumption ==
  /\ LoopCap \in Nat \ {0} /\ CopyCap \in Nat \ {0}
  /\ Unit \in Nat \ {0}
  /\ Unstable \subseteq BOOLEAN /\ Unstable # {}
  /\ MaxThreshold \in Nat
  /\ "Receiver" \notin Actuators

Emitters == Actuators \cup {"Receiver"}

OnTime == 0   \* at most 500 us
Late   == 1   \* more than 500 us, at most 2000 us
Missed == 2   \* more than 2000 us
Elapsed == {OnTime, Late, Missed}

Kinds == {"Ack", "ActuatorState", "unstable_sensor", "deadline_miss",
          "feedback_deadline_miss"}

VARIABLES
  ePc,        \* ePc[e]: where emitter thread e is in the handling of a packet
  elapsed,    \* elapsed[e]: the class of the time since it began
  loopQ,      \* channel emitters -> forwarder
  fPc,        \* what the forwarder has still to do with its message
  fHeld,      \* the message it forwards, as a sequence of at most one
  logQ,       \* channel forwarder -> feedback handler
  procFbQ,    \* channel forwarder -> processor
  procGone,   \* has the processor thread ended
  threshold   \* anomaly_threshold of the processor

emitVars == <<ePc, elapsed>>
fwdVars  == <<fPc, fHeld>>
vars == <<emitVars, loopQ, fwdVars, logQ, procFbQ, procGone, threshold>>

Init ==
  /\ ePc = [e \in Emitters |-> "idle"]
  /\ elapsed = [e \in Emitters |-> OnTime]
  /\ loopQ = <<>>
  /\ fPc = "recv" /\ fHeld = <<>>
  /\ logQ = <<>> /\ procFbQ = <<>> /\ procGone = FALSE
  /\ threshold = 3 * Unit

-------------------------------------------------------------------------------
(* FeedbackLoop::emit *)

(* Variant: an unbounded channel. *)
OfferAlways(q, cap, msg) == Append(q, msg)

(* try_send with its result ignored. *)
Offer(q, cap, msg) == IF Len(q) < cap THEN Append(q, msg) ELSE q

(* Variant: emit uses the 2 ms deadline. *)
EmittedKindLenient(kind, t) == IF t > Late THEN "feedback_deadline_miss" ELSE kind

(* More than 500 us after the start, every kind becomes the same error. *)
EmittedKind(kind, t) == IF t > OnTime THEN "feedback_deadline_miss" ELSE kind

(* Emitter e emits kind no earlier than its last look at the clock said. *)
Emit(e, kind, atLeast) ==
  \E t \in Elapsed :
    /\ t >= atLeast
    /\ elapsed' = [elapsed EXCEPT ![e] = t]
    /\ loopQ' = Offer(loopQ, LoopCap, EmittedKind(kind, t))

Goto(e, pc) == ePc' = [ePc EXCEPT ![e] = pc]

EmitterFrame == UNCHANGED <<fwdVars, logQ, procFbQ, procGone, threshold>>

-------------------------------------------------------------------------------
(* Controller::handle_packet, run by the receiver and by every actuator.  *)
(* Its setpoints are finite constants, which set_setpoint of the external *)
(* PID crate accepts, so "pid_config_failed" is never emitted.            *)

TakePacket(e) ==
  /\ ePc[e] = "idle"
  /\ \E unstable \in Unstable : Goto(e, IF unstable THEN "diverged" ELSE "control")
  /\ elapsed' = [elapsed EXCEPT ![e] = OnTime]
  /\ UNCHANGED loopQ /\ EmitterFrame

(* |raw - filtered| > 10 *)
EmitUnstable(e) ==
  /\ ePc[e] = "diverged"
  /\ Emit(e, "unstable_sensor", elapsed[e])
  /\ Goto(e, "control") /\ EmitterFrame

(* After PID and actuation the clock is read for the 2 ms deadline; emit *)
(* reads it again.                                                       *)
AfterControl(e) == IF e \in Actuators THEN "report" ELSE "idle"

ControlDeadline(e) ==
  /\ ePc[e] = "control"
  /\ \E t \in Elapsed :
       /\ t >= elapsed[e]
       /\ Emit(e, IF t = Missed THEN "deadline_miss" ELSE "ActuatorState", t)
  /\ Goto(e, AfterControl(e)) /\ EmitterFrame

-------------------------------------------------------------------------------
(* spawn_actuator_thread, after handle_packet *)

(* An actuation of at most 500 us emits an Ack and then its state, a longer *)
(* one the deadline error.                                                  *)
Report(e) ==
  /\ ePc[e] = "report"
  /\ \E t \in Elapsed :
       /\ t >= elapsed[e]
       /\ \/ t = OnTime /\ Emit(e, "Ack", t) /\ Goto(e, "reportState")
          \/ t > OnTime /\ Emit(e, "deadline_miss", t) /\ Goto(e, "idle")
  /\ EmitterFrame

ReportState(e) ==
  /\ ePc[e] = "reportState"
  /\ Emit(e, "ActuatorState", elapsed[e])
  /\ Goto(e, "idle") /\ EmitterFrame

-------------------------------------------------------------------------------
(* The forwarder thread *)

ForwardRecv ==
  /\ fPc = "recv" /\ loopQ # <<>>
  /\ fHeld' = <<Head(loopQ)>> /\ loopQ' = Tail(loopQ)
  /\ fPc' = "log"
  /\ UNCHANGED <<emitVars, logQ, procFbQ, procGone, threshold>>

(* Variant: the forwarder waits for room in the log channel. *)
ForwardToLogBlocking ==
  /\ fPc = "log" /\ Len(logQ) < CopyCap
  /\ logQ' = Append(logQ, fHeld[1])
  /\ fPc' = "processor"
  /\ UNCHANGED <<emitVars, loopQ, fHeld, procFbQ, procGone, threshold>>

ForwardToLog ==
  /\ fPc = "log"
  /\ logQ' = Offer(logQ, CopyCap, fHeld[1])
  /\ fPc' = "processor"
  /\ UNCHANGED <<emitVars, loopQ, fHeld, procFbQ, procGone, threshold>>

ForwardToProcessor ==
  /\ fPc = "processor"
  /\ procFbQ' = IF procGone THEN procFbQ ELSE Offer(procFbQ, CopyCap, fHeld[1])
  /\ fPc' = "recv" /\ fHeld' = <<>>
  /\ UNCHANGED <<emitVars, loopQ, logQ, procGone, threshold>>

(* spawn_feedback_handler takes a message and writes it to its file. *)
LogFeedback ==
  /\ logQ # <<>> /\ logQ' = Tail(logQ)
  /\ UNCHANGED <<emitVars, loopQ, fwdVars, procFbQ, procGone, threshold>>

-------------------------------------------------------------------------------
(* Processor::run *)

(* Variant: an Ack tightens without a floor. *)
RecalibrateNoFloor(old, kind) ==
  CASE kind = "unstable_sensor" -> (old * 11) \div 10
    [] kind = "Ack"             -> (old * 999) \div 1000
    [] OTHER                    -> old

(* The reaction to one message: only three of the kinds are known to it. *)
Recalibrate(old, kind) ==
  CASE kind = "unstable_sensor"           -> (old * 11) \div 10
    [] kind = "deadline_miss"             -> (old * 95) \div 100
    [] kind = "Ack" /\ 2 * old > 3 * Unit -> (old * 999) \div 1000
    [] OTHER                              -> old

ReadFeedback ==
  /\ ~procGone /\ procFbQ # <<>>
  /\ Recalibrate(threshold, Head(procFbQ)) <= MaxThreshold
  /\ threshold' = Recalibrate(threshold, Head(procFbQ))
  /\ procFbQ' = Tail(procFbQ)
  /\ UNCHANGED <<emitVars, loopQ, fwdVars, logQ, procGone>>

(* At shutdown the processor goes and takes its end of the channel along. *)
ProcessorLeaves ==
  /\ ~procGone /\ procGone' = TRUE
  /\ procFbQ' = <<>>
  /\ UNCHANGED <<emitVars, loopQ, fwdVars, logQ, threshold>>

-------------------------------------------------------------------------------
EmitterStep(e) == \/ TakePacket(e) \/ EmitUnstable(e) \/ ControlDeadline(e)
                  \/ Report(e) \/ ReportState(e)
Forward        == ForwardRecv \/ ForwardToLog \/ ForwardToProcessor

Next ==
  \/ \E e \in Emitters : EmitterStep(e)
  \/ Forward
  \/ LogFeedback
  \/ ReadFeedback
  \/ ProcessorLeaves

(* Only the forwarder is assumed to be scheduled; neither the feedback       *)
(* handler nor the processor need ever read.                                 *)
Spec     == Init /\ [][Next]_vars
FairSpec == Spec /\ WF_vars(Forward)

-------------------------------------------------------------------------------
(* Properties *)

(* Every variable has its type, and every channel keeps its capacity.        *)
TypeOK ==
  /\ ePc \in [Emitters -> {"idle", "diverged", "control", "report", "reportState"}]
  /\ elapsed \in [Emitters -> Elapsed]
  /\ loopQ \in Seq(Kinds) /\ Len(loopQ) <= LoopCap
  /\ fPc \in {"recv", "log", "processor"} /\ fHeld \in Seq(Kinds)
  /\ Len(fHeld) = IF fPc = "recv" THEN 0 ELSE 1
  /\ logQ \in Seq(Kinds) /\ Len(logQ) <= CopyCap
  /\ procFbQ \in Seq(Kinds) /\ Len(procFbQ) <= CopyCap
  /\ procGone \in BOOLEAN
  /\ threshold \in Nat

(* The error "deadline_miss" never travels: whoever emits it has looked at   *)
(* the clock and seen more than 500 us, so emit turns it into                *)
(* "feedback_deadline_miss".  The tightening by 0.95 (processor.rs:104-111)  *)
(* is dead code.                                                             *)
MissKindAlwaysOverridden ==
  \A q \in {loopQ, logQ, procFbQ, fHeld} :
    \A i \in DOMAIN q : q[i] # "deadline_miss"

(* No feedback takes the threshold, of 3 at first, below 1.5 * 0.999 (less   *)
(* the rounding), although the tightening by 0.95 of processor.rs:104-111    *)
(* has no floor: only an Ack lowers it, and only from above 1.5.             *)
ThresholdFloor == 2000 * threshold > 999 * 3 * Unit - 2000

(* Without a divergence of raw and filtered value, nothing ever relaxes the  *)
(* threshold: lateness and acknowledgements only lower or keep it.           *)
ThresholdNeverRelaxes ==
  [][Unstable = {FALSE} => threshold' <= threshold]_vars

(* main.rs:287-288, "Prevents feedback thread blocking on either channel":   *)
(* a full feedback channel is always relieved, though log and processor      *)
(* may never read again.                                                     *)
ForwarderNeverBlocks == Len(loopQ) = LoopCap ~> Len(loopQ) < LoopCap

(* feedback.rs:66, "override kind with error flag for sensor recalibration": *)
(* a late feedback that the processor reads changes its threshold.           *)
LateFeedbackRecalibrates ==
  [][procFbQ # <<>> /\ Head(procFbQ) = "feedback_deadline_miss"
       /\ ~procGone' /\ procFbQ' = Tail(procFbQ)
     => threshold' # threshold]_vars

==============================================================================
