-------------------------- MODULE FeedbackLoop_proofs --------------------------
(***************************************************************************)
(* Proofs about the feedback path, for any actuators, channel capacities   *)
(* and resolution of the threshold.                                        *)
(***************************************************************************)
EXTENDS FeedbackLoop, SequenceTheorems, TLAPS

(* A try_send keeps a channel's type and capacity, and puts nothing into it  *)
(* but the message offered.                                                  *)
LEMMA OfferType ==
  ASSUME NEW cap \in Nat \ {0}, NEW q \in Seq(Kinds), Len(q) <= cap,
         NEW msg \in Kinds
  PROVE  /\ Offer(q, cap, msg) \in Seq(Kinds)
         /\ Len(Offer(q, cap, msg)) <= cap
<1>1. CASE Len(q) < cap
  BY <1>1, AppendProperties DEF Offer
<1>2. CASE ~(Len(q) < cap)
  BY <1>2 DEF Offer
<1> QED
  BY <1>1, <1>2

LEMMA OfferOnly ==
  ASSUME NEW cap \in Nat \ {0}, NEW q \in Seq(Kinds), NEW msg \in Kinds,
         NEW bad, msg # bad, \A i \in DOMAIN q : q[i] # bad
  PROVE  \A i \in DOMAIN Offer(q, cap, msg) : Offer(q, cap, msg)[i] # bad
<1>1. CASE Len(q) < cap
  <2>1. /\ DOMAIN Append(q, msg) = 1..(Len(q) + 1) /\ DOMAIN q = 1..Len(q)
        /\ \A i \in 1..Len(q) : Append(q, msg)[i] = q[i]
        /\ Append(q, msg)[Len(q) + 1] = msg /\ Len(q) \in Nat
    BY AppendProperties, LenProperties
  <2> QED
    BY <1>1, <2>1 DEF Offer
<1>2. CASE ~(Len(q) < cap)
  BY <1>2 DEF Offer
<1> QED
  BY <1>1, <1>2

-------------------------------------------------------------------------------
(* What the emitters' five actions have in common: they touch nothing but    *)
(* their own state and the feedback channel, to which they offer a kind that *)
(* is not "deadline_miss", if anything; and an emitter gets to reporting a   *)
(* divergence only if there can be one.                                      *)
Emitted(e) ==
  /\ EmitterFrame
  /\ ePc' \in [Emitters -> {"idle", "diverged", "control", "report", "reportState"}]
  /\ elapsed' \in [Emitters -> Elapsed]
  /\ \/ UNCHANGED loopQ
     \/ \E kind \in Kinds \ {"deadline_miss"} :
          /\ kind = "unstable_sensor" => ePc[e] = "diverged"
          /\ loopQ' = Offer(loopQ, LoopCap, kind)
  /\ Unstable = {FALSE} =>
       \A r \in Emitters : ePc'[r] = "diverged" => ePc[r] = "diverged"

LEMMA EmitOverrides ==
  ASSUME TypeOK, NEW e \in Emitters, NEW kind \in Kinds, NEW atLeast \in Elapsed,
         kind = "deadline_miss" => atLeast # OnTime,
         Emit(e, kind, atLeast)
  PROVE  /\ elapsed' \in [Emitters -> Elapsed]
         /\ \E k \in Kinds \ {"deadline_miss"} :
              /\ k \in {kind, "feedback_deadline_miss"}
              /\ loopQ' = Offer(loopQ, LoopCap, k)
<1>1. PICK t \in Elapsed :
        /\ t >= atLeast
        /\ elapsed' = [elapsed EXCEPT ![e] = t]
        /\ loopQ' = Offer(loopQ, LoopCap, EmittedKind(kind, t))
  BY DEF Emit
<1>2. elapsed' \in [Emitters -> Elapsed]
  BY <1>1 DEF TypeOK
<1>3. kind = "deadline_miss" => t > OnTime
  BY <1>1 DEF Elapsed, OnTime, Late, Missed
<1>4. EmittedKind(kind, t) \in (Kinds \ {"deadline_miss"}) \cap {kind, "feedback_deadline_miss"}
  BY <1>3 DEF EmittedKind, Kinds
<1> QED
  BY <1>1, <1>2, <1>4

LEMMA EmitterSteps ==
  ASSUME TypeOK, NEW e \in Emitters, EmitterStep(e)
  PROVE  Emitted(e)
<1> DEFINE Pcs == {"idle", "diverged", "control", "report", "reportState"}
<1>1. ASSUME NEW pc \in Pcs, Goto(e, pc)
      PROVE  /\ ePc' \in [Emitters -> Pcs]
             /\ pc # "diverged" =>
                  \A r \in Emitters : ePc'[r] = "diverged" => ePc[r] = "diverged"
  BY <1>1 DEF Goto, TypeOK
<1>2. AfterControl(e) \in Pcs \ {"diverged"} /\ elapsed[e] \in Elapsed
  BY DEF AfterControl, TypeOK
<1>3. CASE TakePacket(e)
  <2>1. PICK unstable \in Unstable :
          Goto(e, IF unstable THEN "diverged" ELSE "control")
    BY <1>3 DEF TakePacket
  <2>2. (IF unstable THEN "diverged" ELSE "control") \in Pcs
    OBVIOUS
  <2>3. /\ ePc' \in [Emitters -> Pcs]
        /\ Unstable = {FALSE} =>
             \A r \in Emitters : ePc'[r] = "diverged" => ePc[r] = "diverged"
    BY <1>1, <2>1, <2>2
  <2>4. elapsed' \in [Emitters -> Elapsed]
    BY <1>3 DEF TakePacket, TypeOK, Elapsed
  <2> QED
    BY <1>3, <2>3, <2>4 DEF TakePacket, Emitted
<1>4. CASE EmitUnstable(e)
  BY <1>1, <1>2, <1>4, EmitOverrides DEF EmitUnstable, Emitted, Kinds
<1>5. CASE ControlDeadline(e)
  <2>1. PICK t \in Elapsed :
          Emit(e, IF t = Missed THEN "deadline_miss" ELSE "ActuatorState", t)
    BY <1>5 DEF ControlDeadline
  <2> DEFINE kind == IF t = Missed THEN "deadline_miss" ELSE "ActuatorState"
  <2>2. kind \in Kinds /\ (kind = "deadline_miss" => t # OnTime)
    BY DEF Kinds, Missed, OnTime
  <2>3. /\ elapsed' \in [Emitters -> Elapsed]
        /\ \E k \in Kinds \ {"deadline_miss"} :
             k # "unstable_sensor" /\ loopQ' = Offer(loopQ, LoopCap, k)
    BY <2>1, <2>2, EmitOverrides
  <2> QED
    BY <1>1, <1>2, <1>5, <2>3 DEF ControlDeadline, Emitted
<1>6. CASE Report(e)
  <2>1. PICK t \in Elapsed :
          \/ t = OnTime /\ Emit(e, "Ack", t) /\ Goto(e, "reportState")
          \/ t > OnTime /\ Emit(e, "deadline_miss", t) /\ Goto(e, "idle")
    BY <1>6 DEF Report
  <2>2. t > OnTime => t # OnTime
    BY DEF OnTime, Elapsed, Late, Missed
  <2>3. "Ack" \in Kinds /\ "deadline_miss" \in Kinds
    BY DEF Kinds
  <2>4. /\ elapsed' \in [Emitters -> Elapsed]
        /\ \E k \in Kinds \ {"deadline_miss"} :
             k # "unstable_sensor" /\ loopQ' = Offer(loopQ, LoopCap, k)
    BY <2>1, <2>2, <2>3, EmitOverrides
  <2>5. /\ ePc' \in [Emitters -> Pcs]
        /\ \A r \in Emitters : ePc'[r] = "diverged" => ePc[r] = "diverged"
    BY <1>1, <2>1
  <2> QED
    BY <1>6, <2>4, <2>5 DEF Report, Emitted
<1>7. CASE ReportState(e)
  BY <1>1, <1>2, <1>7, EmitOverrides DEF ReportState, Emitted, Kinds
<1> QED
  BY <1>3, <1>4, <1>5, <1>6, <1>7 DEF EmitterStep

(* The threshold stays a natural number.                                     *)
LEMMA RecalibrateType ==
  ASSUME NEW old \in Nat, NEW kind
  PROVE  Recalibrate(old, kind) \in Nat
BY FeedbackAssumption DEF Recalibrate

(* The first message of a channel is of its type, and so is the rest.        *)
LEMMA HeadTail ==
  ASSUME NEW q \in Seq(Kinds), q # <<>>
  PROVE  /\ Head(q) \in Kinds /\ Head(q) = q[1] /\ 1 \in DOMAIN q
         /\ Tail(q) \in Seq(Kinds) /\ Len(Tail(q)) = Len(q) - 1
         /\ \A i \in DOMAIN Tail(q) : i + 1 \in DOMAIN q /\ Tail(q)[i] = q[i + 1]
BY HeadTailProperties, LenProperties

(* While it forwards, the forwarder holds one message.                       *)
LEMMA HeldKind ==
  ASSUME TypeOK, fPc # "recv"
  PROVE  1 \in DOMAIN fHeld /\ fHeld[1] \in Kinds
<1>1. fHeld \in Seq(Kinds) /\ Len(fHeld) = 1
  BY DEF TypeOK
<1> QED
  BY <1>1, LenProperties

-------------------------------------------------------------------------------
(* Every reachable state is well typed and no channel exceeds its capacity.  *)
THEOREM TypeCorrect == Spec => []TypeOK
<1> USE FeedbackAssumption
<1>1. Init => TypeOK
  <2> SUFFICES ASSUME Init PROVE TypeOK
    OBVIOUS
  <2>1. <<>> \in Seq(Kinds) /\ Len(<<>>) = 0
    OBVIOUS
  <2>2. /\ loopQ \in Seq(Kinds) /\ Len(loopQ) <= LoopCap
        /\ logQ \in Seq(Kinds) /\ Len(logQ) <= CopyCap
        /\ procFbQ \in Seq(Kinds) /\ Len(procFbQ) <= CopyCap
        /\ fHeld \in Seq(Kinds) /\ Len(fHeld) = IF fPc = "recv" THEN 0 ELSE 1
    BY <2>1 DEF Init
  <2>3. threshold \in Nat /\ fPc \in {"recv", "log", "processor"}
    BY DEF Init
  <2>4. /\ procGone \in BOOLEAN
        /\ ePc \in [Emitters -> {"idle", "diverged", "control", "report", "reportState"}]
        /\ elapsed \in [Emitters -> Elapsed]
    BY DEF Init, Elapsed
  <2> QED
    BY <2>2, <2>3, <2>4 DEF TypeOK
<1>2. TypeOK /\ [Next]_vars => TypeOK'
  <2> SUFFICES ASSUME TypeOK, [Next]_vars PROVE TypeOK'
    OBVIOUS
  <2>1. ASSUME NEW e \in Emitters, EmitterStep(e) PROVE TypeOK'
    <3>1. Emitted(e)
      BY <2>1, EmitterSteps
    <3>2. loopQ' \in Seq(Kinds) /\ Len(loopQ') <= LoopCap
      BY <3>1, OfferType DEF Emitted, TypeOK
    <3> QED
      BY <3>1, <3>2 DEF Emitted, EmitterFrame, fwdVars, TypeOK
  <2>2. CASE ForwardRecv
    <3>1. /\ loopQ' \in Seq(Kinds) /\ Len(loopQ') <= LoopCap
          /\ fHeld' \in Seq(Kinds) /\ Len(fHeld') = 1 /\ fPc' = "log"
      BY <2>2, HeadTail DEF ForwardRecv, TypeOK
    <3> QED
      BY <2>2, <3>1 DEF ForwardRecv, emitVars, TypeOK
  <2>3. CASE ForwardToLog
    <3>1. fHeld[1] \in Kinds
      BY <2>3, HeldKind DEF ForwardToLog
    <3>2. logQ' \in Seq(Kinds) /\ Len(logQ') <= CopyCap
      BY <2>3, <3>1, OfferType DEF ForwardToLog, TypeOK
    <3> QED
      BY <2>3, <3>2 DEF ForwardToLog, emitVars, TypeOK
  <2>4. CASE ForwardToProcessor
    <3>1. fHeld[1] \in Kinds
      BY <2>4, HeldKind DEF ForwardToProcessor
    <3>2. procFbQ' \in Seq(Kinds) /\ Len(procFbQ') <= CopyCap
      BY <2>4, <3>1, OfferType DEF ForwardToProcessor, TypeOK
    <3>3. fHeld' \in Seq(Kinds) /\ Len(fHeld') = 0 /\ fPc' = "recv"
      BY <2>4 DEF ForwardToProcessor
    <3> QED
      BY <2>4, <3>2, <3>3 DEF ForwardToProcessor, emitVars, TypeOK
  <2>5. CASE LogFeedback
    BY <2>5, HeadTail DEF LogFeedback, emitVars, fwdVars, TypeOK
  <2>6. CASE ReadFeedback
    <3>1. /\ threshold' \in Nat
          /\ procFbQ' \in Seq(Kinds) /\ Len(procFbQ') <= CopyCap
      BY <2>6, HeadTail, RecalibrateType DEF ReadFeedback, TypeOK
    <3> QED
      BY <2>6, <3>1 DEF ReadFeedback, emitVars, fwdVars, TypeOK
  <2>7. CASE ProcessorLeaves
    <3>1. procFbQ' \in Seq(Kinds) /\ Len(procFbQ') <= CopyCap
      BY <2>7 DEF ProcessorLeaves
    <3>2. procGone' \in BOOLEAN
      BY <2>7 DEF ProcessorLeaves
    <3> QED
      BY <2>7, <3>1, <3>2 DEF ProcessorLeaves, emitVars, fwdVars, TypeOK
  <2>8. CASE UNCHANGED vars
    BY <2>8 DEF vars, emitVars, fwdVars, TypeOK
  <2> QED
    BY <2>1, <2>2, <2>3, <2>4, <2>5, <2>6, <2>7, <2>8 DEF Next, Forward
<1> QED
  BY <1>1, <1>2, PTL DEF Spec

-------------------------------------------------------------------------------
(* No message of kind bad is anywhere on the path to the processor.          *)
Absent(bad) ==
  \A q \in {loopQ, logQ, procFbQ, fHeld} : \A i \in DOMAIN q : q[i] # bad

(* A kind that no emitter offers does not appear on the path.                *)
LEMMA AbsentStays ==
  ASSUME TypeOK, [Next]_vars, NEW bad, Absent(bad),
         \A e \in Emitters : EmitterStep(e) =>
            \/ UNCHANGED loopQ
            \/ \E kind \in Kinds \ {bad} : loopQ' = Offer(loopQ, LoopCap, kind)
  PROVE  Absent(bad)'
<1> USE FeedbackAssumption
<1> DEFINE Free(q) == \A i \in DOMAIN q : q[i] # bad
<1>1. Free(loopQ) /\ Free(logQ) /\ Free(procFbQ) /\ Free(fHeld)
  BY DEF Absent
<1>2. Free(<<>>)
  OBVIOUS
<1>3. SUFFICES Free(loopQ') /\ Free(logQ') /\ Free(procFbQ') /\ Free(fHeld')
  BY DEF Absent
<1>4. /\ loopQ \in Seq(Kinds) /\ Len(loopQ) <= LoopCap
      /\ logQ \in Seq(Kinds) /\ Len(logQ) <= CopyCap
      /\ procFbQ \in Seq(Kinds) /\ Len(procFbQ) <= CopyCap
  BY DEF TypeOK
<1>5. ASSUME NEW q \in Seq(Kinds), q # <<>>, Free(q)
      PROVE  Free(Tail(q)) /\ Free(<<Head(q)>>)
  BY <1>5, HeadTail
<1>6. ASSUME NEW e \in Emitters, EmitterStep(e) PROVE Free(loopQ')
  BY <1>1, <1>4, <1>6, OfferOnly
<1>7. ASSUME NEW e \in Emitters, EmitterStep(e)
      PROVE  UNCHANGED <<logQ, procFbQ, fHeld>>
  BY <1>7, EmitterSteps DEF Emitted, EmitterFrame, fwdVars
<1>8. CASE ForwardRecv
  <2>1. Free(loopQ') /\ Free(fHeld')
    BY <1>1, <1>4, <1>5, <1>8 DEF ForwardRecv
  <2> QED
    BY <1>1, <1>8, <2>1 DEF ForwardRecv
<1>9. CASE ForwardToLog
  <2>1. fHeld[1] \in Kinds /\ fHeld[1] # bad
    BY <1>1, <1>9, HeldKind DEF ForwardToLog
  <2>2. Free(logQ')
    BY <1>1, <1>4, <1>9, <2>1, OfferOnly, ZenonT(40) DEF ForwardToLog
  <2> QED
    BY <1>1, <1>9, <2>2 DEF ForwardToLog
<1>10. CASE ForwardToProcessor
  <2>1. fHeld[1] \in Kinds /\ fHeld[1] # bad
    BY <1>1, <1>10, HeldKind DEF ForwardToProcessor
  <2>2. Free(Offer(procFbQ, CopyCap, fHeld[1]))
    BY <1>1, <1>4, <2>1, OfferOnly
  <2>3. Free(procFbQ')
    BY <1>1, <1>10, <2>2 DEF ForwardToProcessor
  <2> QED
    BY <1>1, <1>2, <1>10, <2>3 DEF ForwardToProcessor
<1>11. CASE LogFeedback
  BY <1>1, <1>4, <1>5, <1>11 DEF LogFeedback, fwdVars
<1>12. CASE ReadFeedback
  BY <1>1, <1>4, <1>5, <1>12 DEF ReadFeedback, fwdVars
<1>13. CASE ProcessorLeaves
  BY <1>1, <1>2, <1>13 DEF ProcessorLeaves, fwdVars
<1>14. CASE UNCHANGED vars
  BY <1>1, <1>14 DEF vars, fwdVars
<1> QED
  BY <1>1, <1>6, <1>7, <1>8, <1>9, <1>10, <1>11, <1>12, <1>13, <1>14
  DEF Next, Forward

(* "deadline_miss" never gets into a channel, because it is only emitted     *)
(* after more than 500 us.                                                   *)
THEOREM MissKindNeverTravels == Spec => []MissKindAlwaysOverridden
<1>1. MissKindAlwaysOverridden <=> Absent("deadline_miss")
  BY DEF MissKindAlwaysOverridden, Absent
<1>2. Init => MissKindAlwaysOverridden
  BY DEF Init, MissKindAlwaysOverridden
<1>3. TypeOK /\ MissKindAlwaysOverridden /\ [Next]_vars => MissKindAlwaysOverridden'
  <2> SUFFICES ASSUME TypeOK, MissKindAlwaysOverridden, [Next]_vars
               PROVE  MissKindAlwaysOverridden'
    OBVIOUS
  <2>1. \A e \in Emitters : EmitterStep(e) =>
            \/ UNCHANGED loopQ
            \/ \E kind \in Kinds \ {"deadline_miss"} : loopQ' = Offer(loopQ, LoopCap, kind)
    BY EmitterSteps DEF Emitted
  <2>2. Absent("deadline_miss")'
    BY <1>1, <2>1, AbsentStays
  <2> QED
    BY <2>2 DEF MissKindAlwaysOverridden, Absent
<1> QED
  BY <1>2, <1>3, TypeCorrect, PTL DEF Spec

-------------------------------------------------------------------------------
(* What one message that is not "deadline_miss" does to the threshold.       *)
LEMMA RecalibrateFloor ==
  ASSUME NEW old \in Nat, NEW kind, kind # "deadline_miss",
         2000 * old > 999 * 3 * Unit - 2000
  PROVE  2000 * Recalibrate(old, kind) > 999 * 3 * Unit - 2000
<1> USE FeedbackAssumption
<1>1. CASE kind = "unstable_sensor"
  <2>1. (old * 11) \div 10 >= old
    OBVIOUS
  <2> QED
    BY <1>1, <2>1 DEF Recalibrate
<1>2. CASE kind = "Ack" /\ 2 * old > 3 * Unit
  <2>1. 1000 * ((old * 999) \div 1000) > old * 999 - 1000
    OBVIOUS
  <2>2. Recalibrate(old, kind) = (old * 999) \div 1000
    BY <1>2 DEF Recalibrate
  <2> QED
    BY <1>2, <2>1, <2>2
<1>3. CASE kind # "unstable_sensor" /\ ~(kind = "Ack" /\ 2 * old > 3 * Unit)
  BY <1>3 DEF Recalibrate
<1> QED
  BY <1>1, <1>2, <1>3

(* The threshold never falls below 1.5 * 0.999, less the rounding.  On its   *)
(* own this is not inductive: it needs that no "deadline_miss" is under way. *)
THEOREM ThresholdHasFloor == Spec => []ThresholdFloor
<1> USE FeedbackAssumption
<1>1. Init => ThresholdFloor
  BY DEF Init, ThresholdFloor
<1>2. TypeOK /\ MissKindAlwaysOverridden /\ ThresholdFloor /\ [Next]_vars => ThresholdFloor'
  <2> SUFFICES ASSUME TypeOK, MissKindAlwaysOverridden, ThresholdFloor, [Next]_vars
               PROVE  ThresholdFloor'
    OBVIOUS
  <2>1. CASE ReadFeedback
    <3>1. Head(procFbQ) # "deadline_miss"
      BY <2>1, HeadTail DEF ReadFeedback, TypeOK, MissKindAlwaysOverridden
    <3>2. threshold' = Recalibrate(threshold, Head(procFbQ)) /\ threshold \in Nat
      BY <2>1 DEF ReadFeedback, TypeOK
    <3> QED
      BY <3>1, <3>2, RecalibrateFloor DEF ThresholdFloor
  <2>2. CASE UNCHANGED threshold
    BY <2>2 DEF ThresholdFloor
  <2>3. ASSUME NEW e \in Emitters, EmitterStep(e) PROVE UNCHANGED threshold
    BY <2>3, EmitterSteps DEF Emitted, EmitterFrame
  <2> QED
    BY <2>1, <2>2, <2>3 DEF Next, Forward, ForwardRecv, ForwardToLog,
       ForwardToProcessor, LogFeedback, ProcessorLeaves, vars
<1> QED
  BY <1>1, <1>2, TypeCorrect, MissKindNeverTravels, PTL DEF Spec

-------------------------------------------------------------------------------
(* If no reading can diverge, no emitter is about to report a divergence and *)
(* no such report is under way.                                              *)
StableInv ==
  Unstable = {FALSE} =>
    /\ \A e \in Emitters : ePc[e] # "diverged"
    /\ Absent("unstable_sensor")

(* Then the threshold never rises.                                           *)
THEOREM NothingRelaxes == Spec => ThresholdNeverRelaxes
<1> USE FeedbackAssumption
<1>1. Init => StableInv
  BY DEF Init, StableInv, Absent
<1>2. TypeOK /\ StableInv /\ [Next]_vars => StableInv'
  <2> SUFFICES ASSUME TypeOK, StableInv, [Next]_vars, Unstable = {FALSE}
               PROVE  /\ \A e \in Emitters : ePc'[e] # "diverged"
                      /\ Absent("unstable_sensor")'
    BY DEF StableInv
  <2>1. \A e \in Emitters : ePc[e] # "diverged"
    BY DEF StableInv
  <2>2. ASSUME NEW e \in Emitters, EmitterStep(e)
        PROVE  \/ UNCHANGED loopQ
               \/ \E kind \in Kinds \ {"unstable_sensor"} :
                    loopQ' = Offer(loopQ, LoopCap, kind)
    BY <2>1, <2>2, EmitterSteps DEF Emitted
  <2>3. Absent("unstable_sensor")'
    BY <2>2, AbsentStays DEF StableInv
  <2>4. ASSUME NEW e \in Emitters, EmitterStep(e)
        PROVE  \A r \in Emitters : ePc'[r] # "diverged"
    BY <2>1, <2>4, EmitterSteps DEF Emitted
  <2>5. CASE UNCHANGED ePc
    BY <2>1, <2>3, <2>5
  <2> QED
    BY <2>3, <2>4, <2>5 DEF Next, Forward, ForwardRecv, ForwardToLog,
       ForwardToProcessor, LogFeedback, ReadFeedback, ProcessorLeaves, vars, emitVars
<1>3. TypeOK /\ StableInv /\ [Next]_vars
        => [Unstable = {FALSE} => threshold' <= threshold]_vars
  <2> SUFFICES ASSUME TypeOK, StableInv, Next, Unstable = {FALSE}
               PROVE  threshold' <= threshold
    BY DEF TypeOK, vars
  <2>1. threshold \in Nat
    BY DEF TypeOK
  <2>2. CASE ReadFeedback
    <3>1. Head(procFbQ) # "unstable_sensor"
      BY <2>2, HeadTail DEF ReadFeedback, TypeOK, StableInv, Absent
    <3>2. threshold' = Recalibrate(threshold, Head(procFbQ))
      BY <2>2 DEF ReadFeedback
    <3>3. /\ (threshold * 95) \div 100 <= threshold
          /\ (threshold * 999) \div 1000 <= threshold
      BY <2>1
    <3> QED
      BY <2>1, <3>1, <3>2, <3>3 DEF Recalibrate
  <2>3. ASSUME NEW e \in Emitters, EmitterStep(e) PROVE UNCHANGED threshold
    BY <2>3, EmitterSteps DEF Emitted, EmitterFrame
  <2> QED
    BY <2>1, <2>2, <2>3 DEF Next, Forward, ForwardRecv, ForwardToLog,
       ForwardToProcessor, LogFeedback, ProcessorLeaves
<1> QED
  BY <1>1, <1>2, <1>3, TypeCorrect, PTL
  DEF Spec, ThresholdNeverRelaxes

==============================================================================
