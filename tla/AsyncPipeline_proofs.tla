------------------------- MODULE AsyncPipeline_proofs -------------------------
(***************************************************************************)
(* Proofs about the tokio pipeline, for any finite set of sensors, any     *)
(* capacities and any number of samples.                                   *)
(***************************************************************************)
EXTENDS AsyncPipeline, SensorLines_proofs, SequenceTheorems, TLAPS

-------------------------------------------------------------------------------
(* Every reachable state of the tokio pipeline is well typed and no channel  *)
(* exceeds its capacity.                                                     *)
THEOREM TypeCorrect == Spec => []TypeOK
<1>1. Init => TypeOK
  <2> SUFFICES ASSUME Init PROVE TypeOK
    OBVIOUS
  <2>1. <<>> \in Seq(Sample) /\ Len(<<>>) = 0
    OBVIOUS
  <2>2. Len(pHeld) = IF pPc \in {"check", "transmit"} THEN 1 ELSE 0
    BY <2>1 DEF Init
  <2>3. Len(sensorQ) <= SensorCap /\ Len(outQ) <= OutCap
    BY <2>1, AsyncAssumption DEF Init
  <2>4. /\ seq \in [Sensors -> Nat \ {0}] /\ samples \in [Sensors -> Nat]
        /\ drops \in [{"sensor", "transmit"} -> [Sensors -> Nat]]
        /\ sPc \in [Sensors -> {"check", "tick", "stopped"}]
    BY DEF Init
  <2>5. /\ sensorQ \in Seq(Sample) /\ outQ \in Seq(Sample) /\ received \in Seq(Sample)
        /\ pHeld \in Seq(Sample) /\ abandoned \in Seq(Sample)
    BY <2>1 DEF Init
  <2>6. running \in BOOLEAN /\ returned \in BOOLEAN /\ pPc \in {"recv", "check", "transmit", "stopped"}
    BY DEF Init
  <2> QED
    BY <2>2, <2>3, <2>4, <2>5, <2>6 DEF TypeOK
<1>2. TypeOK /\ [Next]_vars => TypeOK'
  <2> SUFFICES ASSUME TypeOK, [Next]_vars PROVE TypeOK'
    OBVIOUS
  <2> USE AsyncAssumption
  <2>1. /\ sensorQ \in Seq(Sample) /\ outQ \in Seq(Sample) /\ received \in Seq(Sample)
        /\ pHeld \in Seq(Sample) /\ abandoned \in Seq(Sample)
        /\ Len(sensorQ) \in Nat /\ Len(outQ) \in Nat
        /\ Len(sensorQ) <= SensorCap /\ Len(outQ) <= OutCap
    BY LenProperties DEF TypeOK
  <2>2. Len(<<>>) = 0 /\ <<>> \in Seq(Sample)
    OBVIOUS
  <2>3. ASSUME NEW s \in Sensors, CountSample(s)
        PROVE  samples' \in [Sensors -> Nat]
    BY <2>3 DEF CountSample, TypeOK
  <2>4. ASSUME NEW g \in {"sensor", "transmit"}, NEW s \in Sensors, CountDrop(g, s)
        PROVE  drops' \in [{"sensor", "transmit"} -> [Sensors -> Nat]]
    <3>1. [drops[g] EXCEPT ![s] = @ + 1] \in [Sensors -> Nat]
      BY DEF TypeOK
    <3> QED
      BY <2>4, <3>1 DEF CountDrop, TypeOK
  <2>5. ASSUME NEW s \in Sensors, SensorCheck(s), UNCHANGED <<running, returned>> PROVE TypeOK'
    BY <2>5 DEF SensorCheck, TypeOK
  <2>6. ASSUME NEW s \in Sensors, SensorTick(s), UNCHANGED <<running, returned>> PROVE TypeOK'
    <3> DEFINE x == [src |-> s, seq |-> seq[s]]
    <3>1. x \in Sample
      BY DEF TypeOK, Sample
    <3> HIDE DEF x
    <3>2. Append(sensorQ, x) \in Seq(Sample) /\ Len(Append(sensorQ, x)) = Len(sensorQ) + 1
      BY <2>1, <3>1
    <3>3. \/ sensorQ' = Append(sensorQ, x) /\ Len(sensorQ) < SensorCap
          \/ sensorQ' = sensorQ
      BY <2>6 DEF SensorTick, SensorChannelOpen, x
    <3>4. sensorQ' \in Seq(Sample) /\ Len(sensorQ') <= SensorCap
      <4>1. CASE sensorQ' = Append(sensorQ, x) /\ Len(sensorQ) < SensorCap
        BY <2>1, <3>2, <4>1
      <4> QED
        BY <2>1, <3>3, <4>1
    <3>5. samples' \in [Sensors -> Nat]
      BY <2>3, <2>6 DEF SensorTick, TypeOK
    <3>6. drops' \in [{"sensor", "transmit"} -> [Sensors -> Nat]]
      BY <2>4, <2>6 DEF SensorTick, TypeOK
    <3>7. seq' \in [Sensors -> Nat \ {0}] /\ sPc' \in [Sensors -> {"check", "tick", "stopped"}]
      BY <2>6 DEF SensorTick, TypeOK
    <3> QED
      BY <2>6, <3>4, <3>5, <3>6, <3>7 DEF SensorTick, TypeOK
  <2>7. CASE ProcRecv /\ UNCHANGED <<running, returned>>
    <3>1. sensorQ # <<>> /\ sensorQ' = Tail(sensorQ) /\ pHeld' = <<Head(sensorQ)>>
      BY <2>7 DEF ProcRecv
    <3>2. Head(sensorQ) \in Sample /\ Tail(sensorQ) \in Seq(Sample)
          /\ Len(Tail(sensorQ)) = Len(sensorQ) - 1
      BY <2>1, <3>1, HeadTailProperties
    <3>3. <<Head(sensorQ)>> \in Seq(Sample) /\ Len(<<Head(sensorQ)>>) = 1
      BY <3>2
    <3>4. Len(sensorQ') <= SensorCap
      BY <2>1, <3>1, <3>2
    <3> QED
      BY <2>7, <3>1, <3>2, <3>3, <3>4 DEF ProcRecv, TypeOK
  <2>8. CASE ProcEnd /\ UNCHANGED <<running, returned>>
    BY <2>2, <2>8 DEF ProcEnd, TypeOK
  <2>9. CASE ProcCheck /\ UNCHANGED <<running, returned>>
    <3>1. abandoned \o pHeld \o sensorQ \in Seq(Sample)
      BY <2>1
    <3>2. CASE Abandon
      BY <2>2, <2>9, <3>1, <3>2 DEF ProcCheck, Abandon, TypeOK
    <3>3. CASE pPc' = "transmit" /\ UNCHANGED <<pHeld, sensorQ, abandoned>>
      BY <2>9, <3>3 DEF ProcCheck, TypeOK
    <3> QED
      BY <2>9, <3>2, <3>3 DEF ProcCheck
  <2>10. CASE ProcTransmit /\ UNCHANGED <<running, returned>>
    <3>1. pHeld \in Seq(Sample) /\ Len(pHeld) = 1
      BY <2>10 DEF ProcTransmit, TypeOK
    <3>2. pHeld[1].src \in Sensors
      BY <3>1, Singleton DEF Sample
    <3>3. outQ \o pHeld \in Seq(Sample) /\ Len(outQ \o pHeld) = Len(outQ) + 1
      BY <2>1, <3>1, ConcatProperties, ZenonT(40)
    <3>4. outQ' \in Seq(Sample) /\ Len(outQ') <= OutCap
      <4>1. CASE outQ' = outQ \o pHeld /\ Len(outQ) < OutCap
        BY <2>1, <3>3, <4>1
      <4>2. CASE outQ' = outQ
        BY <2>1, <4>2
      <4> QED
        BY <2>10, <4>1, <4>2 DEF ProcTransmit
    <3>5. samples' \in [Sensors -> Nat]
      BY <2>3, <2>10, <3>2 DEF ProcTransmit, TypeOK
    <3>6. drops' \in [{"sensor", "transmit"} -> [Sensors -> Nat]]
      BY <2>4, <2>10, <3>2 DEF ProcTransmit, TypeOK
    <3> QED
      BY <2>2, <2>10, <3>4, <3>5, <3>6 DEF ProcTransmit, TypeOK
  <2>11. CASE BridgeRecv /\ UNCHANGED <<running, returned>>
    <3>1. outQ # <<>> /\ outQ' = Tail(outQ) /\ received' = Append(received, Head(outQ))
      BY <2>11 DEF BridgeRecv
    <3>2. Head(outQ) \in Sample /\ Tail(outQ) \in Seq(Sample) /\ Len(Tail(outQ)) = Len(outQ) - 1
      BY <2>1, <3>1, HeadTailProperties
    <3>3. received' \in Seq(Sample)
      BY <2>1, <3>1, <3>2
    <3>4. outQ' \in Seq(Sample) /\ Len(outQ') <= OutCap
      BY <2>1, <3>1, <3>2
    <3> QED
      BY <2>11, <3>3, <3>4 DEF BridgeRecv, TypeOK
  <2>12. CASE MainStop \/ MainReturn
    BY <2>12 DEF MainStop, MainReturn, taskVars, TypeOK
  <2>13. CASE UNCHANGED vars
    BY <2>13 DEF vars, taskVars, TypeOK
  <2> QED
    BY <2>5, <2>6, <2>7, <2>8, <2>9, <2>10, <2>11, <2>12, <2>13
       DEF Next, Sensor, Processor, Bridge, TaskStep
<1> QED
  BY <1>1, <1>2, PTL DEF Spec

-------------------------------------------------------------------------------
(* A sample disappears uncounted only once the flag is clear, and never more *)
(* than a channel of them and the one in hand: the processor ends once.      *)
THEOREM AbandonedInShutdown == Spec => []AbandonedOnlyByStop
<1> DEFINE Inv == /\ abandoned # <<>> => pPc = "stopped" /\ ~running
                  /\ Len(abandoned) <= SensorCap + 1
<1>1. Init => Inv
  BY AsyncAssumption DEF Init
<1>2. TypeOK /\ Inv /\ [Next]_vars => Inv'
  <2> SUFFICES ASSUME TypeOK, Inv, [Next]_vars PROVE Inv'
    OBVIOUS
  <2>1. CASE ProcCheck /\ ~running /\ Abandon /\ running' = running
    <3>1. abandoned = <<>> /\ Len(pHeld) = 1
      BY <2>1 DEF ProcCheck, TypeOK
    <3>2. /\ pHeld \in Seq(Sample) /\ sensorQ \in Seq(Sample)
          /\ Len(sensorQ) \in Nat /\ Len(sensorQ) <= SensorCap
          /\ SensorCap \in Nat
      BY LenProperties, AsyncAssumption DEF TypeOK
    <3>3. <<>> \o pHeld \o sensorQ = pHeld \o sensorQ
      BY <3>2
    <3>4. Len(pHeld \o sensorQ) = Len(pHeld) + Len(sensorQ)
      BY <3>2
    <3>5. abandoned' = pHeld \o sensorQ
      BY <2>1, <3>1, <3>3 DEF Abandon
    <3>6. Len(abandoned') <= SensorCap + 1
      BY <3>1, <3>2, <3>4, <3>5
    <3> QED
      BY <2>1, <3>6 DEF Abandon
  <2>2. CASE abandoned' = abandoned /\ running' = running /\ (pPc = "stopped" => pPc' = pPc)
    BY <2>2
  <2>3. CASE MainStop \/ MainReturn
    BY <2>3 DEF MainStop, MainReturn, taskVars
  <2> HIDE DEF Inv
  <2> QED
    BY <2>1, <2>2, <2>3 DEF Next, Sensor, Processor, Bridge, TaskStep, SensorCheck, SensorTick,
       ProcRecv, ProcEnd, ProcCheck, ProcTransmit, BridgeRecv, vars, taskVars
<1>3. Inv => AbandonedOnlyByStop
  BY DEF AbandonedOnlyByStop
<1> QED
  BY <1>1, <1>2, <1>3, TypeCorrect, PTL DEF Spec

-------------------------------------------------------------------------------
(* The numbers of the samples of s in the parts of the pipeline.             *)
Sent(s)   == NumbersOf(s, received \o outQ)
Held(s)   == NumbersOf(s, pHeld)
Queued(s) == NumbersOf(s, sensorQ)
Gone(s)   == NumbersOf(s, abandoned)

(* The account of one sensor: what is under way of it is in order and was    *)
(* numbered by it, every number below n is somewhere or one of its drops, ds *)
(* at the first channel and dt at the second, and c counts what the two      *)
(* channels took.                                                            *)
Balanced(sent, held, queued, gone, n, ds, dt, c) ==
  /\ Ordered(sent \o held \o queued) /\ Below(sent \o held \o queued, n)
  /\ n - 1 = Len(sent) + Len(held) + Len(queued) + ds + dt + Len(gone)
  /\ c = (n - 1 - ds) + Len(sent)

(* Account is inductive. *)
Account(s) ==
  Balanced(Sent(s), Held(s), Queued(s), Gone(s), seq[s],
           drops["sensor"][s], drops["transmit"][s], samples[s])

(* What can happen to the samples of one sensor keeps its account.           *)
LEMMA BalanceKept ==
  ASSUME NEW a \in Seq(Nat), NEW h \in Seq(Nat), NEW q \in Seq(Nat), NEW g \in Seq(Nat),
         NEW n \in Nat, NEW ds \in Nat, NEW dt \in Nat, NEW c \in Nat,
         Balanced(a, h, q, g, n, ds, dt, c)
  PROVE  /\ Balanced(a, h, Append(q, n), g, n + 1, ds, dt, c + 1)
         /\ Balanced(a, h, q, g, n + 1, ds + 1, dt, c)
         /\ h = <<>> => \A h2, q2 \in Seq(Nat) :
                          q = h2 \o q2 => Balanced(a, h2, q2, g, n, ds, dt, c)
         /\ Balanced(a, <<>>, <<>>, g \o h \o q, n, ds, dt, c)
         /\ Len(h) = 1 => Balanced(a \o h, <<>>, q, g, n, ds, dt, c + 1)
         /\ Len(h) = 1 => Balanced(a, <<>>, q, g, n, ds, dt + 1, c)
<1> DEFINE l == a \o h \o q
<1>1. /\ Ordered(l) /\ Below(l, n) /\ l \in Seq(Nat)
      /\ n - 1 = Len(a) + Len(h) + Len(q) + ds + dt + Len(g)
      /\ c = (n - 1 - ds) + Len(a)
  BY DEF Balanced
<1>2. Len(a) \in Nat /\ Len(h) \in Nat /\ Len(q) \in Nat /\ Len(g) \in Nat
  OBVIOUS
<1>3. Below(l, n + 1)
  <2> HIDE DEF l
  <2>1. \A i \in DOMAIN l : l[i] \in Nat
    BY <1>1, SMTT(30)
  <2> QED
    BY <1>1, <2>1, SMTT(30) DEF Below
<1>4. Balanced(a, h, Append(q, n), g, n + 1, ds, dt, c + 1)
  <2>1. a \o h \o Append(q, n) = Append(l, n)
    <3> DEFINE m == a \o h
    <3>1. m \in Seq(Nat)
      OBVIOUS
    <3> HIDE DEF m, l
    <3>2. \A x \in Seq(Nat), y \in Seq(Nat), k \in Nat :
            x \o Append(y, k) = Append(x \o y, k)
      BY Regroup
    <3>3. m \o Append(q, n) = Append(m \o q, n)
      BY <3>1, <3>2, Zenon
    <3> QED
      BY <3>3 DEF m, l
  <2>2. Len(Append(q, n)) = Len(q) + 1
    OBVIOUS
  <2> HIDE DEF l
  <2>3. Ordered(Append(l, n)) /\ Below(Append(l, n), n + 1)
    BY <1>1, OrderedAppend
  <2> QED
    BY <1>1, <1>2, <2>1, <2>2, <2>3 DEF Balanced
<1>5. Balanced(a, h, q, g, n + 1, ds + 1, dt, c)
  BY <1>1, <1>2, <1>3 DEF Balanced
<1>6. ASSUME h = <<>>, NEW h2 \in Seq(Nat), NEW q2 \in Seq(Nat), q = h2 \o q2
      PROVE  Balanced(a, h2, q2, g, n, ds, dt, c)
  <2>1. a \o h2 \o q2 = a \o (h2 \o q2)
    <3>1. h2 \in Seq(Nat) /\ q2 \in Seq(Nat)
      BY <1>6
    <3> HIDE DEF l
    <3>2. \A p, r \in Seq(Nat) : a \o p \o r = a \o (p \o r)
      BY Regroup
    <3> QED
      BY <3>1, <3>2
  <2>2. a \o h = a
    BY <1>6
  <2>3. a \o h2 \o q2 = l
    BY <1>6, <2>1, <2>2
  <2>4. Len(q) = Len(h2) + Len(q2) /\ Len(h) = 0 /\ Len(h2) \in Nat /\ Len(q2) \in Nat
    BY <1>6
  <2> HIDE DEF l
  <2> QED
    BY <1>1, <1>2, <2>3, <2>4 DEF Balanced
<1>7. Balanced(a, <<>>, <<>>, g \o h \o q, n, ds, dt, c)
  <2>1. a \o (h \o q) \o <<>> = l
    <3> HIDE DEF l
    <3>0. \A x, y, z \in Seq(Nat) : x \o y \o z = x \o (y \o z)
      BY Regroup
    <3>1. a \o (h \o q) = l
      BY <3>0, Zenon DEF l
    <3> QED
      BY <1>1, <3>1
  <2>2. h \o q \in Seq(Nat) /\ <<>> \in Seq(Nat) /\ a \o <<>> = a /\ a \o <<>> \o <<>> = a
    OBVIOUS
  <2> DEFINE b == h \o q
             e == <<>>
  <2> HIDE DEF l, b, e
  <2>3. Ordered(a \o b \o e) /\ Below(a \o b \o e, n)
    BY <1>1, <2>1 DEF b, e
  <2>4. b \in Seq(Nat) /\ e \in Seq(Nat)
    BY <2>2 DEF b, e
  <2>5. Ordered(a \o e) /\ Below(a \o e, n)
    BY <2>3, <2>4, OrderedWithout
  <2>6. Len(g \o h \o q) = Len(g) + Len(h) + Len(q) /\ Len(<<>>) = 0
    OBVIOUS
  <2> QED
    BY <1>1, <1>2, <2>2, <2>5, <2>6 DEF Balanced, e
<1>8. ASSUME Len(h) = 1 PROVE Balanced(a \o h, <<>>, q, g, n, ds, dt, c + 1)
  <2>1. a \o h \o <<>> \o q = l /\ Len(a \o h) = Len(a) + Len(h) /\ Len(<<>>) = 0
    OBVIOUS
  <2> HIDE DEF l
  <2> QED
    BY <1>1, <1>2, <1>8, <2>1 DEF Balanced
<1>9. ASSUME Len(h) = 1 PROVE Balanced(a, <<>>, q, g, n, ds, dt + 1, c)
  <2>1. Ordered(a \o q) /\ Below(a \o q, n)
    BY <1>1, OrderedWithout
  <2>2. a \o <<>> = a /\ Len(<<>>) = 0
    OBVIOUS
  <2> QED
    BY <1>1, <1>2, <1>9, <2>1, <2>2 DEF Balanced
<1> QED
  BY <1>4, <1>5, <1>6, <1>7, <1>8, <1>9

(* Samples carry numbers. *)
LEMMA SamplesNumbered == Numbered(Sample)
BY DEF Numbered, Sample

(* The types of what Account(s) speaks of.                                   *)
LEMMA AccountTyped ==
  ASSUME TypeOK, NEW s \in Sensors
  PROVE  /\ Sent(s) \in Seq(Nat) /\ Held(s) \in Seq(Nat) /\ Queued(s) \in Seq(Nat)
         /\ Gone(s) \in Seq(Nat)
         /\ seq[s] \in Nat /\ samples[s] \in Nat
         /\ drops["sensor"][s] \in Nat /\ drops["transmit"][s] \in Nat
<1>1. /\ received \o outQ \in Seq(Sample) /\ pHeld \in Seq(Sample)
      /\ sensorQ \in Seq(Sample) /\ abandoned \in Seq(Sample)
  BY DEF TypeOK
<1>2. \A q \in Seq(Sample) : NumbersOf(s, q) \in Seq(Nat)
  BY SamplesNumbered, NumbersOfType
<1> QED
  BY <1>1, <1>2 DEF TypeOK, Sent, Held, Queued, Gone

(* The line of s is what was sent, what is held and what is queued.          *)
LEMMA LineParts ==
  ASSUME TypeOK, NEW s \in Sensors
  PROVE  Line(s) = Sent(s) \o Held(s) \o Queued(s)
<1> DEFINE a == received \o outQ
           b == a \o pHeld
<1>1. a \in Seq(Sample) /\ pHeld \in Seq(Sample) /\ sensorQ \in Seq(Sample)
  BY DEF TypeOK
<1> HIDE DEF a
<1>2. b \in Seq(Sample)
  BY <1>1
<1>3. NumbersOf(s, a \o pHeld) = NumbersOf(s, a) \o NumbersOf(s, pHeld)
  BY <1>1, SamplesNumbered, NumbersOfConcat
<1> HIDE DEF b
<1>4. NumbersOf(s, b \o sensorQ) = NumbersOf(s, b) \o NumbersOf(s, sensorQ)
  BY <1>1, <1>2, SamplesNumbered, NumbersOfConcat
<1> QED
  BY <1>3, <1>4 DEF Line, Sent, Held, Queued, a, b

(* The properties of the runs are what Account(s) says of the line of s.     *)
LEMMA AccountIsEnough ==
  ASSUME TypeOK, \A s \in Sensors : Account(s)
  PROVE  AccountedInOrder /\ CountsWhatWasSent
<1>1. ASSUME NEW s \in Sensors
      PROVE  /\ Ordered(Line(s))
             /\ seq[s] - 1 = Len(Line(s)) + drops["sensor"][s] + drops["transmit"][s]
                             + Len(NumbersOf(s, abandoned))
  <2>1. /\ Line(s) = Sent(s) \o Held(s) \o Queued(s)
        /\ Sent(s) \in Seq(Nat) /\ Held(s) \in Seq(Nat) /\ Queued(s) \in Seq(Nat)
        /\ Gone(s) = NumbersOf(s, abandoned)
    BY LineParts, AccountTyped DEF Gone
  <2>2. Len(Line(s)) = Len(Sent(s)) + Len(Held(s)) + Len(Queued(s))
    BY <2>1
  <2>3. Account(s)
    OBVIOUS
  <2> QED
    BY <2>1, <2>2, <2>3 DEF Account, Balanced
<1>2. AccountedInOrder
  BY <1>1 DEF AccountedInOrder, Ordered
<1>3. CountsWhatWasSent
  BY DEF CountsWhatWasSent, Account, Balanced, Sent
<1> QED
  BY <1>2, <1>3

(* How lines of samples can be regrouped.                                    *)
LEMMA SamplesRegroup ==
  \A p, q, r \in Seq(Sample) : p \o (q \o r) = (p \o q) \o r
BY ConcatAssociative, SMTT(30)

(* Every step of the pipeline keeps the account of every sensor.             *)
LEMMA AccountKept ==
  ASSUME TypeOK, \A s \in Sensors : Account(s), [Next]_vars, NEW s \in Sensors
  PROVE  Account(s)'
<1> DEFINE ds == drops["sensor"][s]
           dt == drops["transmit"][s]
<1>1. /\ Sent(s) \in Seq(Nat) /\ Held(s) \in Seq(Nat) /\ Queued(s) \in Seq(Nat)
      /\ Gone(s) \in Seq(Nat) /\ seq[s] \in Nat /\ samples[s] \in Nat
      /\ ds \in Nat /\ dt \in Nat
  BY AccountTyped
<1>2. Balanced(Sent(s), Held(s), Queued(s), Gone(s), seq[s], ds, dt, samples[s])
  BY DEF Account
<1>3. Account(s)' = Balanced(Sent(s)', Held(s)', Queued(s)', Gone(s)', seq'[s], ds', dt', samples'[s])
  BY DEF Account
<1>4. /\ received \in Seq(Sample) /\ outQ \in Seq(Sample) /\ pHeld \in Seq(Sample)
      /\ sensorQ \in Seq(Sample) /\ abandoned \in Seq(Sample)
      /\ seq \in [Sensors -> Nat \ {0}] /\ samples \in [Sensors -> Nat]
      /\ drops \in [{"sensor", "transmit"} -> [Sensors -> Nat]]
  BY DEF TypeOK
<1>5. NumbersOf(s, <<>>) = <<>>
  BY NumbersOfEmpty
<1>6. /\ Balanced(Sent(s), Held(s), Append(Queued(s), seq[s]), Gone(s), seq[s] + 1, ds, dt, samples[s] + 1)
      /\ Balanced(Sent(s), Held(s), Queued(s), Gone(s), seq[s] + 1, ds + 1, dt, samples[s])
      /\ Held(s) = <<>> => \A h2, q2 \in Seq(Nat) : Queued(s) = h2 \o q2 =>
           Balanced(Sent(s), h2, q2, Gone(s), seq[s], ds, dt, samples[s])
      /\ Balanced(Sent(s), <<>>, <<>>, Gone(s) \o Held(s) \o Queued(s), seq[s], ds, dt, samples[s])
      /\ Len(Held(s)) = 1 =>
           Balanced(Sent(s) \o Held(s), <<>>, Queued(s), Gone(s), seq[s], ds, dt, samples[s] + 1)
      /\ Len(Held(s)) = 1 =>
           Balanced(Sent(s), <<>>, Queued(s), Gone(s), seq[s], ds, dt + 1, samples[s])
  <2> DEFINE a == Sent(s)
             h == Held(s)
             q == Queued(s)
             g == Gone(s)
             n == seq[s]
             c == samples[s]
  <2>1. /\ a \in Seq(Nat) /\ h \in Seq(Nat) /\ q \in Seq(Nat) /\ g \in Seq(Nat)
        /\ n \in Nat /\ ds \in Nat /\ dt \in Nat /\ c \in Nat
    BY <1>1
  <2>2. Balanced(a, h, q, g, n, ds, dt, c)
    BY <1>2
  <2> HIDE DEF a, h, q, g, n, c, ds, dt
  <2>3. /\ Balanced(a, h, Append(q, n), g, n + 1, ds, dt, c + 1)
        /\ Balanced(a, h, q, g, n + 1, ds + 1, dt, c)
        /\ h = <<>> => \A h2, q2 \in Seq(Nat) :
                         q = h2 \o q2 => Balanced(a, h2, q2, g, n, ds, dt, c)
        /\ Balanced(a, <<>>, <<>>, g \o h \o q, n, ds, dt, c)
        /\ Len(h) = 1 => Balanced(a \o h, <<>>, q, g, n, ds, dt, c + 1)
        /\ Len(h) = 1 => Balanced(a, <<>>, q, g, n, ds, dt + 1, c)
    BY <2>1, <2>2, BalanceKept
  <2> QED
    BY <2>3 DEF a, h, q, g, n, c, ds, dt
<1>7. CASE UNCHANGED <<Sent(s), Held(s), Queued(s), Gone(s), seq[s], ds, dt, samples[s]>>
  BY <1>2, <1>3, <1>7
<1>8. CASE UNCHANGED <<seq, sensorQ, pHeld, outQ, received, drops, samples, abandoned>>
  <2>1. UNCHANGED <<Sent(s), Held(s), Queued(s), Gone(s), seq[s], ds, dt, samples[s]>>
    BY <1>8 DEF Sent, Held, Queued, Gone
  <2> QED
    BY <1>7, <2>1
<1>9. ASSUME NEW r \in Sensors, SensorTick(r) PROVE Account(s)'
  <2> DEFINE x == [src |-> r, seq |-> seq[r]]
  <2>1. x \in Sample /\ x.src = r /\ x.seq = seq[r]
    BY <1>4 DEF Sample
  <2>2. /\ UNCHANGED <<pHeld, outQ, received, abandoned>> /\ seq' = [seq EXCEPT ![r] = @ + 1]
        /\ \/ sensorQ' = Append(sensorQ, x) /\ CountSample(r) /\ drops' = drops
           \/ sensorQ' = sensorQ /\ samples' = samples /\ CountDrop("sensor", r)
    BY <1>9 DEF SensorTick
  <2>3. UNCHANGED <<Sent(s), Held(s), Gone(s)>>
    BY <2>2 DEF Sent, Held, Gone
  <2> HIDE DEF x
  <2>4. CASE sensorQ' = Append(sensorQ, x) /\ CountSample(r) /\ drops' = drops
    <3>1. Queued(s)' = IF r = s THEN Append(Queued(s), x.seq) ELSE Queued(s)
      <4>1. NumbersOf(s, Append(sensorQ, x)) = IF x.src = s THEN Append(NumbersOf(s, sensorQ), x.seq)
                                                            ELSE NumbersOf(s, sensorQ)
        BY <1>4, <2>1, NumbersOfAppend, SMTT(30)
      <4> QED
        BY <2>1, <2>4, <4>1 DEF Queued
    <3>2. CASE r = s
      <4>1. /\ Queued(s)' = Append(Queued(s), seq[s]) /\ seq'[s] = seq[s] + 1
            /\ samples'[s] = samples[s] + 1 /\ ds' = ds /\ dt' = dt
        BY <1>4, <2>1, <2>2, <2>4, <3>1, <3>2 DEF CountSample
      <4> HIDE DEF ds, dt
      <4> QED
        BY <1>3, <1>6, <2>3, <4>1
    <3>3. CASE r # s
      <4>1. /\ Queued(s)' = Queued(s) /\ seq'[s] = seq[s]
            /\ samples'[s] = samples[s] /\ ds' = ds /\ dt' = dt
        BY <1>4, <2>1, <2>2, <2>4, <3>1, <3>3 DEF CountSample
      <4> QED
        BY <1>7, <2>3, <4>1
    <3> QED
      BY <3>2, <3>3
  <2>5. CASE sensorQ' = sensorQ /\ samples' = samples /\ CountDrop("sensor", r)
    <3>1. Queued(s)' = Queued(s) /\ samples'[s] = samples[s] /\ dt' = dt
      BY <1>4, <2>5 DEF Queued, CountDrop
    <3>2. CASE r = s
      <4>1. seq'[s] = seq[s] + 1 /\ ds' = ds + 1
        BY <1>4, <2>2, <2>5, <3>2 DEF CountDrop
      <4> HIDE DEF ds, dt
      <4> QED
        BY <1>3, <1>6, <2>3, <3>1, <4>1
    <3>3. CASE r # s
      <4>1. seq'[s] = seq[s] /\ ds' = ds
        BY <1>4, <2>2, <2>5, <3>3 DEF CountDrop
      <4> QED
        BY <1>7, <2>3, <3>1, <4>1
    <3> QED
      BY <3>2, <3>3
  <2> QED
    BY <2>2, <2>4, <2>5
<1>10. CASE ProcRecv
  <2>1. /\ pHeld = <<>> /\ sensorQ # <<>> /\ pHeld' = <<Head(sensorQ)>> /\ sensorQ' = Tail(sensorQ)
        /\ UNCHANGED <<seq, outQ, received, drops, samples, abandoned>>
    BY <1>4, <1>10 DEF ProcRecv, TypeOK
  <2>2. UNCHANGED <<Sent(s), Gone(s), seq[s], ds, dt, samples[s]>>
    BY <2>1 DEF Sent, Gone
  <2>3. NumbersOf(s, sensorQ) = NumbersOf(s, <<Head(sensorQ)>>) \o NumbersOf(s, Tail(sensorQ))
    BY <1>4, <2>1, SamplesNumbered, NumbersOfHead
  <2>4. Queued(s) = Held(s)' \o Queued(s)' /\ Held(s) = <<>>
    BY <1>5, <2>1, <2>3 DEF Held, Queued
  <2>5. Held(s)' \in Seq(Nat) /\ Queued(s)' \in Seq(Nat)
    <3>1. <<Head(sensorQ)>> \in Seq(Sample) /\ Tail(sensorQ) \in Seq(Sample)
      BY <1>4, <2>1
    <3>2. \A q \in Seq(Sample) : NumbersOf(s, q) \in Seq(Nat)
      BY SamplesNumbered, NumbersOfType
    <3> QED
      BY <2>1, <3>1, <3>2 DEF Held, Queued
  <2> HIDE DEF ds, dt
  <2> QED
    BY <1>3, <1>6, <2>2, <2>4, <2>5
<1>11. CASE ProcCheck /\ Abandon
  <2>1. /\ pHeld' = <<>> /\ sensorQ' = <<>> /\ abandoned' = abandoned \o pHeld \o sensorQ
        /\ UNCHANGED <<seq, outQ, received, drops, samples>>
    BY <1>11 DEF ProcCheck, Abandon
  <2>2. UNCHANGED <<Sent(s), seq[s], ds, dt, samples[s]>>
    BY <2>1 DEF Sent
  <2>3. Held(s)' = <<>> /\ Queued(s)' = <<>>
    BY <1>5, <2>1 DEF Held, Queued
  <2>4. Gone(s)' = Gone(s) \o Held(s) \o Queued(s)
    <3> DEFINE b == abandoned \o pHeld
    <3>1. NumbersOf(s, b) = NumbersOf(s, abandoned) \o NumbersOf(s, pHeld)
      BY <1>4, SamplesNumbered, NumbersOfConcat, ZenonT(40)
    <3>2. b \in Seq(Sample)
      BY <1>4
    <3> HIDE DEF b
    <3>3. NumbersOf(s, b \o sensorQ) = NumbersOf(s, b) \o NumbersOf(s, sensorQ)
      BY <1>4, <3>2, SamplesNumbered, NumbersOfConcat, ZenonT(40)
    <3> QED
      BY <2>1, <3>1, <3>3 DEF Gone, Held, Queued, b
  <2> HIDE DEF ds, dt
  <2> QED
    BY <1>3, <1>6, <2>2, <2>3, <2>4
<1>12. CASE ProcTransmit
  <2> DEFINE x == pHeld[1]
  <2>1. x \in Sample /\ pHeld = <<x>> /\ x.src \in Sensors
    BY <1>4, <1>12, Singleton DEF TypeOK, ProcTransmit, Sample
  <2>2. /\ pHeld' = <<>> /\ UNCHANGED <<seq, sensorQ, received, abandoned>>
        /\ \/ outQ' = outQ \o pHeld /\ CountSample(x.src) /\ drops' = drops
           \/ outQ' = outQ /\ samples' = samples /\ CountDrop("transmit", x.src)
    BY <1>12 DEF ProcTransmit
  <2> HIDE DEF x
  <2>3. Held(s) = IF x.src = s THEN <<x.seq>> ELSE <<>>
    <3>1. NumbersOf(s, <<x>>) = IF x.src = s THEN <<x.seq>> ELSE <<>>
      BY <2>1, NumbersOfOne
    <3> QED
      BY <2>1, <3>1 DEF Held
  <2>4. UNCHANGED <<Queued(s), Gone(s), seq[s]>> /\ Held(s)' = <<>>
    BY <1>5, <2>2 DEF Queued, Gone, Held
  <2>5. CASE outQ' = outQ \o pHeld /\ CountSample(x.src) /\ drops' = drops
    <3>1. Sent(s)' = Sent(s) \o Held(s)
      <4> DEFINE b == received \o outQ
      <4>1. b \in Seq(Sample) /\ received \o (outQ \o pHeld) = b \o pHeld
        <5>1. b \in Seq(Sample)
          BY <1>4
        <5>2. received \in Seq(Sample) /\ outQ \in Seq(Sample) /\ pHeld \in Seq(Sample)
          BY <1>4
        <5>3. received \o (outQ \o pHeld) = b \o pHeld
          BY <5>2, SamplesRegroup, Zenon
        <5> QED
          BY <5>1, <5>3
      <4> HIDE DEF b
      <4>2. NumbersOf(s, b \o pHeld) = NumbersOf(s, b) \o NumbersOf(s, pHeld)
        BY <1>4, <4>1, SamplesNumbered, NumbersOfConcat, ZenonT(40)
      <4> QED
        BY <2>2, <2>5, <4>1, <4>2 DEF Sent, Held, b
    <3>2. ds' = ds /\ dt' = dt
      BY <2>5
    <3>3. CASE x.src = s
      <4>1. samples'[s] = samples[s] + 1 /\ Len(Held(s)) = 1
        BY <1>4, <2>3, <2>5, <3>3 DEF CountSample
      <4> HIDE DEF ds, dt
      <4> QED
        BY <1>3, <1>6, <2>4, <3>1, <3>2, <4>1
    <3>4. CASE x.src # s
      <4>1. samples'[s] = samples[s] /\ Held(s) = <<>>
        BY <1>4, <2>1, <2>3, <2>5, <3>4 DEF CountSample
      <4>2. Sent(s) \o <<>> = Sent(s)
        BY <1>1
      <4> QED
        BY <1>7, <2>4, <3>1, <3>2, <4>1, <4>2
    <3> QED
      BY <3>3, <3>4
  <2>6. CASE outQ' = outQ /\ samples' = samples /\ CountDrop("transmit", x.src)
    <3>1. Sent(s)' = Sent(s) /\ ds' = ds /\ samples'[s] = samples[s]
      BY <1>4, <2>1, <2>2, <2>6 DEF Sent, CountDrop
    <3>2. CASE x.src = s
      <4>1. dt' = dt + 1 /\ Len(Held(s)) = 1
        BY <1>4, <2>1, <2>3, <2>6, <3>2 DEF CountDrop
      <4> HIDE DEF ds, dt
      <4> QED
        BY <1>3, <1>6, <2>4, <3>1, <4>1
    <3>3. CASE x.src # s
      <4>1. dt' = dt /\ Held(s) = <<>>
        BY <1>4, <2>1, <2>3, <2>6, <3>3 DEF CountDrop
      <4> QED
        BY <1>7, <2>4, <3>1, <4>1
    <3> QED
      BY <3>2, <3>3
  <2> QED
    BY <2>2, <2>5, <2>6
<1>13. CASE BridgeRecv
  <2>1. /\ outQ # <<>> /\ received' = Append(received, Head(outQ)) /\ outQ' = Tail(outQ)
        /\ UNCHANGED <<seq, sensorQ, pHeld, drops, samples, abandoned>>
    BY <1>13 DEF BridgeRecv
  <2>2. received' \o outQ' = received \o outQ
    <3>1. Head(outQ) \in Sample /\ Tail(outQ) \in Seq(Sample) /\ outQ = <<Head(outQ)>> \o Tail(outQ)
      BY <1>4, <2>1
    <3>2. Append(received, Head(outQ)) \o Tail(outQ) = received \o (<<Head(outQ)>> \o Tail(outQ))
      BY <1>4, <3>1, SMTT(30)
    <3> QED
      BY <2>1, <3>1, <3>2
  <2>3. UNCHANGED <<Sent(s), Held(s), Queued(s), Gone(s), seq[s], ds, dt, samples[s]>>
    BY <2>1, <2>2 DEF Sent, Held, Queued, Gone
  <2> QED
    BY <1>7, <2>3
<1>14. CASE UNCHANGED taskVars
  BY <1>8, <1>14 DEF taskVars
<1> HIDE DEF ds, dt
<1> QED
  BY <1>8, <1>9, <1>10, <1>11, <1>12, <1>13, <1>14 DEF Next, Sensor, Processor, Bridge, TaskStep,
     SensorCheck, ProcEnd, ProcCheck, MainStop, MainReturn, vars

(* Every reachable state of the tokio pipeline has an account per sensor.    *)
Accounts == \A s \in Sensors : Account(s)

LEMMA AccountsInvariant == Spec => []Accounts
<1>1. Init => Accounts
  <2> SUFFICES ASSUME Init, NEW s \in Sensors PROVE Account(s)
    BY DEF Accounts
  <2>1. /\ Sent(s) = <<>> /\ Held(s) = <<>> /\ Queued(s) = <<>> /\ Gone(s) = <<>>
    <3>1. <<>> \o <<>> = <<>>
      OBVIOUS
    <3> QED
      BY <3>1, NumbersOfEmpty DEF Init, Sent, Held, Queued, Gone
  <2>2. seq[s] = 1 /\ drops["sensor"][s] = 0 /\ drops["transmit"][s] = 0 /\ samples[s] = 0
    BY DEF Init
  <2>3. Balanced(<<>>, <<>>, <<>>, <<>>, 1, 0, 0, 0)
    <3>1. <<>> \o <<>> \o <<>> = <<>> /\ Len(<<>>) = 0 /\ DOMAIN <<>> = {}
      OBVIOUS
    <3> QED
      BY <3>1 DEF Balanced, Ordered, Below
  <2> QED
    BY <2>1, <2>2, <2>3 DEF Account
<1>2. TypeOK /\ Accounts /\ [Next]_vars => Accounts'
  BY AccountKept DEF Accounts
<1> QED
  BY <1>1, <1>2, TypeCorrect, PTL DEF Spec

(* Each sensor's samples reach the bridge once and in order, and every       *)
(* number is received, under way, counted as a drop or abandoned with the    *)
(* processor.                                                                *)
THEOREM EverySampleAccounted == Spec => []AccountedInOrder
<1>1. TypeOK /\ Accounts => AccountedInOrder
  BY AccountIsEnough DEF Accounts
<1> QED
  BY <1>1, TypeCorrect, AccountsInvariant, PTL

(* samples counts what the first channel took and what the second one took.  *)
THEOREM CountsWhatChannelsTook == Spec => []CountsWhatWasSent
<1>1. TypeOK /\ Accounts => CountsWhatWasSent
  BY AccountIsEnough DEF Accounts
<1> QED
  BY <1>1, TypeCorrect, AccountsInvariant, PTL

===============================================================================
