--------------------------------- MODULE Filter ---------------------------------
(***************************************************************************)
(* The filter window and the anomaly test of the processors                *)
(* (component_a/processor.rs, advanced/async_processor.rs).                *)
(*                                                                         *)
(* Readings are integers and the threshold is in units of 1/Unit, so that  *)
(* average and deviation stay exact: with n readings that sum up to S and  *)
(* whose squares sum up to Q, the deviation of x from the average is       *)
(* (n*x - S)/n, and the variance is (n*Q - S*S)/(n*n).  The rounding of    *)
(* the f64 arithmetic is left out.                                         *)
(***************************************************************************)
EXTENDS Integers, SequencesExt

CONSTANTS
  Window,      \* window_size, WINDOW_SIZE (10)
  Unit         \* thresholds are given in 1/Unit

ASSUME FilterAssumption == Window \in Nat \ {0} /\ Unit \in Nat \ {0}

(* Variant: the window is cut before the reading is added. *)
SlideLate(buf, reading) ==
  Append(IF Len(buf) > Window THEN Tail(buf) ELSE buf, reading)

(* push_back, then pop_front when the window is too long. *)
Slide(buf, reading) ==
  LET longer == Append(buf, reading)
  IN  IF Len(longer) > Window THEN Tail(longer) ELSE longer

(* sums[i]: the sum of the first i readings of w. *)
SumUpTo(w) ==
  LET sums[i \in 0..Len(w)] == IF i = 0 THEN 0 ELSE sums[i - 1] + w[i]
  IN  sums

Sum(w)       == SumUpTo(w)[Len(w)]
SumSquare(w) == Sum([i \in DOMAIN w |-> w[i] * w[i]])

(* n times the deviation of the latest reading, and (n times the deviation)^2 *)
Deviation(w) == Len(w) * Last(w) - Sum(w)
Spread(w)    == Len(w) * SumSquare(w) - Sum(w) * Sum(w)

(* Variant: a deviation on the threshold is anomalous. *)
AnomalousFrom(w, t) ==
  Unit * Unit * Deviation(w) * Deviation(w) >= t * t * Spread(w)

(* |reading - avg| > anomaly_threshold * std_dev, both sides squared. *)
Anomalous(w, t) ==
  Unit * Unit * Deviation(w) * Deviation(w) > t * t * Spread(w)

(* The test of the async processor. *)
AsyncAnomalous(w) == Len(w) >= 2 /\ Spread(w) > 0 /\ Anomalous(w, 3 * Unit)

==============================================================================
