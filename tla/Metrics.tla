-------------------------------- MODULE Metrics --------------------------------
(***************************************************************************)
(* The shared Metrics of utils/metrics.rs: counters of deadline misses and *)
(* cycles, and series that keep the latest MAX_POINTS values.  Every use   *)
(* of it in the program is one critical section of its mutex, so the       *)
(* operations are functions from the value before to the value after.      *)
(***************************************************************************)
EXTENDS Integers, Sequences

Component == {"sensor", "processor", "actuator"}

MetricsRecord == [miss : [Component -> Nat], deadline_miss : Nat, total_cycles : Nat]

(* Metrics::default() *)
DefaultMetrics == [miss          |-> [c \in Component |-> 0],
                   deadline_miss |-> 0,
                   total_cycles  |-> 0]

(* record_deadline_miss *)
RecordMiss(m, c) == [m EXCEPT !.miss[c] = @ + 1, !.deadline_miss = @ + 1]

(* What the dashboard shows as total_misses: it adds the three up itself. *)
ShownMisses(m) == m.miss["sensor"] + m.miss["processor"] + m.miss["actuator"]

(* Variant: the check is off by one. *)
PushCappedLate(buf, val, cap) ==
  Append(IF Len(buf) > cap THEN Tail(buf) ELSE buf, val)

(* push_capped and push_capped_u64, with cap for MAX_POINTS. *)
PushCapped(buf, val, cap) ==
  Append(IF Len(buf) >= cap THEN Tail(buf) ELSE buf, val)

==============================================================================
