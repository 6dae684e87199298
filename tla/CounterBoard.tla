------------------------------ MODULE CounterBoard ------------------------------
(***************************************************************************)
(* What SyncManager promises of its counters in the Mutex and Atomics      *)
(* modes: every record_* call takes effect once, whole, between its begin  *)
(* and its return, and a snapshot shows each of its counters as it was at  *)
(* some moment while the snapshot was taken; in Mutex mode it has all the  *)
(* counters, as they were at one moment.                                   *)
(***************************************************************************)
EXTENDS Integers

CONSTANTS
  Recorders,   \* the threads that record
  Counters,    \* the counters
  Amounts,     \* what one call may add
  Shown        \* the counters that a snapshot has in Atomics mode

Call   == [counter : Counters, amount : Amounts]
NoCall == {}

VARIABLES
  mode,      \* the SyncMode, for good
  count,     \* the counters
  pending,   \* pending[t]: the calls that t has begun: none or one
  since,     \* the counters as they were when the snapshot began, or <<>>
  snap       \* the latest snapshot

boardVars == <<mode, count, pending, since, snap>>

BoardInit ==
  /\ count = [k \in Counters |-> 0]
  /\ pending = [t \in Recorders |-> {}]
  /\ since = <<>> /\ snap = <<>>

Begin(t, call) ==
  /\ pending[t] = {}
  /\ pending' = [pending EXCEPT ![t] = {call}]
  /\ UNCHANGED <<mode, count, since, snap>>

Return(t, call) ==
  /\ pending[t] = {call}
  /\ pending' = [pending EXCEPT ![t] = {}]
  /\ count' = [count EXCEPT ![call.counter] = @ + call.amount]
  /\ UNCHANGED <<mode, since, snap>>

BeginSnapshot ==
  /\ since = <<>> /\ since' = count
  /\ UNCHANGED <<mode, count, pending, snap>>

Between(s) ==
  /\ DOMAIN s = IF mode = "mutex" THEN Counters ELSE Shown
  /\ \A k \in DOMAIN s : since[k] <= s[k] /\ s[k] <= count[k]

ReturnSnapshot(s) ==
  /\ since # <<>> /\ since' = <<>>
  /\ Between(s) /\ (mode = "mutex" => s = count)
  /\ snap' = s
  /\ UNCHANGED <<mode, count, pending>>

BoardNext ==
  \/ \E t \in Recorders, call \in Call : Begin(t, call) \/ Return(t, call)
  \/ BeginSnapshot
  \/ ReturnSnapshot(snap')

BoardSpec == BoardInit /\ [][BoardNext]_boardVars

==============================================================================
