------------------------------ MODULE SyncCounters ------------------------------
(***************************************************************************)
(* SyncManager in its Mutex and Atomics modes (component_a/sync_manager.rs)*)
(* In Mutex mode one mutex guards the Diagnostics; in Atomics mode every   *)
(* counter is an AtomicU64, those of the sensors in a DashMap.  Threads    *)
(* call record_*, as those of the benchmarks do, and one thread takes      *)
(* snapshots, which the interface offers to benchmarks and none of them    *)
(* uses.                                                                   *)
(*                                                                         *)
(* record_rx_latency and record_custom return at once in these modes and   *)
(* are left out.  The mutex, DashMap and the atomics are external: lock,   *)
(* fetch_add and load are atomic, and the shards of the map are not seen.  *)
(***************************************************************************)
EXTENDS Integers

CONSTANTS
  Recorders,   \* the threads that call record_*
  SensorIds,   \* the sensor ids they name
  Jitters,     \* the jitter values of record_jitter
  MaxCalls     \* bound of the model: calls of one thread

Samples  == {<<"sample", s>> : s \in SensorIds}   \* sample_count, atomic_samples
JitterOf == {<<"jitter", s>> : s \in SensorIds}   \* jitter_sum, atomic_jitter
Miss     == <<"miss", "all">>                     \* proc_miss_count, atomic_proc_miss
TxDrop   == <<"drop", "all">>                     \* tx_drop_count, atomic_tx_drops
Counters == Samples \cup JitterOf \cup {Miss, TxDrop}
Shown    == Samples \cup {Miss, TxDrop}   \* what snapshot_atomics returns

Amounts == Jitters \cup {1}
Call    == [counter : Counters, amount : Amounts]

(* What record_sample, record_jitter, record_proc_miss and record_tx_drop add. *)
Calls == {call \in Call : call.counter \notin JitterOf => call.amount = 1}

Free == "nobody"   \* the mutex is not held

ASSUME SyncCountersAssumption ==
  Jitters \subseteq Nat /\ MaxCalls \in Nat /\ Free \notin Recorders

VARIABLES
  mode,      \* the SyncMode
  count,     \* the counters
  holder,    \* who holds diag_mutex
  pc,        \* pc[t]: where t is in a record_* call
  call,      \* call[t]: which one
  loaded,    \* loaded[t]: the value that t has read and not yet written back
  calls,     \* calls[t]: how many t has begun
  reading,   \* what the snapshot thread still has to read; {} when it has all
  partial,   \* what it has read
  since,     \* history: the counters when it began, <<>> when none is taken
  snap       \* the latest snapshot

recordVars   == <<count, holder, pc, call, loaded, calls>>
snapshotVars == <<reading, partial, since, snap>>
countersVars == <<mode, recordVars, snapshotVars>>

NoneYet == [counter |-> Miss, amount |-> 1]

(* SyncManager::new *)
Empty ==
  /\ count = [k \in Counters |-> 0]
  /\ holder = Free
  /\ pc = [t \in Recorders |-> "idle"]
  /\ call = [t \in Recorders |-> NoneYet]
  /\ loaded = [t \in Recorders |-> 0]
  /\ calls = [t \in Recorders |-> 0]
  /\ reading = {} /\ partial = <<>> /\ since = <<>> /\ snap = <<>>

CountersInit == mode \in {"mutex", "atomics"} /\ Empty

-------------------------------------------------------------------------------
(* record_sample, record_jitter, record_proc_miss, record_tx_drop *)

Record(t) ==
  /\ pc[t] = "idle" /\ calls[t] < MaxCalls
  /\ \E c \in Calls : call' = [call EXCEPT ![t] = c]
  /\ calls' = [calls EXCEPT ![t] = @ + 1]
  /\ pc' = [pc EXCEPT ![t] = IF mode = "mutex" THEN "lock" ELSE "add"]
  /\ UNCHANGED <<mode, count, holder, loaded, snapshotVars>>

(* Variant: the lock is not waited for. *)
LockBarging(t) ==
  /\ pc[t] = "lock" /\ holder' = t
  /\ pc' = [pc EXCEPT ![t] = "load"]
  /\ UNCHANGED <<mode, count, call, loaded, calls, snapshotVars>>

Lock(t) ==
  /\ pc[t] = "lock" /\ holder = Free /\ holder' = t
  /\ pc' = [pc EXCEPT ![t] = "load"]
  /\ UNCHANGED <<mode, count, call, loaded, calls, snapshotVars>>

Load(t) ==
  /\ pc[t] = "load"
  /\ loaded' = [loaded EXCEPT ![t] = count[call[t].counter]]
  /\ pc' = [pc EXCEPT ![t] = "store"]
  /\ UNCHANGED <<mode, count, holder, call, calls, snapshotVars>>

(* The guard goes out of scope with the write. *)
StoreUnlock(t) ==
  /\ pc[t] = "store"
  /\ count' = [count EXCEPT ![call[t].counter] = loaded[t] + call[t].amount]
  /\ holder' = Free
  /\ pc' = [pc EXCEPT ![t] = "idle"]
  /\ UNCHANGED <<mode, call, loaded, calls, snapshotVars>>

FetchAdd(t) ==
  /\ pc[t] = "add"
  /\ count' = [count EXCEPT ![call[t].counter] = @ + call[t].amount]
  /\ pc' = [pc EXCEPT ![t] = "idle"]
  /\ UNCHANGED <<mode, holder, call, loaded, calls, snapshotVars>>

-------------------------------------------------------------------------------
(* snapshot_mutex and snapshot_atomics *)

BeginSnapshot ==
  /\ since = <<>> /\ since' = count
  /\ reading' = IF mode = "mutex" THEN {} ELSE Shown
  /\ partial' = <<>>
  /\ UNCHANGED <<mode, recordVars, snap>>

(* Mutex: all of the Diagnostics under the lock. *)
CloneLocked ==
  /\ since # <<>> /\ mode = "mutex" /\ holder = Free
  /\ snap' = count /\ since' = <<>>
  /\ UNCHANGED <<mode, recordVars, reading, partial>>

Extend(f, k, v) == [x \in DOMAIN f \cup {k} |-> IF x = k THEN v ELSE f[x]]

(* Atomics: counter by counter, the sensors' samples in any order, then *)
(* proc_miss and tx_drops; the jitter sums are not in it.               *)
LoadNext(k) ==
  /\ since # <<>> /\ k \in reading
  /\ k = Miss => reading \cap Samples = {}
  /\ k = TxDrop => reading = {TxDrop}
  /\ reading' = reading \ {k}
  /\ partial' = Extend(partial, k, count[k])
  /\ UNCHANGED <<mode, recordVars, since, snap>>

ReturnLoaded ==
  /\ since # <<>> /\ mode = "atomics" /\ reading = {}
  /\ snap' = partial /\ since' = <<>>
  /\ UNCHANGED <<mode, recordVars, reading, partial>>

-------------------------------------------------------------------------------
RecordStep(t) == Record(t) \/ Lock(t) \/ Load(t) \/ StoreUnlock(t) \/ FetchAdd(t)
Snapshot == \/ BeginSnapshot \/ CloneLocked \/ ReturnLoaded
            \/ \E k \in Counters : LoadNext(k)

CountersNext == (\E t \in Recorders : RecordStep(t)) \/ Snapshot

CountersSpec == CountersInit /\ [][CountersNext]_countersVars

-------------------------------------------------------------------------------
(* Properties *)

(* The calls that have begun and not yet taken effect. *)
Pending == [t \in Recorders |-> IF pc[t] = "idle" THEN {} ELSE {call[t]}]

Board == INSTANCE CounterBoard WITH pending <- Pending

(* In the modes with counters SyncManager keeps the promise of CounterBoard: *)
(* no record_* call is lost or counted twice, and a snapshot shows every     *)
(* counter as it was at some moment while it was taken, in Mutex mode all    *)
(* of them at one moment (sync_manager.rs:176-359 and 366-386).              *)
RefinesBoard == Board!BoardSpec

==============================================================================
