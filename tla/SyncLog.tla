-------------------------------- MODULE SyncLog --------------------------------
(***************************************************************************)
(* SyncManager in its LockFree mode (component_a/sync_manager.rs): the     *)
(* record_* calls of the pipeline's threads push into a bounded queue, and *)
(* a consumer thread writes the queue to a CSV file in batches until       *)
(* stop_consumer clears its flag and joins it.                             *)
(*                                                                         *)
(* An event is the number it took from seq_counter and the thread that     *)
(* recorded it; its kind, its time stamps and the CSV text are left out.   *)
(* So are errors of a row's write and of a flush, which the code ignores:  *)
(* the file, once created, takes what it is given.                         *)
(* The ArrayQueue is external: push and pop are atomic.                    *)
(***************************************************************************)
EXTENDS Integers, Sequences, FiniteSets, SequencesExt

CONSTANTS
  Producers,     \* the threads that call record_*
  Detached,      \* those among them that nobody joins before stop_consumer
  Capacity,      \* LOG_CAPACITY (8192)
  Batch,         \* pops of one round of the consumer (256)
  FlushBatches,  \* FLUSH_BATCHES (8)
  MaxEvents      \* bound of the model: events one producer records

ASSUME SyncLogAssumption ==
  /\ IsFiniteSet(Producers) /\ Detached \subseteq Producers
  /\ Capacity \in Nat \ {0} /\ Batch \in Nat \ {0} /\ FlushBatches \in Nat \ {0}
  /\ MaxEvents \in Nat

VARIABLES
  seqCounter,       \* seq_counter: the number the next event gets
  pPc,              \* pPc[p]: where producer p is in a record_* call
  pSeq,             \* pSeq[p]: the number p fetched last, 0 before the first
  recorded,         \* recorded[p]: how many events p has begun to record
  logQueue,         \* log_queue
  droppedLogs,      \* dropped_logs
  consumerRunning,  \* consumer_running
  cPc,              \* where the consumer thread is
  popped,           \* events popped in the current round
  flushCounter,     \* flush_counter
  rows,             \* history: the rows given to the CSV writer
  flushed,          \* how many of them a flush has put on disk for certain
  mPc,              \* where the thread that starts and stops the consumer is
  owed              \* history: the events queued or written when it said stop

prodVars == <<seqCounter, pPc, pSeq, recorded>>
consVars == <<cPc, popped, flushCounter, rows, flushed>>
vars == <<prodVars, logQueue, droppedLogs, consumerRunning, consVars, mPc, owed>>

Event == [by : Producers, seq : Nat \ {0}]

Init ==
  /\ seqCounter = 1
  /\ pPc = [p \in Producers |-> "idle"]
  /\ pSeq = [p \in Producers |-> 0]
  /\ recorded = [p \in Producers |-> 0]
  /\ logQueue = <<>> /\ droppedLogs = 0
  /\ consumerRunning = FALSE
  /\ cPc = "none" /\ popped = 0 /\ flushCounter = 0
  /\ rows = <<>> /\ flushed = 0
  /\ mPc = "new" /\ owed = {}

-------------------------------------------------------------------------------
(* record_sample, record_jitter, record_proc_miss, ...: the same three steps *)

(* main spawns the producers after it started the consumer, and joins all    *)
(* but the detached ones before it stops it.                                 *)
MayRecord(p) == mPc = "started" \/ (mPc # "new" /\ p \in Detached)

(* Variant: the counter is read and incremented in two steps. *)
FetchSeqTorn(p) ==
  /\ pPc[p] = "idle" /\ MayRecord(p) /\ recorded[p] < MaxEvents
  /\ pSeq' = [pSeq EXCEPT ![p] = seqCounter]
  /\ seqCounter' \in {seqCounter, seqCounter + 1}
  /\ recorded' = [recorded EXCEPT ![p] = @ + 1]
  /\ pPc' = [pPc EXCEPT ![p] = "push"]
  /\ UNCHANGED <<logQueue, droppedLogs, consumerRunning, consVars, mPc, owed>>

(* fetch_add on seq_counter. *)
FetchSeq(p) ==
  /\ pPc[p] = "idle" /\ MayRecord(p) /\ recorded[p] < MaxEvents
  /\ pSeq' = [pSeq EXCEPT ![p] = seqCounter]
  /\ seqCounter' = seqCounter + 1
  /\ recorded' = [recorded EXCEPT ![p] = @ + 1]
  /\ pPc' = [pPc EXCEPT ![p] = "push"]
  /\ UNCHANGED <<logQueue, droppedLogs, consumerRunning, consVars, mPc, owed>>

QueueFull == Len(logQueue) >= Capacity

(* push, without waiting: a full queue refuses the event. *)
Push(p) ==
  /\ pPc[p] = "push"
  /\ \/ /\ ~QueueFull
        /\ logQueue' = Append(logQueue, [by |-> p, seq |-> pSeq[p]])
        /\ pPc' = [pPc EXCEPT ![p] = "idle"]
     \/ /\ QueueFull
        /\ pPc' = [pPc EXCEPT ![p] = "refused"]
        /\ UNCHANGED logQueue
  /\ UNCHANGED <<seqCounter, pSeq, recorded, droppedLogs, consumerRunning,
                 consVars, mPc, owed>>

(* Variant: the result of push is ignored. *)
DropSilently(p) ==
  /\ pPc[p] = "refused"
  /\ pPc' = [pPc EXCEPT ![p] = "idle"]
  /\ UNCHANGED <<seqCounter, pSeq, recorded, logQueue, droppedLogs,
                 consumerRunning, consVars, mPc, owed>>

(* fetch_add on dropped_logs. *)
CountDropped(p) ==
  /\ pPc[p] = "refused"
  /\ droppedLogs' = droppedLogs + 1
  /\ pPc' = [pPc EXCEPT ![p] = "idle"]
  /\ UNCHANGED <<seqCounter, pSeq, recorded, logQueue, consumerRunning,
                 consVars, mPc, owed>>

-------------------------------------------------------------------------------
(* The consumer thread of start_log_consumer *)

(* File::create: a failure is logged and ends the thread. *)
CreateFile ==
  /\ cPc = "create"
  /\ cPc' \in {"loop", "failed"}
  /\ UNCHANGED <<prodVars, logQueue, droppedLogs, consumerRunning, popped,
                 flushCounter, rows, flushed, mPc, owed>>

(* Variant: the consumer never looks at its flag. *)
LoopHeadDeaf ==
  /\ cPc = "loop" /\ cPc' = "batch"
  /\ popped' = 0
  /\ UNCHANGED <<prodVars, logQueue, droppedLogs, consumerRunning, flushCounter,
                 rows, flushed, mPc, owed>>

(* Variant: a cleared flag ends the thread without the final drain. *)
LoopHeadNoDrain ==
  /\ cPc = "loop"
  /\ cPc' = IF consumerRunning THEN "batch" ELSE "done"
  /\ popped' = 0
  /\ UNCHANGED <<prodVars, logQueue, droppedLogs, consumerRunning, flushCounter,
                 rows, flushed, mPc, owed>>

(* while consumer_running: a round of pops; after the loop the final drain. *)
LoopHead ==
  /\ cPc = "loop"
  /\ cPc' = IF consumerRunning THEN "batch" ELSE "drain"
  /\ popped' = 0
  /\ UNCHANGED <<prodVars, logQueue, droppedLogs, consumerRunning, flushCounter,
                 rows, flushed, mPc, owed>>

PopRow ==
  /\ logQueue # <<>>
  /\ rows' = Append(rows, Head(logQueue))
  /\ logQueue' = Tail(logQueue)
  /\ UNCHANGED <<prodVars, droppedLogs, consumerRunning, cPc, flushCounter,
                 flushed, mPc, owed>>

BatchPop == cPc = "batch" /\ popped < Batch /\ PopRow /\ popped' = popped + 1

(* Variant: off by one. *)
FlushDueLate(rounds) == rounds > FlushBatches

FlushDue(rounds) == rounds >= FlushBatches

(* The end of a round: every FlushBatches-th round that popped anything is *)
(* followed by a flush.                                                    *)
BatchEnd ==
  /\ cPc = "batch" /\ (popped = Batch \/ logQueue = <<>>)
  /\ LET rounds == IF popped > 0 THEN flushCounter + 1 ELSE flushCounter
         flush  == popped > 0 /\ FlushDue(rounds)
     IN  /\ flushCounter' = IF flush THEN 0 ELSE rounds
         /\ flushed' = IF flush THEN Len(rows) ELSE flushed
  /\ cPc' = "loop"
  /\ UNCHANGED <<prodVars, logQueue, droppedLogs, consumerRunning, popped, rows,
                 mPc, owed>>

DrainPop == cPc = "drain" /\ PopRow /\ UNCHANGED popped

(* Variant: the drain is not flushed. *)
DrainEndUnflushed ==
  /\ cPc = "drain" /\ logQueue = <<>>
  /\ cPc' = "done"
  /\ UNCHANGED <<prodVars, logQueue, droppedLogs, consumerRunning, popped,
                 flushCounter, rows, flushed, mPc, owed>>

DrainEnd ==
  /\ cPc = "drain" /\ logQueue = <<>>
  /\ flushed' = Len(rows)
  /\ cPc' = "done"
  /\ UNCHANGED <<prodVars, logQueue, droppedLogs, consumerRunning, popped,
                 flushCounter, rows, mPc, owed>>

-------------------------------------------------------------------------------
(* start_log_consumer and stop_consumer, as the main thread calls them *)

StartLogConsumer ==
  /\ mPc = "new" /\ mPc' = "started"
  /\ consumerRunning' = TRUE
  /\ cPc' = "create"
  /\ UNCHANGED <<prodVars, logQueue, droppedLogs, popped, flushCounter, rows,
                 flushed, owed>>

StopSignal ==
  /\ mPc = "started" /\ mPc' = "joining"
  /\ \A p \in Producers \ Detached : pPc[p] = "idle"
  /\ consumerRunning' = FALSE
  /\ owed' = ToSet(rows \o logQueue)
  /\ UNCHANGED <<prodVars, logQueue, droppedLogs, consVars>>

StopJoin ==
  /\ mPc = "joining" /\ cPc \in {"done", "failed"}
  /\ mPc' = "stopped"
  /\ UNCHANGED <<prodVars, logQueue, droppedLogs, consumerRunning, consVars, owed>>

-------------------------------------------------------------------------------
ProducerStep(p) == FetchSeq(p) \/ Push(p) \/ CountDropped(p)
ConsumerStep    == \/ CreateFile \/ LoopHead \/ BatchPop \/ BatchEnd
                   \/ DrainPop \/ DrainEnd
Manager         == StartLogConsumer \/ StopSignal \/ StopJoin

Finished == /\ mPc = "stopped"
            /\ \A p \in Producers :
                 pPc[p] = "idle" /\ (MayRecord(p) => recorded[p] = MaxEvents)

Next ==
  \/ \E p \in Producers : ProducerStep(p)
  \/ ConsumerStep
  \/ Manager
  \/ Finished /\ UNCHANGED vars

(* A record_* call that has begun goes on, the consumer is scheduled, and    *)
(* main gets to its stop.  Nobody has to begin a call.                       *)
Fairness ==
  /\ \A p \in Producers : WF_vars(Push(p) \/ CountDropped(p))
  /\ WF_vars(ConsumerStep)
  /\ WF_vars(Manager)

Spec     == Init /\ [][Next]_vars
FairSpec == Spec /\ Fairness

-------------------------------------------------------------------------------
(* Properties *)

(* Every variable has its type, the queue keeps its capacity, and a thread   *)
(* in a record_* call has a number.                                          *)
TypeOK ==
  /\ seqCounter \in Nat \ {0}
  /\ pPc \in [Producers -> {"idle", "push", "refused"}]
  /\ pSeq \in [Producers -> Nat]
  /\ \A p \in Producers : pPc[p] # "idle" => pSeq[p] # 0
  /\ recorded \in [Producers -> Nat]
  /\ logQueue \in Seq(Event) /\ Len(logQueue) <= Capacity
  /\ droppedLogs \in Nat
  /\ consumerRunning \in BOOLEAN
  /\ cPc \in {"none", "create", "loop", "batch", "drain", "done", "failed"}
  /\ popped \in 0..Batch
  /\ flushCounter \in 0..(FlushBatches - 1)
  /\ rows \in Seq(Event)
  /\ flushed \in 0..Len(rows)
  /\ mPc \in {"new", "started", "joining", "stopped"}
  /\ owed \subseteq Event

(* The log of all events that got into the queue, the oldest first. *)
Log == rows \o logQueue

(* The producers that hold a number they have neither queued nor counted. *)
Recording == {p \in Producers : pPc[p] # "idle"}

(* Every number ever issued is in exactly one place: in the file, in the     *)
(* queue, in dropped_logs, or in a record_* call that has not ended.         *)
Accounting ==
  seqCounter - 1 = Len(Log) + droppedLogs + Cardinality(Recording)

(* Numbers in the log are distinct, were issued, and rise for each thread:   *)
(* sorting the file by seq (sync_manager.rs:121) restores the order in which *)
(* a thread recorded, though between threads the file is not sorted.         *)
ProducerOrder ==
  /\ \A i \in DOMAIN Log : Log[i].seq <= pSeq[Log[i].by]
  /\ \A p \in Recording : \A i \in DOMAIN Log : Log[i].seq # pSeq[p]
  /\ \A i, j \in DOMAIN Log : i < j =>
       /\ Log[i].seq # Log[j].seq
       /\ Log[i].by = Log[j].by => Log[i].seq < Log[j].seq

(* While the consumer runs, a crash of the process loses at most the rows of *)
(* FLUSH_BATCHES rounds that were popped but not flushed (sync_manager.rs:   *)
(* 500-507).                                                                 *)
UnflushedBound ==
  cPc \in {"loop", "batch"} => Len(rows) - flushed <= FlushBatches * Batch

(* When stop_consumer has returned and the file could be created, every      *)
(* event queued before the stop is on disk (sync_manager.rs:514-546).        *)
StopFlushes ==
  mPc = "stopped" /\ cPc # "failed" => owed \subseteq ToSet(SubSeq(rows, 1, flushed))

(* sync_manager.rs:514, "Final drain: flush all remaining events": after     *)
(* stop_consumer the queue stays empty.  It does not for a producer that     *)
(* nobody joins.                                                             *)
NothingLeftBehind ==
  mPc = "stopped" /\ cPc # "failed" => logQueue = <<>> /\ flushed = Len(rows)

(* stop_consumer returns, whether or not the consumer could create its file. *)
StopReturns == mPc = "joining" ~> mPc = "stopped"

(* What is in the queue of a live consumer gets to the disk: if the log has  *)
(* k events, then in the end the first k of them are flushed.                *)
QueuedIsWritten ==
  \A k \in 1..(Cardinality(Producers) * MaxEvents) :
    Len(Log) >= k /\ cPc \in {"loop", "batch", "drain"} ~> flushed >= k

==============================================================================
