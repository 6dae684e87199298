----------------------------- MODULE EventExporter -----------------------------
(***************************************************************************)
(* EventRecorder of utils/metrics.rs and its life in src/main.rs: the      *)
(* pipeline's threads record events into a bounded queue, and an exporter  *)
(* thread, started before the log directory is made and never joined,      *)
(* writes the queue to a CSV file until it has found it empty for 10 ms.   *)
(*                                                                         *)
(* An event is the thread that recorded it and its number there.  Errors   *)
(* of a write or a flush, which the code ignores, are left out.  The       *)
(* ArrayQueue is external: push, pop and is_empty are atomic.              *)
(***************************************************************************)
EXTENDS Integers, Sequences, FiniteSets

CONSTANTS
  Producers,   \* the threads that record events
  Capacity,    \* EVENT_QUEUE_CAPACITY (16384)
  Detached,    \* those among them that main does not join
  MaxEvents    \* bound of the model: events one thread records

ASSUME ExporterAssumption ==
  /\ IsFiniteSet(Producers) /\ Detached \subseteq Producers
  /\ Capacity \in Nat \ {0} /\ MaxEvents \in Nat

VARIABLES
  logDir,     \* does the directory data/logs exist
  mPc,        \* where the main thread is
  recorded,   \* recorded[p]: how many events p has recorded
  active,     \* the threads still running
  queue,      \* EventRecorder.queue
  xPc,        \* where the exporter thread is
  written,    \* history: the events given to the writer
  flushed     \* has the writer been flushed

exportVars == <<xPc, written, flushed>>
vars == <<logDir, mPc, recorded, active, queue, exportVars>>

Event == [by : Producers, n : 1..MaxEvents]

(* A checkout may or may not have kept the directory of an earlier run. *)
Init ==
  /\ logDir \in BOOLEAN
  /\ mPc = "startExporter"
  /\ recorded = [p \in Producers |-> 0] /\ active = {}
  /\ queue = <<>>
  /\ xPc = "none" /\ written = <<>> /\ flushed = FALSE

-------------------------------------------------------------------------------
(* run_simulation_internal *)

StartExporter ==
  /\ mPc = "startExporter" /\ mPc' = "makeDir"
  /\ xPc' = "create"
  /\ UNCHANGED <<logDir, recorded, active, queue, written, flushed>>

(* create_dir_all(data/logs): a failure abandons the run. *)
MakeLogDir ==
  /\ mPc = "makeDir"
  /\ \/ logDir' = TRUE /\ mPc' = "spawn"
     \/ ~logDir /\ mPc' = "abandoned" /\ UNCHANGED logDir
  /\ UNCHANGED <<recorded, active, queue, exportVars>>

SpawnThreads ==
  /\ mPc = "spawn" /\ mPc' = "running"
  /\ active' = Producers
  /\ UNCHANGED <<logDir, recorded, queue, exportVars>>

(* The worker threads end and main returns; it waits neither for the *)
(* detached ones nor for the exporter.                               *)
ThreadEnds(p) ==
  /\ p \in active /\ active' = active \ {p}
  /\ UNCHANGED <<logDir, mPc, recorded, queue, exportVars>>

Complete ==
  /\ mPc = "running" /\ active \subseteq Detached /\ mPc' = "completed"
  /\ UNCHANGED <<logDir, recorded, active, queue, exportVars>>

-------------------------------------------------------------------------------
(* EventRecorder::record: a full queue loses the event without a trace. *)

(* Variant: the queue is unbounded. *)
EnqueueAlways(event) == queue' = Append(queue, event)

Enqueue(event) ==
  queue' = IF Len(queue) < Capacity THEN Append(queue, event) ELSE queue

Record(p) ==
  /\ p \in active /\ recorded[p] < MaxEvents
  /\ recorded' = [recorded EXCEPT ![p] = @ + 1]
  /\ Enqueue([by |-> p, n |-> recorded[p] + 1])
  /\ UNCHANGED <<logDir, mPc, active, exportVars>>

-------------------------------------------------------------------------------
(* The exporter thread of start_exporter *)

CreateFile ==
  /\ xPc = "create"
  /\ xPc' = IF logDir THEN "pop" ELSE "failed"
  /\ UNCHANGED <<logDir, mPc, recorded, active, queue, written, flushed>>

(* Variant: the event is looked at and popped in two steps. *)
PopEventTwice ==
  /\ xPc = "pop" /\ queue # <<>>
  /\ written' = Append(written, Head(queue))
  /\ queue' \in {queue, Tail(queue)}
  /\ UNCHANGED <<logDir, mPc, recorded, active, xPc, flushed>>

PopEvent ==
  /\ xPc = "pop" /\ queue # <<>>
  /\ written' = Append(written, Head(queue))
  /\ queue' = Tail(queue)
  /\ UNCHANGED <<logDir, mPc, recorded, active, xPc, flushed>>

(* pop found nothing: sleep for 10 ms. *)
FoundEmpty ==
  /\ xPc = "pop" /\ queue = <<>>
  /\ xPc' = "asleep"
  /\ UNCHANGED <<logDir, mPc, recorded, active, queue, written, flushed>>

(* Variant: the exporter never gives up. *)
WakeUpForever ==
  /\ xPc = "asleep" /\ xPc' = "pop"
  /\ UNCHANGED <<logDir, mPc, recorded, active, queue, written, flushed>>

(* Variant: the loop ends without looking at the queue again. *)
WakeUpBlind ==
  /\ xPc = "asleep" /\ xPc' = "done" /\ flushed' = TRUE
  /\ UNCHANGED <<logDir, mPc, recorded, active, queue, written>>

(* After the sleep an empty queue ends the loop, and the writer is flushed. *)
WakeUp ==
  /\ xPc = "asleep"
  /\ \/ queue = <<>> /\ xPc' = "done" /\ flushed' = TRUE
     \/ queue # <<>> /\ xPc' = "pop" /\ UNCHANGED flushed
  /\ UNCHANGED <<logDir, mPc, recorded, active, queue, written>>

-------------------------------------------------------------------------------
Main     == StartExporter \/ MakeLogDir \/ SpawnThreads \/ Complete
Exporter == CreateFile \/ PopEvent \/ FoundEmpty \/ WakeUp

Finished == mPc \in {"completed", "abandoned"} /\ xPc \in {"done", "failed"}

Next ==
  \/ Main
  \/ \E p \in Producers : Record(p) \/ ThreadEnds(p)
  \/ Exporter
  \/ Finished /\ UNCHANGED vars

(* main, the end of the threads and the exporter are scheduled. *)
Fairness ==
  /\ WF_vars(Main) /\ WF_vars(Exporter)
  /\ \A p \in Producers : WF_vars(ThreadEnds(p))

Spec     == Init /\ [][Next]_vars
FairSpec == Spec /\ Fairness

-------------------------------------------------------------------------------
(* Properties *)

(* Every variable has its type, and the queue keeps its capacity.            *)
TypeOK ==
  /\ logDir \in BOOLEAN
  /\ mPc \in {"startExporter", "makeDir", "spawn", "running", "completed", "abandoned"}
  /\ recorded \in [Producers -> 0..MaxEvents]
  /\ active \subseteq Producers
  /\ queue \in Seq(Event) /\ Len(queue) <= Capacity
  /\ xPc \in {"none", "create", "pop", "asleep", "done", "failed"}
  /\ written \in Seq(Event) /\ flushed \in BOOLEAN

(* The file, continued by the queue: what is lost is no longer in it.        *)
Log == written \o queue

(* The file, continued by the queue, has the events of each thread in the    *)
(* order of recording, each once.                                            *)
FileInOrder ==
  /\ \A i, j \in DOMAIN Log :
       i < j /\ Log[i].by = Log[j].by => Log[i].n < Log[j].n
  /\ \A i \in DOMAIN Log : Log[i].n <= recorded[Log[i].by]

(* The exporter does not wait for ever on threads that have ended: it ends,  *)
(* and what it leaves in the file is complete on disk.                       *)
ExporterEnds == <>(xPc = "failed" \/ (xPc = "done" /\ flushed))

(* An event in the queue of a live exporter gets into the file, also when    *)
(* main has returned: a wake-up that finds an event goes on (metrics.rs:158).*)
QueuedIsExported ==
  \A p \in Producers : \A k \in 1..MaxEvents :
    LET e == [by |-> p, n |-> k]
    IN  xPc \in {"pop", "asleep"} /\ (\E i \in DOMAIN queue : queue[i] = e)
          ~> (flushed /\ \E i \in DOMAIN written : written[i] = e)

(* metrics.rs:135, "exits when queue empty + no producers": the exporter     *)
(* ends only after the threads.                                              *)
ExitsWithoutProducers == xPc = "done" => mPc # "running" \/ active = {}

(* main.rs:435, "Events exported to": a run that was not abandoned has an    *)
(* event file.                                                               *)
CompletedHasFile == mPc = "completed" => xPc # "failed"

==============================================================================
