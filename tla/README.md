# A TLA+ model of the real-time sensor/actuator simulation

The program (a Rust crate, `src/src/`) simulates a manufacturing cell: three sensors
sample with a period of 5 ms, a processor filters the readings and looks for
anomalies, and three actuators follow with a PID controller. Every stage is a
thread, every link a bounded channel written without waiting, and around them run
a feedback path, a lock-free log, an event recorder, a dashboard and a menu that
starts experiments. A tokio version of the same pipeline is a program of its own.
This directory holds the TLA+ modules of these parts, their TLC configurations and
machine-checked proofs.

- [Inventory](#inventory)
- [Modules](#modules)
- [Runs](#runs)
- [Fairness](#fairness)
- [Proofs](#proofs)
- [Where the code and its comments disagree](#where-the-code-and-its-comments-disagree)
- [Plan](#plan)
- [Not modelled](#not-modelled)

Line numbers refer to files under `src/src/`. To run a check or a proof:

    tlc -config MCPipeline.cfg PipelineFifo.tla
    tlapm Pipeline_proofs.tla

## Inventory

### Parts, their state and their operations

| part | code | state | operations |
|---|---|---|---|
| sensor threads (3) | `component_a/sensor.rs` | number of the next sample, next release, seed | wait for the release, sample, `try_send`, record, leave on the flag |
| processor thread | `component_a/processor.rs` | windows of ten readings, anomaly threshold, overrun counter | read feedback, receive, filter, transmit, record, leave on a closed channel |
| transmitter | `component_a/transmitter.rs` | none of its own | compare the channel's length with `max_queued`, then `try_send` |
| receiver thread | `component_b/receiver.rs` | a controller | receive, control, dispatch, leave on a closed channel |
| actuator threads (3) | `component_b/multi_actuator.rs` | a lane of 8 packets and a controller each | receive, control, report |
| controller, feedback loop | `component_b/controller.rs`, `feedback.rs` | setpoint, PID, actuator state | emit messages by the clock |
| forwarder, feedback handler | `main.rs:287-299`, `utils/export.rs:213-264` | three channels | copy each message to the log and to the processor |
| sync manager | `component_a/sync_manager.rs` | counters, queue of 8192 events, consumer thread and flag | `record_*`, `start_log_consumer`, `stop_consumer`; two more modes with a mutex and with atomics |
| event recorder | `utils/metrics.rs:108-182` | queue of 16384 events, exporter thread | `record`, `start_exporter` |
| metrics | `utils/metrics.rs:186-253`, `utils/metrics_export.rs` | counters and capped series behind a mutex | record, push, reset, export |
| dashboard | `advanced/dashboard.rs` | last cycle count, web server thread | render loop, HTTP handler, leave on a flag |
| CPU load | `advanced/cpu_load.rs` | busy threads | spin until the flag is cleared |
| main | `main.rs` | the running flag, channels and handles of one experiment | start, sleep, stop, join, export; menu and sweeps |
| async pipeline | `advanced/async_*.rs`, `bin/async_main.rs` | two channels, three kinds of task, a bridge thread | the same work with tokio |
| analysis, benchmarks | `analysis/*.rs`, `src/benches/*.rs` | none over time | read CSV files; time the operations |

### How they interact

Data goes one way: sensors -> (2048) -> processor -> (1024) -> receiver -> (8 each) ->
actuators. Each write is a `try_send`: a full channel costs the sample offered and
one `record_tx_drop`. Feedback goes back: receiver and actuators -> (64) ->
forwarder -> (64 each) -> log file and processor. Every thread also calls the sync
manager, the event recorder and the metrics. The running flag is shared by all;
main clears it, drops its senders and joins sensors, processor and receiver in that
order. Actuators, forwarder, log handler and exporter are not joined.

### What is hard, and what correct means

- **Pipeline.** Shutdown is a chain of closed channels: one sender kept too long
  blocks a join for ever, one stage that leaves early loses samples. The length
  check and the send of the transmitter are two steps. Three sensors share two
  channels and fan out again. Correct: each sensor's samples arrive at its own
  actuator once and in order or are counted as one drop; a drop means a full
  channel; the stages stop in order; a slow actuator delays nobody else.
- **Lock-free log.** The number of an event and its push are two steps, so the
  queue is not sorted; the consumer flushes by rounds; the final drain ends at the
  first empty pop. Correct: numbers are unique and accounted for, each thread's rows
  are in its order, a stop returns and flushes what it owes.
- **Feedback.** The clock is read up to three times for one message, and the kind
  that is sent may be decided by another reading than the kind asked for. Two
  channels with slow readers hang on one forwarder. The threshold is a product of
  many factors. Correct: the forwarder never waits, the threshold stays in range.
- **Event recorder.** The exporter takes 10 ms of silence for the end of the run, and
  opens its file before main makes the directory.
- **Async pipeline.** Tasks leave on the flag and take their channel along, main
  joins nothing. Correct: order and accounts hold through the early exit, losses
  without a count are bounded and happen in a shutdown only, no task waits for
  another one.
- **Sensor schedule and filter.** A sensor that is released late does not sleep but
  catches up; sensor and processor compute the jitter from different readings;
  windows of one or two values, or of equal ones. Correct: the schedule does not
  drift, a backlog is counted, both jitters are the same, a window and a series hold
  the latest values.
- **Dashboard and sweeps.** Every experiment started from the menu leaves a web server
  on the same port, which looks at its flag only when a browser connects; a
  renderer may rest; the counters of a sweep are reset under actuators that nobody
  joined, and exported in two goes. Correct: no answer comes from the past, the
  counts of two experiments do not mix, main comes back to its menu.
- **Counters of the sync manager.** A read-modify-write under a mutex, or atomics read
  one by one while they change. Correct: no record is lost, a snapshot lies between
  what was and what is.

`PROJECT.json` lists the hazards at their lines, with the properties that cover them.

## Modules

| module | models | note |
|---|---|---|
| `LossyFifo` | the promise of the data path: one line per source, items leave it in order or are counted as lost | an abstract specification |
| `Pipeline` | sensors, processor, transmitter, receiver, dispatch, actuators, shutdown by main | one action per step between two points where another thread could see a difference |
| `PipelineFifo` | `Pipeline` and its refinement mapping to `LossyFifo` | extends `Pipeline` |
| `SensorLines` | the samples of one sensor in a channel that all sensors share | one operator, `NumbersOf`, used by both pipelines |
| `SensorLines_proofs` | induction over numbers and sequences; what `NumbersOf` does to a concatenation, an append, a head; ordered lines | lemmas only |
| `Pipeline_proofs` | theorems about `Pipeline` and its refinement | |
| `SyncLog` | the sync manager's lock-free mode: recording, consumer, start and stop | |
| `FeedbackLoop` | emitters, forwarder, log handler, the processor's threshold | |
| `FeedbackLoop_proofs` | theorems about `FeedbackLoop` | |
| `EventExporter` | event queue, exporter thread, main's start-up order | |
| `EventExporter_proofs` | theorems about `EventExporter` | |
| `AsyncPipeline` | sensor tasks, processor task, bridge, main of the tokio program | |
| `AsyncPipeline_proofs` | theorems about `AsyncPipeline` | |
| `Metrics` | the counters and capped series of `Metrics`, as functions | no state of its own: every use is one critical section |
| `Filter` | the window, the average, the deviation and the anomaly tests of both processors, as functions | |
| `Acquisition` | the release schedule of the sensors, their jitter and misses, the processor's window, deadline and series | extends `Metrics`, `Filter` |
| `Acquisition_proofs` | theorems about `Acquisition` | |
| `Dashboard` | render threads, web servers, the shared port, browsers | extends `Metrics`; no specification of its own |
| `Experiments` | menu, single runs, sweeps, the life of the threads, exports | extends `Dashboard`, which it composes with main |
| `MCExperiments` | `Experiments` and the view of its states that TLC uses | extends `Experiments` |
| `Experiments_proofs` | theorems about `Experiments` | |
| `CounterBoard` | the promise of the counters: a call takes effect once between its begin and its return, a snapshot shows all the counters it should, none older than its begin | an abstract specification |
| `SyncCounters` | the sync manager's mutex and atomics modes, and the refinement mapping to `CounterBoard` | |
| `SyncManager` | a sync manager in any of its modes: `SyncLog` or `SyncCounters` | extends both |
| `SyncManager_proofs` | theorems about the log, the counters and the manager that is one of them | |

Each module's header says what it leaves out. An operator whose comment begins with
"Variant" is not part of the specification: it is an action or a helper of the model
with a plausible mistake in it. Put in the place of the definition that follows
it, it makes TLC report the property `PROJECT.json` pairs it with.

**Pipeline.** `mPc`, `sPc`, `pPc`, `rPc` and `aPc` are the places of the threads;
`sensorQ`, `procQ` and `lane` the channels; `pHeld`, `rHeld` and `aHeld` the sample a
thread has taken. A sample is a sensor and a number: readings, filter and PID are
data that no property here depends on. "A channel is closed" is derived from who
still holds a sender (`SensorSendersGone`, `ProcSendersGone`, `LaneSendersGone`), as
in the code, where nothing but the drop of the last clone closes a channel.
`TransmitCheck` and `TransmitSend` are apart because the receiver runs between them.
`acted`, `drops` and `samples` are what the properties speak about: the first is a
history, the others are calls of `record_tx_drop` and `record_sample`, which the
code keeps in one counter for all stages or as log rows.

**SyncLog.** `FetchSeq`, `Push` and `CountDropped` are the three atomic steps that
all six `record_*` calls have in common. `BatchPop`, `BatchEnd` and `LoopHead` are a
round of the consumer, `DrainPop` and `DrainEnd` what it does after the loop.
`flushed` counts the rows a flush has put on disk for certain; a `BufWriter` may
write more on its own. `Detached` names recording threads that nobody joins before
`stop_consumer`, as the actuators.

**FeedbackLoop.** Time is one of three classes, `OnTime`, `Late` and `Missed`, with
borders at 500 us and 2000 us. It never goes back while a packet is handled, and
each look at the clock may see a later class. The threshold is an integer in units
of `1/Unit`, each product rounded down.

**EventExporter.** `logDir` is chosen at the start: the directory may be left
from an earlier run. A full queue loses the event without a trace.

**AsyncPipeline.** `Abandon` is the end of the processor task: its sample and its
channel go with it. `MainReturn` ends everything; what is still under way then is
lost with the process. main keeps a sender of the bridge's channel, so the bridge
has no step that ends it. `received` and `abandoned` are histories.

**Metrics, Filter.** All uses of `Metrics` in the program are single critical sections of
one mutex, so its methods are functions from value to value. `Filter` has integers for
readings and thresholds in units of `1/Unit`; with n readings, n times the deviation
and n squared times the variance are integers, and the comparison of the code with
both sides squared is exact. The rounding of `f64` is left out.

**Acquisition.** `now` is a clock that runs on between any two steps, so that a sleep and
a thread that is not scheduled can be late by any time. `sPc` follows
`Sensor::run`: `check` reads the clock and sleeps or counts a miss, `Release` is the
second reading (`actual_tick`), `Send` the `try_send`, `FinishLoop` pushes into the series
and moves the deadline on. `Receive` is the processor from `recv` to the
average, `FinishCycle` what follows the simulated work. The value of a reading is
chosen when the processor first uses it. A value in a series is the number of its sample,
raw or averaged, so that two pushes never look alike. `late`, `lateBefore` and
`missed` remember what the latest two releases of a sensor were like; `received`,
`readings` and `pushed` are all that arrived. Feedback, the channels
behind the processor and the flag are in other modules.

**Dashboard, Experiments.** A page is what `/metrics.json` shows: three counts of misses and
the number of cycles. Its last jitter and last latency are left out, because to the
renderer they are like the misses: values that may change while the number of cycles,
the only one it compares, does not. `first`, `lastTotal` and `idleTicks` are the locals of
the render loop, and `seen` is the snapshot of a tick; `RenderTick` and `RenderPage` are the
two halves of a tick, because `active` and `cached` are shared and threads may count in
between. Both outlive the render thread, as for a handler that answers late. `Answer` is
what a handler sends that looks at `renderer_active` now; it changes nothing and is
therefore no action.
`Connect` is the kernel, which gives a connection to any socket on the port; `Accept` is
one turn of the accept loop: the connection first, the flag second. In
`Experiments`, a thread counts and ends, and what passes between threads is left to
`Pipeline`. One thread stands for the three of a kind. The receiver and the CPU load
threads count nothing and end and are joined with, or right after, the processor and
the sensors, whose roles they share. An actuator is joined by nobody: it
counts on in the next level of a sweep, which uses the same `Metrics`. `own`, `stray`
and `details` are histories of what was counted by whom and exported; `failed` names
the dashboards of runs whose log directory could not be made.

**SyncCounters.** `Lock`, `Load` and `StoreUnlock` are a call in mutex mode, `FetchAdd`
one in atomics mode; a snapshot is a copy under the lock, or one `LoadNext` per counter.
Threads record as those of the benchmarks do. Snapshots are there for benchmarks only
(`sync_manager.rs:361-371`, feature `bench`), and none of them takes one: that half of the
refinement is about what the interface would give, to one thread that takes snapshots.
The mutex, DashMap and the atomics are external; lock, `fetch_add` and `load` are
atomic. The calls of a mode that has nothing to do for them return at once and are left out.

## Runs

| run | module, cfg | distinct states | question |
|---|---|---|---|
| `pipeline` | `PipelineFifo`, `MCPipeline.cfg` | 71 000 | order, drops, counts, shutdown and progress of the data path, with a stalled Gripper |
| `synclog` | `SyncManager`, `MCSyncLog.cfg` | 294 000 | accounts, order, flush bound and stop in lock-free mode; the counters in the other two |
| `feedback` | `FeedbackLoop`, `MCFeedback.cfg` | 983 000 | kinds that travel, floor of the threshold, forwarder |
| `exporter` | `EventExporter`, `MCExporter.cfg` | 14 000 | order in the file, end of the exporter |
| `async` | `AsyncPipeline`, `MCAsync.cfg` | 166 000 | order, counts, bounded loss, end of the tasks |
| `acquisition` | `Acquisition`, `MCAcquisition.cfg` | 648 000 | schedule, jitter, windows, series, anomaly test |
| `experiments` | `MCExperiments`, `MCExperiments.cfg` | 380 000 | old servers, resting renderers, counters of a sweep, exports, return to the menu |
| `synclog_detached`, `feedback_late`, `exporter_exit`, `exporter_file`, `async_drain` | | | statements of the source that TLC refutes, see [below](#where-the-code-and-its-comments-disagree) |

What the properties say:

- `pipeline`: `FifoPerSensor` (the pipeline implements `LossyFifo`),
  `DropOnlyWhenFull` (every drop at a channel at its limit, so none in the window
  of the transmitter's check and none to a reader that has gone), `CountedTwice` (the
  sensor and the processor both count a sample, whatever happens to it later),
  `ShutdownOrder`, `ShutdownCompletes`, `EverySampleResolved`.
- `synclog`: `Accounting`, `ProducerOrder`, `UnflushedBound` (what a crash costs),
  `StopFlushes`, `StopReturns`, `QueuedIsWritten`, and
  `RefinesBoard` (mutex and atomics modes implement `CounterBoard`).
- `feedback`: `MissKindAlwaysOverridden` (so the tightening by 0.95 at
  `processor.rs:104-111` is dead code), `ThresholdFloor` (it follows from the former:
  that factor alone has no floor), `ForwarderNeverBlocks`.
- `exporter`: `FileInOrder`, `ExporterEnds`, `QueuedIsExported`.
- `async`: `AccountedInOrder`, `CountsWhatWasSent`, `AbandonedOnlyByStop`,
  `TasksEnd`, `ResolvedUnlessStopped`.
- `acquisition`: `BacklogIsCounted` (a sensor catches up at most one period per sample,
  and a release that follows one a period late is a miss), `JitterIsChangeOfLateness`
  (for the sensor, and for the processor when no sample before was dropped),
  `LatestAreKept`, `AnomalyNeedsWindow` (which readings can be anomalous at all:
  with ten in the window and a threshold of 3.0, none).
- `experiments`: `AnswersAreRecent` (no request for the metrics gets the empty page, and at
  every tick of a resting renderer the page has as many cycles as the live metrics; it does
  not say more, because more is [not true](#where-the-code-and-its-comments-disagree)),
  `NoAnswerFromThePast`, `MetricsBelongToRun`, `ExportsAgree`, `ExperimentEnds`.

### Bounds

Every bound is a constant or a named guard. `MaxSeq` and `MaxEvents` bound what one
thread produces; a thread at its bound waits, as a thread does that is not
scheduled, and still sees the flag.

- *Channels of one or two.* A capacity is only ever compared with a length, so the
  interesting cases are empty, partly filled and full, and several full channels at
  once. In `pipeline` the channel of the sensors has room for two, so samples of both
  sensors can be in it; two samples of each sensor are enough to fill every stage of
  one sensor and drop at each of the three. Three in `async`, where the processor
  may go with one sample in hand and one in the channel while a third is dropped.
- *Two producers.* The first pair of threads that can interleave; in `synclog` and
  `exporter` one is joined and one is not. Order between threads is a property of
  pairs.
- *`Batch` = 2, `FlushBatches` = 2*: a round can end full or empty-handed, and two
  rounds are needed for a flush; the six events make three rounds.
- *`Unit` = 4, `MaxThreshold` = 13*: the threshold starts at 12 and its floor is at
  6; guards stop relaxations at 13. The resolution is coarse; the theorem
  `ThresholdHasFloor` does not depend on it.
- *`acquisition`*: a period of 2 units, 1 of work and a deadline of 1; the clock goes to 8,
  four periods, so a sensor can be more than two periods late and catch up. Room for two
  samples, a window of 3, series of 3: each is filled and overrun by the four
  samples. One sensor, for the size of the state space; several of them in one
  channel are covered by the theorems, which are for any number of sensors. `Thresholds` are on both sides
  of the limit that `AnomalyNeedsWindow` states for two and for three readings.
- *`experiments`*: two dashboards are an old one and a new one; two levels are a sweep with
  an actuator left over; one cycle and one miss, because the properties compare
  counts; `INACTIVITY_TICKS` is 2, the least that needs a repetition; one browser.
  `MCExperiments` gives TLC a view of the states without the misses in `seen` and `cached` and
  without what a render thread leaves when it has ended. No guard and no property
  reads the former, so states that differ only in them have the same futures, and every
  step of a render thread changes `rPc`, so none is hidden. The latter never
  changes again, and what a property says of it was checked in the state before the
  end. The theorems are about the full states.
- *`Recorders` = 2, one call each, one sensor id, a jitter of 2* in `synclog`: two
  calls that overlap with a snapshot. The theorem has no bounds.
- *One actuator and the receiver* as emitters: they differ in what they emit, and two
  actuators do not.

Deadlock is checked in all runs. States where the program has ended, or the bound
of the clock is reached, are steps of their own (`Finished`, `returned`, `exited`,
`TimeIsUp`), so any other state without a step is an error.

## Fairness

Weak fairness per thread stands for a scheduler that runs every ready thread in the
end; all threads but the actuators in `Stalled` get it in `pipeline`. `Stalled` is
there because nothing in the code may depend on an actuator: the liveness properties
hold with the Gripper's thread stopped for ever. No strong fairness is needed: a step
of a thread that is ready stays ready, because a channel has one reader and a write
never waits. In `feedback` only the forwarder is scheduled. In `exporter` main,
the exporter and the ends of the threads are; the process lives on in the menu loop,
and an exit of the program while the exporter still writes is not modelled.
In `synclog` a producer need not begin a call, only end it. In `async` nothing is said
of when main stops or returns, so `TasksEnd` is about what the tasks do if main
leaves them the time. In `experiments` main's steps, the ends of the threads it joins
and the renderer of the latest dashboard are scheduled: no choice at the menu,
no browser, no web server and no actuator need ever do anything. `acquisition` has
only safety properties.

## Proofs

All are for every value of the constants that the module's assumptions allow: any
sensors, producers and actuators, any capacities and bounds.

| theorem | statement | argument |
|---|---|---|
| `Pipeline_proofs!TypeCorrect` | `Spec => []TypeOK` | inductive by itself |
| `Pipeline_proofs!ShutdownInOrder` | `Spec => []ShutdownOrder` | inductive on well-typed states: a stopped stage has no writer left that could give it work |
| `Pipeline_proofs!DropsAreFullChannels` | `Spec => DropOnlyWhenFull` | `ShutdownOrder` rules out a reader that has gone; the lemma `RoomKept` says that only the processor fills `procQ`, so the room the check saw is there at the send |
| `Pipeline_proofs!SamplesCountedTwice` | `Spec => []CountedTwice` | each of the processor's and sensors' steps keeps the balance of a sensor; the lemmas on `NumbersOf` say how many of its samples a step moves |
| `Pipeline_proofs!PipelineIsLossyFifo` | `Spec => FifoPerSensor` | see below |
| `Pipeline_proofs!EverySampleOnce` | `Spec => []OnceInOrder` | `LossyFifo` keeps the account of every sensor, and the pipeline implements it |
| `AsyncPipeline_proofs!TypeCorrect` | `Spec => []TypeOK` | inductive |
| `AsyncPipeline_proofs!AbandonedInShutdown` | `Spec => []AbandonedOnlyByStop` | strengthened: what was abandoned means that the processor has ended, which it does once, with one sample in hand and a channel of them |
| `AsyncPipeline_proofs!EverySampleAccounted` | `Spec => []AccountedInOrder` | with `Accounts`: for each sensor the line is ordered and below the next number, and the lengths add up (`Balanced`, kept by every kind of step: `BalanceKept`) |
| `AsyncPipeline_proofs!CountsWhatChannelsTook` | `Spec => []CountsWhatWasSent` | from the same invariant, which also balances `samples` |
| `SyncManager_proofs!TypeCorrect` | `Spec => []TypeOK` | inductive |
| `SyncManager_proofs!LogInProducerOrder` | `Spec => []ProducerOrder` | with `NumbersFresh`: the counter is ahead of every fetched number and no two threads hold the same one |
| `SyncManager_proofs!NothingUnaccounted` | `Spec => []Accounting` | each step moves a number from one place to another; the cardinality of the recording threads changes by one |
| `SyncManager_proofs!UnflushedIsBounded` | `Spec => []UnflushedBound` | with `UnflushedInv`: the unflushed rows are at most `flushCounter` rounds and those of the current one |
| `SyncManager_proofs!StopFlushesAll` | `Spec => []StopFlushes` | with `StopInv`: what is owed stays in the file or the queue, and is all flushed once the consumer has drained |
| `SyncManager_proofs!OnlyDetachedLeaves` | `Spec => []LeftByDetached` | with `LeftInv`: from the stop on only detached producers record, and what is in the queue after the drain is theirs |
| `SyncManager_proofs!JoinedLeaveNothing` | `Detached = {}` implies `Spec => []NothingLeftBehind` | from the theorem above: the threads nobody joins are the only cause of the counterexample of `synclog_detached` |
| `FeedbackLoop_proofs!TypeCorrect` | `Spec => []TypeOK` | inductive |
| `FeedbackLoop_proofs!MissKindNeverTravels` | `Spec => []MissKindAlwaysOverridden` | every emission of it comes after a look at the clock past 500 us, so `emit` replaces it (`EmitOverrides`); a kind nobody emits does not appear (`AbsentStays`) |
| `FeedbackLoop_proofs!ThresholdHasFloor` | `Spec => []ThresholdFloor` | not inductive alone: needs that no `deadline_miss` is under way |
| `FeedbackLoop_proofs!NothingRelaxes` | `Spec => ThresholdNeverRelaxes` | with `StableInv`: without diverging readings no report of one is under way |
| `EventExporter_proofs!TypeCorrect` | `Spec => []TypeOK` | inductive |
| `EventExporter_proofs!EventsInOrder` | `Spec => []FileInOrder` | popping keeps the file and the queue, put together, as they are (`PopKeepsLog`), recording appends to them or loses the event (`RecordExtendsLog`), and a new number is above all earlier ones of its thread |
| `SyncManager_proofs!CountersImplementBoard` | `CountersSpec => RefinesBoard` | `StoreUnlock` and `FetchAdd` map to `Return`, the last read to `ReturnSnapshot`, all else to `Begin` or a stutter; the invariant says that only the holder of the lock is between load and store and has loaded the present value, and that what a snapshot has read lies between its begin and now |
| `SyncManager_proofs!ManagerKeepsLog`, `ManagerImplementsBoard` | the same for `ManagerSpec`, the specification of the run | a manager's step is a step of the log or one of the counters; what it does not use stands still (`ManagerIsLog`) |
| `Experiments_proofs!TypeCorrect` | `Spec => []TypeOK` | with the invariants of the render threads |
| `Experiments_proofs!RestingAnswers` | `Spec => []AnswersAreRecent` | with `RenderInv`: the counter is zero unless the latest tick saw the total that the first one stored, and once the page is cached it has that total; the first tick that compares still finds the renderer active, so one that goes to rest has cached such a page before (`PageKeepsRenderInv`) |
| `Experiments_proofs!MetricsOfOneRun` | `Spec => []MetricsBelongToRun` | sensors and processors that live are of the current level (`ThreadInv`), so only actuators stray |
| `Experiments_proofs!ExportsOfOneRun` | `Spec => []ExportsAgree` | between the two exports no thread lives but actuators |
| `Experiments_proofs!AnswersAreCurrent` | `Spec => NoAnswerFromThePast` | a flag that is set is that of the latest dashboard or of a failed launch (`FlagInv`), and a browser's board is never newer than the latest (`ClientInv`) |
| `Acquisition_proofs!TypeCorrect` | `Spec => []TypeOK` | with `AwakeInv`: a sensor that does not sleep has passed its deadline |
| `Acquisition_proofs!BacklogAlwaysCounted` | `Spec => []BacklogIsCounted` | with `ScheduleInv`: the latest release and its lateness always determine the deadline |
| `Acquisition_proofs!JitterIsFaithful` | `Spec => []JitterIsChangeOfLateness` | with `SampleInv`: of two consecutive samples of a sensor, wherever they are, the second carries the jitter that the two time stamps give |
| `Acquisition_proofs!AnomalyNeedsReadings` | `Spec => []AnomalyNeedsWindow` | the window that was in use (`WindowInUse`), and the bound below |
| `Acquisition_proofs!LatestAlwaysKept` | `Spec => []LatestAreKept` | the lemmas `PushKeepsLatest` and `SlideIsPush`: one more value in a buffer that holds the latest |

`NothingRelaxes` has no run of its own: its premise is a value of the constant
`Unstable`.

**Induction over data.** The induction theorems of the library take a predicate as
a parameter, which the provers cannot instantiate. `SensorLines_proofs` therefore
states induction for *sets*: `Induction` says that a set that holds 0, and with n
also n + 1, holds every number, and `SequenceInduction` the same of sequences and
`Append`. Both come from the well-foundedness of < on the numbers, without a
predicate. A recursive function is a CHOOSE; that there is a function that obeys its
defining equation is the first induction (`NumbersUpToEquation`, `SumUpToEquation`), and
what it computes follows step by step: `NumbersOfAppend`, `NumbersOfConcat`,
`NumbersOfHead`, `SumAppend`. For these proofs `NumbersOf` and `Sum` are recursive functions and no folds
over a `SelectSeq`.

**The refinement.** Seen from a sensor s, the six stages from the actuator's hand
back to the sensors' channel are one sequence of samples, `Raw(s)`; `UnderWay(s)` is
`NumbersOf(s, Raw(s))`. Each step either moves a sample from one part of `Raw` to the next
and leaves the whole as it is (`LinesKept`), or removes one sample x from between two parts
(`SampleLost`), or appends one (`SendSeen`), or takes the oldest (`ActuatorSeen`).
`LineLoss` says what each of these does to the numbers of s: the sensor of x sees
`Lose`, all others a stutter. A sample in the lane of an actuator belongs to a sensor
of that actuator, which is why different sensors may have different sequences
behind the receiver; `ActuatorOf` is a function of the sensor's type alone. `ShutdownOrder` is
needed where a send fails because the reader has gone: it never does.

**The anomaly bound.** `AnomalyNeedsWindow` says that with n readings in the window an
anomaly needs a threshold t with t^2 < n - 1: no reading is more than sqrt(n - 1) standard
deviations from the mean. `SpreadNotNegative` proves, by induction over the readings
and without division, the inequality of Cauchy and Schwarz for integers,
(x1 + ... + xn)^2 <= n (x1^2 + ... + xn^2), with `SquaresGrow` for one more reading;
`DeviationBound` applies it to all readings but the latest, and `AnomalyBound` compares the
result with the test of the code. So ten readings and a threshold of 3.0 never make an
anomaly, whatever the readings are.

Only model-checked: all liveness (`ShutdownCompletes`, `EverySampleResolved`,
`StopReturns`, `QueuedIsWritten`, `ForwarderNeverBlocks`, `ExporterEnds`,
`QueuedIsExported`, `TasksEnd`, `ResolvedUnlessStopped`, `ExperimentEnds`), because the
proof system handles neither fairness nor ENABLED. Every safety property of the passing
runs, invariant or action property, is stated by a theorem. The counterexamples
of the violation runs are single behaviours, for which TLC is the right tool.

## Where the code and its comments disagree

Each of the first five is a run that TLC ends with a counterexample.

- `synclog_detached`: `sync_manager.rs:514` promises a "Final drain: flush all
  remaining events". The actuators are not joined before `stop_consumer`
  (`main.rs:403-428`), and what they record after the drain stays in the queue,
  neither written nor counted as dropped.
- `exporter_exit`: `metrics.rs:135` says the exporter "exits when queue empty + no
  producers". It does not look at producers: 10 ms without an event end it.
- `exporter_file`: `main.rs:435` reports "Events exported to" a file that may not
  exist, because the exporter opens it (started at 253) before main makes the
  directory (260).
- `feedback_late`: `feedback.rs:66` overrides the kind "for sensor recalibration",
  with a kind that the processor ignores (`processor.rs:118`).
- `async_drain`: `async_pipeline.rs:67` says the "processor exits once sensors stop".
  It ends with the first sample it receives after the flag was cleared.
- From the proof of `MissKindNeverTravels`: the branch for `deadline_miss` in the
  processor can never be taken.
- Without a run, in the data path: `main.rs:402` joins "all worker threads", but not the
  actuators, which are the cause of `synclog_detached`; `async_transmitter.rs:50` says
  "Match synchronous path: count a successful sample", while `CountedTwice` and
  `CountsWhatWasSent` show that the two paths count differently;
  `async_main.rs:112` says "wait for threads to exit", but main only sleeps, and
  keeps the sender that would end the bridge.
- Without a run, in time and filter: `sensor.rs:115` says "Sensor woke up late" where the sensor did
  not sleep at all; a sleep that ends late by less than a period is never counted.
  `async_sensor.rs:63` says "Mirror threaded sensor" and counts another kind of miss,
  any period that was too long. By `AnomalyNeedsWindow` the async processor can never
  report an anomaly, and the threaded one only after acknowledgements have lowered its
  threshold below 3.0.
- Without a run, in the metrics: each series mixes the readings of the sensor and the
  averages of the processor (`LatestAreKept` is about the mixture); `controller.rs:187-188` pushes the state of
  every controller into the series of gripper and motor; `latency_us` holds cycle
  times of the processor and latencies of the receiver; `metrics_export.rs:16` names
  `data/cpu_load_results.csv`, the code writes below `data/logs`.
- Without a run, in dashboard and menu: `dashboard.rs:87` says "Detect inactivity", but
  `last_total_cycles` is stored in the first tick only (88-96), so a renderer rests only
  while the count is what that tick saw, at the start or after a reset, and after an
  experiment it saves nothing. `dashboard.rs:49` says "generates SVG + JSON every 200ms if data
  is changing", but only the cycles are compared: misses, jitter and latency that change
  while the cycles do not wake nobody and are missing in the page for as long
  as the renderer rests. And a rest is a sleep of 1 s (132): started with the dashboard,
  a renderer rests from about 1.0 s to 2.0 s, while main launches at 1.5 s (`main.rs:173`,
  192), so for half a second the "live or cached" answer (314) is a page without cycles
  that the metrics already have. `AnswersAreRecent` is what remains true;
  `dashboard.rs:34` promises to "gracefully stop both threads", but the web server ends
  only after one more connection, and one whose launch failed (`main.rs:261`) is
  never told to stop; the menu (`main.rs:137`) shows other levels than
  `CPU_LOAD_SWEEP` (`main.rs:78`) has.

## Plan

The order is by how much depends on a part: first the data path and its shutdown,
then what records it, then the feedback, then the parts at the edge.

Done: `LossyFifo`, `Pipeline`, `PipelineFifo`, `SyncLog`, `FeedbackLoop`,
`EventExporter`, `AsyncPipeline` and the proofs above.

Then `Metrics`, `Filter`, `Acquisition`, `Dashboard`, `Experiments`, `CounterBoard`,
`SyncCounters` and `SyncManager`, with their proofs.

Then the proofs that go over sequences with several sources: `SensorLines`, the
refinement of `LossyFifo`, the accounts of `AsyncPipeline`, the anomaly bound, and the
manager in any mode.

Next:

1. What a late feedback does: that a `feedback_deadline_miss` leaves the processor as it
   is, as an action property for every value of the constants, the exact
   statement behind `feedback_late`.
2. Safety parts of the liveness properties: the states from which nothing can be stuck
   (`ShutdownCompletes`, `TasksEnd`), as invariants that say which step is possible.
3. The ticks that the async sensors skip (`async_sensor.rs`) and their deadline counters,
   as a second schedule beside `Acquisition`.

## Not modelled

- Readings, the PID law (an external crate), CSV text and HTML: data that no
  property above distinguishes.
- Real time: a sleep is a step that may come late. Deadlines matter where the code
  compares a clock with them, and are modelled there (`FeedbackLoop`, `Acquisition`);
  elsewhere a time-out may fire at any time.
- The ticks and deadline counters of the async tasks, the series that receiver
  and actuators push (latencies and states), and `consecutive_overruns`, which is
  only printed.
- Failures at the edge: a log consumer that cannot be spawned (`main.rs:269` panics), a
  directory that `export_metrics` cannot make, a port that cannot be bound.
- Errors of a write or a flush to the logs, which the code ignores (`.ok()`:
  `sync_manager.rs:495, 505, 544, 546`; the exporter does the same): a row lost to one of them is
  counted nowhere. `Accounting`, `UnflushedBound`, `StopFlushes`, `QueuedIsWritten` and
  `QueuedIsExported` hold if the file takes what it is given.
- Thread priorities and core pinning: they change which interleavings are likely,
  not which are possible.
- Poisoned locks and panics: no step of the modelled code panics while it holds
  a lock.
- The offline analysis programs (`analysis/*.rs`): they read CSV files once, from
  beginning to end, compute averages and print tables. They have no state over time and meet
  nothing concurrent; what could be wrong in them is arithmetic and text, which
  tests reach. (`sync_vs_async.rs` reports another path than it writes.)
- The benchmarks: timing loops around operations that are modelled. Their threads record
  as those of `SyncCounters` do; none of them takes a snapshot.
- `SyncManager::clone` and the stop in its `Drop`: the program shares it by `Arc`
  and never clones the value.
