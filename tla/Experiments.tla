------------------------------ MODULE Experiments ------------------------------
(***************************************************************************)
(* The main thread of src/main.rs: the menu, single runs with a dashboard  *)
(* of their own, sweeps that share a dashboard and its Metrics, the life   *)
(* of an experiment's threads, and the exports.  Composed with Dashboard.  *)
(*                                                                         *)
(* A thread here only counts and ends: what passes between the threads is  *)
(* in Pipeline, the logs are in SyncLog and EventExporter.  One thread     *)
(* stands for the three of its kind, a sensor also for the CPU load, which *)
(* is joined after it and ends at the same flag, and a processor also for  *)
(* the receiver, which ends and is joined after it; neither of the two     *)
(* counts anything.  A sleep takes any time.                               *)
(***************************************************************************)
EXTENDS Dashboard, FiniteSets

CONSTANTS
  Levels,     \* number of levels of a sweep (the length of CPU_LOAD_SWEEP, 8)
  MaxCount    \* bound of the model: cycles, and misses, in a Metrics

ASSUME ExperimentsAssumption == Levels \in Nat \ {0} /\ MaxCount \in Nat \ {0}

Joined == {"sensor", "processor"}
Roles  == Joined \cup {"actuator"}
Thread == [level : 1..Levels, role : Roles]

VARIABLES
  mPc,       \* where main is
  mode,      \* what was chosen: "single" or "sweep"
  level,     \* the level of the sweep; a single run is one level
  running,   \* the running flag of the latest experiment
  dropped,   \* has main dropped its senders
  threads,   \* the threads that are alive and have the Metrics of this board
  own,       \* history: what the threads of this experiment have counted
  stray,     \* history: actuator misses that earlier experiments added to its Metrics
  details,   \* what export_metrics_to_csv wrote of it
  failed     \* history: the dashboards whose single run could not be launched

mainVars == <<mPc, mode, level, running, dropped, threads, own, stray, details,
             failed>>
vars     == <<boardVars, mainVars>>

Init ==
  /\ DashboardInit
  /\ mPc = "menu" /\ mode = "single" /\ level = 1
  /\ running = FALSE /\ dropped = TRUE /\ threads = {}
  /\ own = DefaultMetrics /\ stray = 0 /\ details = DefaultMetrics
  /\ failed = {}

Goto(pc) == mPc' = pc

(* The histories start with the Metrics they are about. *)
ForgetCounts == own' = DefaultMetrics /\ stray' = 0 /\ details' = DefaultMetrics
                /\ UNCHANGED failed

ThreadFrame == UNCHANGED <<running, dropped, threads>>
CountFrame  == UNCHANGED <<own, stray, details, failed>>

Lives(role) == [level |-> level, role |-> role] \in threads

-------------------------------------------------------------------------------
(* The menu, run_simulation_with_dashboard and run_sweep_series *)

Choose(m, pc) ==
  /\ mPc = "menu" /\ StartDashboard
  /\ mode' = m /\ Goto(pc)
  /\ UNCHANGED level /\ ForgetCounts /\ ThreadFrame

ChooseSingle == Choose("single", "launch")
ChooseSweep  == Choose("sweep", "reset")

(* "4", or no choice left in the model: main returns and the process ends. *)
ChooseExit ==
  /\ mPc = "menu" /\ Goto("exited")
  /\ UNCHANGED <<boardVars, mode, level>> /\ ThreadFrame /\ CountFrame

(* Variant: the Metrics are not reset between two levels. *)
SkipReset ==
  /\ mPc = "reset" /\ Goto("launch")
  /\ ForgetCounts
  /\ UNCHANGED <<boardVars, mode, level>> /\ ThreadFrame

(* Each level of a sweep begins with new Metrics in the shared object. *)
ResetMetrics ==
  /\ mPc = "reset" /\ Goto("launch")
  /\ metrics' = DefaultMetrics
  /\ ForgetCounts
  /\ UNCHANGED <<board, flag, renderVars, webVars, mode, level>> /\ ThreadFrame

(* Back to the menu.  The next dashboard has new Metrics: actuators that are  *)
(* left go on counting where nobody looks, and leave the model.               *)
BackToMenu == Goto("menu") /\ mode' = "single" /\ level' = 1 /\ threads' = {}

(* After an experiment: back to the menu, to the next level, or to the end of *)
(* the sweep after level n.                                                   *)
LeaveAfter(n) ==
  /\ \/ mode = "single" /\ BackToMenu
     \/ /\ mode = "sweep" /\ level < n /\ Goto("reset") /\ level' = level + 1
        /\ UNCHANGED <<mode, threads>>
     \/ /\ mode = "sweep" /\ level >= n /\ Goto("stopBoard")
        /\ UNCHANGED <<mode, level, threads>>
  /\ UNCHANGED <<running, dropped>>

(* Variant: one level too many. *)
LeaveLate == LeaveAfter(Levels + 1)

LeaveExperiment == LeaveAfter(Levels)

StopSweepBoard ==
  /\ mPc = "stopBoard" /\ ClearFlag /\ Goto("joinBoard")
  /\ UNCHANGED <<metrics, board, renderVars, webVars, mode, level>>
  /\ ThreadFrame /\ CountFrame

JoinSweepBoard ==
  /\ mPc = "joinBoard" /\ rPc[board] = "gone" /\ BackToMenu
  /\ UNCHANGED <<boardVars, running, dropped>> /\ CountFrame

-------------------------------------------------------------------------------
(* run_simulation_internal *)

(* The threads are spawned. *)
Launch ==
  /\ mPc = "launch" /\ Goto("sleep")
  /\ running' = TRUE /\ dropped' = FALSE
  /\ threads' = threads \cup [level : {level}, role : Roles]
  /\ UNCHANGED <<boardVars, mode, level>> /\ CountFrame

(* The log directory cannot be created: the function returns, and the flag of *)
(* a single run's dashboard stays set.                                        *)
LaunchFails ==
  /\ mPc = "launch" /\ LeaveExperiment
  /\ failed' = IF mode = "single" THEN failed \cup {board} ELSE failed
  /\ UNCHANGED <<boardVars, own, stray, details>>

StopRun ==
  /\ mPc = "sleep" /\ Goto("drop") /\ running' = FALSE
  /\ UNCHANGED <<boardVars, mode, level, dropped, threads>> /\ CountFrame

(* Variant: the dashboard's flag is left to the end of the function. *)
DropSendersOnly ==
  /\ mPc = "drop" /\ Goto("sensor") /\ dropped' = TRUE
  /\ UNCHANGED <<boardVars, mode, level, running, threads>> /\ CountFrame

(* main drops its senders, and a single run stops its dashboard. *)
DropSenders ==
  /\ mPc = "drop" /\ Goto("sensor") /\ dropped' = TRUE
  /\ IF mode = "single" THEN ClearFlag ELSE UNCHANGED flag
  /\ UNCHANGED <<metrics, board, renderVars, webVars, mode, level, running,
                 threads>>
  /\ CountFrame

NextJoin(role) ==
  CASE role = "sensor"    -> "processor"
    [] role = "processor" -> IF mode = "single" THEN "render" ELSE "details"

(* Variant: the handle is dropped instead of joined. *)
ForgetThread(role) ==
  /\ mPc = role /\ Goto(NextJoin(role))
  /\ UNCHANGED <<boardVars, mode, level>> /\ ThreadFrame /\ CountFrame

(* Join the threads of one kind; actuators are in no list. *)
JoinThread(role) ==
  /\ mPc = role /\ ~Lives(role) /\ Goto(NextJoin(role))
  /\ UNCHANGED <<boardVars, mode, level>> /\ ThreadFrame /\ CountFrame

JoinRenderer ==
  /\ mPc = "render" /\ rPc[board] = "gone" /\ Goto("details")
  /\ UNCHANGED <<boardVars, mode, level>> /\ ThreadFrame /\ CountFrame

(* run_exports takes the lock twice: for the detailed files *)
ExportDetails ==
  /\ mPc = "details" /\ Goto("summary")
  /\ details' = metrics
  /\ UNCHANGED <<boardVars, mode, level, own, stray, failed>> /\ ThreadFrame

(* and for the row of the results file. *)
ExportSummary ==
  /\ mPc = "summary" /\ LeaveExperiment /\ ForgetCounts
  /\ UNCHANGED boardVars

-------------------------------------------------------------------------------
(* The threads of the experiments *)

Tally(m, role, missed) ==
  LET cycle == IF role = "processor" THEN [m EXCEPT !.total_cycles = @ + 1] ELSE m
  IN  IF missed THEN RecordMiss(cycle, role) ELSE cycle

Bounded(m) == m.total_cycles <= MaxCount /\ m.deadline_miss <= MaxCount

(* main has launched the experiment and not yet left it. *)
InRun == mPc \in Joined \cup {"sleep", "drop", "render", "details", "summary"}

OfThisRun(t) == InRun /\ t.level = level

(* A thread has counted a cycle, or a miss of its deadline.  An actuator of an *)
(* earlier level still counts, now in the Metrics of another experiment.       *)
Work(t) ==
  /\ t.role \in Component
  /\ \E missed \in BOOLEAN :
       LET m == Tally(metrics, t.role, missed) IN
       /\ m # metrics /\ Bounded(m)
       /\ metrics' = m
       /\ own' = IF OfThisRun(t) THEN Tally(own, t.role, missed) ELSE own
  /\ stray' = IF OfThisRun(t) THEN stray ELSE stray + 1
  /\ UNCHANGED <<board, flag, renderVars, webVars, mPc, mode, level, details, failed>>
  /\ ThreadFrame

(* What the loop of t waits for: the flag, or the end of the stages before it. *)
MayEnd(t) ==
  LET none(role) == [t EXCEPT !.role = role] \notin threads
  IN  CASE t.role = "sensor"    -> ~running
        [] t.role = "processor" -> none("sensor") /\ dropped
        [] t.role = "actuator"  -> none("processor")

End(t) ==
  /\ MayEnd(t) /\ threads' = threads \ {t}
  /\ UNCHANGED <<boardVars, mPc, mode, level, running, dropped>> /\ CountFrame

-------------------------------------------------------------------------------
Conduct ==
  \/ ResetMetrics \/ StopSweepBoard \/ JoinSweepBoard
  \/ Launch \/ LaunchFails \/ StopRun \/ DropSenders
  \/ \E role \in Joined : JoinThread(role)
  \/ JoinRenderer \/ ExportDetails \/ ExportSummary

Menu == ChooseSingle \/ ChooseSweep \/ ChooseExit

JoinedEnds == \E t \in threads : t.role \in Joined /\ End(t)

RenderLatest == \E b \in Boards : b = board /\ Render(b)

OnBoard(step) == mPc # "exited" /\ step /\ UNCHANGED mainVars
InThread(step) == mPc # "exited" /\ step

Next ==
  \/ Menu
  \/ Conduct
  \/ \E t \in threads : InThread(Work(t)) \/ InThread(End(t))
  \/ \E b \in Boards : OnBoard(Render(b)) \/ OnBoard(Serve(b))
  \/ \E c \in Clients, b \in Boards : OnBoard(Connect(c, b))
  \/ mPc = "exited" /\ UNCHANGED vars

(* main and every thread it joins are scheduled.  The user need not choose, *)
(* no browser need connect, no web server and no actuator need do anything. *)
Fairness ==
  /\ WF_vars(Conduct)
  /\ WF_vars(InThread(JoinedEnds))
  /\ WF_vars(OnBoard(RenderLatest))

Spec     == Init /\ [][Next]_vars
FairSpec == Spec /\ Fairness

-------------------------------------------------------------------------------
(* Properties *)

TypeOK ==
  /\ DashboardTypeOK
  /\ mPc \in Joined \cup {"menu", "reset", "launch", "sleep", "drop", "render", "details",
                          "summary", "stopBoard", "joinBoard", "exited"}
  /\ mode \in {"single", "sweep"} /\ level \in 1..Levels
  /\ running \in BOOLEAN /\ dropped \in BOOLEAN
  /\ threads \subseteq Thread
  /\ own \in MetricsRecord /\ stray \in Nat /\ details \in MetricsRecord
  /\ failed \subseteq Boards

(* No answer comes from the past: a connection that is handed to a handler,   *)
(* not closed, is at the server of a dashboard no older than the latest at    *)
(* the time of the connection, although the servers of earlier experiments    *)
(* still listen on the port (dashboard.rs:257).  The exception is a dashboard *)
(* that nobody told to stop, after a launch that failed (main.rs:259-263).    *)
NoAnswerFromThePast ==
  [][\A c \in Clients :
       LET at == client[c].at IN
       at # 0 /\ client'[c].at = 0 /\ server'[at] = "accept"
         => at >= client[c].since \/ at \in failed]_vars

(* From its launch to its exports the Metrics of an experiment hold what its  *)
(* own threads have counted and, in a sweep, what detached actuators of       *)
(* earlier levels add (main.rs:195-199): what sensors and processors of two   *)
(* levels count never mixes.                                                  *)
MetricsBelongToRun ==
  InRun =>
    /\ metrics.total_cycles = own.total_cycles
    /\ \A c \in Component \ {"actuator"} : metrics.miss[c] = own.miss[c]
    /\ metrics.miss["actuator"] = own.miss["actuator"] + stray

(* The two exports of an experiment lock the Metrics one after the other      *)
(* (export.rs:215-217).  They agree on all that the joined threads count, and *)
(* the later one can only be ahead by misses of actuators.                    *)
ExportsAgree ==
  mPc = "summary" =>
    LET m == metrics IN
    /\ m.total_cycles = details.total_cycles
    /\ \A c \in Component \ {"actuator"} : m.miss[c] = details.miss[c]
    /\ m.deadline_miss - details.deadline_miss
         = m.miss["actuator"] - details.miss["actuator"]
    /\ m.deadline_miss = ShownMisses(m)

(* Every experiment ends and main comes back to its menu, whatever browsers   *)
(* and actuators do: no join waits for a thread that waits for main.          *)
ExperimentEnds == mPc = "sleep" ~> mPc = "menu"

==============================================================================
