--------------------------- MODULE Experiments_proofs ---------------------------
(***************************************************************************)
(* Theorems about Experiments, for any number of levels, dashboards and    *)
(* browsers and without a bound on what is counted.                        *)
(***************************************************************************)
EXTENDS Experiments, TLAPS

-------------------------------------------------------------------------------
(* The render threads *)

(* What a step does to the render threads: nothing, or one of them is       *)
(* started, makes a step or ends.                                           *)
LEMMA RenderSteps ==
  ASSUME [Next]_vars
  PROVE  \/ UNCHANGED <<board, renderVars>>
         \/ StartDashboard
         \/ \E b \in Boards : RenderTick(b) \/ RenderPage(b) \/ RenderExit(b)
<1>1. CASE Menu
  BY <1>1 DEF Menu, ChooseSingle, ChooseSweep, ChooseExit, Choose, boardVars
<1>2. CASE Conduct
  BY <1>2 DEF Conduct, ResetMetrics, StopSweepBoard, JoinSweepBoard, Launch,
     LaunchFails, StopRun, DropSenders, JoinThread, JoinRenderer, ExportDetails,
     ExportSummary, boardVars
<1>3. CASE \E t \in threads : InThread(Work(t)) \/ InThread(End(t))
  BY <1>3 DEF InThread, Work, End, boardVars
<1>4. CASE \E b \in Boards : OnBoard(Render(b)) \/ OnBoard(Serve(b))
  BY <1>4 DEF OnBoard, Render, Serve, Accept
<1>5. CASE \E c \in Clients, b \in Boards : OnBoard(Connect(c, b))
  BY <1>5 DEF OnBoard, Connect
<1>6. CASE UNCHANGED vars
  BY <1>6 DEF vars, boardVars
<1> QED
  BY <1>1, <1>2, <1>3, <1>4, <1>5, <1>6 DEF Next

(* A renderer is active as long as it has not compared too many equal totals. *)
(* It has compared one only if its latest tick saw the total of the first, and *)
(* then the page, once that tick has cached it, shows the same total: the      *)
(* first tick that compares still finds the renderer active.                   *)
RenderOK(b) ==
  /\ first[b] => idleTicks[b] = 0
  /\ active[b] <=> idleTicks[b] < InactivityTicks
  /\ rPc[b] = "render" => seen[b] \in Page
  /\ rPc[b] = "render" /\ idleTicks[b] > 0 => seen[b].total_cycles = lastTotal[b]
  /\ idleTicks[b] > 0 /\ ~(rPc[b] = "render" /\ active[b]) =>
       cached[b] \in Page /\ cached[b].total_cycles = lastTotal[b]

RenderType ==
  /\ first \in [Boards -> BOOLEAN] /\ active \in [Boards -> BOOLEAN]
  /\ lastTotal \in [Boards -> Nat]
  /\ idleTicks \in [Boards -> 0..InactivityTicks]
  /\ rPc \in [Boards -> {"none", "check", "render", "gone"}]
  /\ seen \in [Boards -> Page \cup {NoPage}] /\ cached \in [Boards -> Page \cup {NoPage}]

RenderInv ==
  /\ RenderType
  /\ \A b \in Boards : RenderOK(b)
  /\ board \in Nat /\ \A b \in Boards : b > board => rPc[b] = "none"

(* The limit of the counter of equal totals. *)
LEMMA AtMostFacts ==
  ASSUME NEW n \in Nat, NEW bound \in Nat
  PROVE  AtMost(n, bound) \in 0..bound /\ AtMost(n, bound) <= n
         /\ (AtMost(n, bound) < bound => AtMost(n, bound) = n)
  BY DEF AtMost

(* The counters after a reset are counters. *)
LEMMA DefaultIsMetrics == DefaultMetrics \in MetricsRecord
  BY DEF DefaultMetrics, MetricsRecord

(* Metrics give a page with their cycles, and never the empty one. *)
LEMMA PageFacts ==
  ASSUME NEW m \in MetricsRecord
  PROVE  PageOf(m) \in Page /\ PageOf(m).total_cycles = m.total_cycles
         /\ m.total_cycles \in Nat
  BY DEF PageOf, Page, MetricsRecord

(* The empty page is no page. *)
LEMMA NoPageIsNone == NoPage \notin Page
<1>1. NoPage.total_cycles = -1
  BY DEF NoPage, PageOf
<1> QED
  BY <1>1 DEF Page

(* At the start no renderer runs. *)
LEMMA RenderInitInv == Init => RenderInv
<1> SUFFICES ASSUME Init PROVE RenderInv
  OBVIOUS
<1>1. InactivityTicks \in Nat /\ InactivityTicks >= 2
  BY DashboardAssumption
<1>2. RenderType
  BY <1>1 DEF Init, DashboardInit, RenderType
<1>3. \A b \in Boards : RenderOK(b)
  BY <1>1 DEF Init, DashboardInit, RenderOK
<1> QED
  BY <1>2, <1>3 DEF Init, DashboardInit, RenderInv

(* The one step that matters: a tick sees some total. *)
LEMMA TickKeepsRenderInv ==
  ASSUME RenderInv, metrics \in MetricsRecord, NEW b \in Boards, RenderTick(b)
  PROVE  RenderInv'
<1> DEFINE N     == InactivityTicks
           page  == PageOf(Live(b))
           total == page.total_cycles
           count == InactivityCount(b, total)
           idle  == AtMost(count, N)
<1>1. N \in Nat /\ N >= 2
  BY DashboardAssumption
<1>2. page \in Page /\ total \in Nat
  BY DefaultIsMetrics, PageFacts DEF Live
<1>3. RenderType /\ RenderOK(b)
  BY DEF RenderInv
<1>4. count \in Nat
  BY <1>3 DEF InactivityCount, RenderType
<1>5. idle \in 0..N /\ idle <= count /\ (idle < N => idle = count)
  BY <1>1, <1>4, AtMostFacts
<1>6. count = IF ~first[b] /\ total = lastTotal[b] THEN idleTicks[b] + 1 ELSE 0
  BY DEF InactivityCount
<1>7. /\ first' = [first EXCEPT ![b] = FALSE]
      /\ lastTotal' = [lastTotal EXCEPT ![b] = IF first[b] THEN total ELSE @]
      /\ idleTicks' = [idleTicks EXCEPT ![b] = idle]
      /\ active' = [active EXCEPT ![b] = idle < N]
      /\ seen' = [seen EXCEPT ![b] = page]
      /\ rPc' = [rPc EXCEPT ![b] = "render"]
      /\ rPc[b] = "check" /\ cached' = cached /\ board' = board
  BY DEF RenderTick
<1> HIDE DEF N, page, total, count, idle
<1>8. RenderType'
  BY <1>1, <1>2, <1>3, <1>5, <1>7 DEF RenderType, N
<1>9. \A d \in Boards : d # b => RenderOK(d)'
  BY <1>3, <1>7 DEF RenderOK, RenderInv, RenderType
<1>10. RenderOK(b)'
  <2>1. /\ first'[b] = FALSE /\ rPc'[b] = "render" /\ cached'[b] = cached[b]
        /\ seen'[b] = page /\ idleTicks'[b] = idle
        /\ active'[b] = (idle < N)
        /\ lastTotal'[b] = (IF first[b] THEN total ELSE lastTotal[b])
    BY <1>3, <1>7 DEF RenderType
  <2>2. idle > 0 => ~first[b] /\ total = lastTotal[b] /\ count = idleTicks[b] + 1
    BY <1>4, <1>5, <1>6
  <2>3. idle > 0 => total = lastTotal'[b]
    BY <2>1, <2>2
  <2>4. ~(idle < N) => cached[b] \in Page /\ cached[b].total_cycles = lastTotal'[b]
    <3> SUFFICES ASSUME ~(idle < N)
                 PROVE  cached[b] \in Page /\ cached[b].total_cycles = lastTotal'[b]
      OBVIOUS
    <3>1. idleTicks[b] \in Nat
      BY <1>1, <1>3 DEF RenderType, N
    <3>2. idleTicks[b] > 0 /\ lastTotal'[b] = lastTotal[b]
      BY <1>1, <1>5, <2>1, <2>2, <3>1
    <3> QED
      BY <1>3, <1>7, <3>2 DEF RenderOK
  <2>5. total = page.total_cycles
    BY DEF total
  <2> QED
    BY <1>2, <2>1, <2>3, <2>4, <2>5 DEF RenderOK, N
<1>11. board' \in Nat /\ \A d \in Boards : d > board' => rPc'[d] = "none"
  BY <1>3, <1>7 DEF RenderInv, RenderType
<1> QED
  BY <1>8, <1>9, <1>10, <1>11 DEF RenderInv

(* An active renderer caches the snapshot of its tick. *)
LEMMA PageKeepsRenderInv ==
  ASSUME RenderInv, NEW b \in Boards, RenderPage(b)
  PROVE  RenderInv'
<1>1. RenderType /\ RenderOK(b)
  BY DEF RenderInv
<1>2. /\ rPc[b] = "render" /\ rPc' = [rPc EXCEPT ![b] = "check"]
      /\ cached' = [cached EXCEPT ![b] = IF active[b] THEN seen[b] ELSE @]
      /\ seen' = [seen EXCEPT ![b] = NoPage]
      /\ UNCHANGED <<board, first, lastTotal, idleTicks, active>>
  BY DEF RenderPage
<1>3. RenderType'
  BY <1>1, <1>2 DEF RenderType
<1>4. \A d \in Boards : d # b => RenderOK(d)'
  BY <1>1, <1>2 DEF RenderOK, RenderInv, RenderType
<1>5. RenderOK(b)'
  BY <1>1, <1>2 DEF RenderOK, RenderType
<1>6. board' \in Nat /\ \A d \in Boards : d > board' => rPc'[d] = "none"
  BY <1>1, <1>2 DEF RenderInv, RenderType
<1> QED
  BY <1>3, <1>4, <1>5, <1>6 DEF RenderInv

(* Every step keeps RenderInv. *)
LEMMA RenderStepInv ==
  ASSUME RenderInv, metrics \in MetricsRecord, [Next]_vars
  PROVE  RenderInv'
<1>1. CASE UNCHANGED <<board, renderVars>>
  BY <1>1 DEF renderVars, RenderInv, RenderType, RenderOK
<1>2. CASE StartDashboard
  <2>1. /\ rPc' = [rPc EXCEPT ![board'] = "check"]
        /\ board' = board + 1
        /\ UNCHANGED <<first, lastTotal, idleTicks, seen, active, cached>>
    BY <1>2 DEF StartDashboard
  <2>2. RenderType'
    BY <2>1 DEF RenderInv, RenderType
  <2>3. ASSUME NEW b \in Boards PROVE RenderOK(b)'
    <3>1. rPc'[b] # "render" \/ rPc'[b] = rPc[b]
      BY <2>1 DEF RenderInv, RenderType
    <3>2. rPc[b] = "render" => rPc'[b] = "render"
      BY <2>1 DEF RenderInv, RenderType, Boards
    <3> QED
      BY <2>1, <3>1, <3>2 DEF RenderInv, RenderOK
  <2>4. board' \in Nat /\ \A b \in Boards : b > board' => rPc'[b] = "none"
    BY <2>1 DEF RenderInv, RenderType, Boards
  <2> QED
    BY <2>2, <2>3, <2>4 DEF RenderInv
<1>3. ASSUME NEW b \in Boards, RenderExit(b) PROVE RenderInv'
  BY <1>3 DEF RenderExit, RenderInv, RenderType, RenderOK
<1> QED
  BY <1>1, <1>2, <1>3, TickKeepsRenderInv, PageKeepsRenderInv, RenderSteps

-------------------------------------------------------------------------------
(* Types *)

(* Main has a dashboard whenever it is not in its menu. *)
HasBoard == mPc \notin {"menu", "exited"} => board \in Boards

TypeInv == TypeOK /\ HasBoard

(* What a recorded miss changes, field by field. *)
LEMMA RecordMissFields ==
  ASSUME NEW m \in MetricsRecord, NEW c \in Component
  PROVE  /\ RecordMiss(m, c) \in MetricsRecord
         /\ RecordMiss(m, c).miss = [m.miss EXCEPT ![c] = @ + 1]
         /\ RecordMiss(m, c).deadline_miss = m.deadline_miss + 1
         /\ RecordMiss(m, c).total_cycles = m.total_cycles
<1>1. m.miss \in [Component -> Nat] /\ m.deadline_miss \in Nat /\ m.total_cycles \in Nat
  BY DEF MetricsRecord
<1>2. [m.miss EXCEPT ![c] = @ + 1] \in [Component -> Nat]
  BY <1>1
<1> DEFINE counted == [m EXCEPT !.miss = [m.miss EXCEPT ![c] = @ + 1]]
<1>3. /\ counted \in MetricsRecord
      /\ counted.miss = [m.miss EXCEPT ![c] = @ + 1]
      /\ counted.deadline_miss = m.deadline_miss
      /\ counted.total_cycles = m.total_cycles
  BY <1>1, <1>2 DEF MetricsRecord
<1>4. RecordMiss(m, c) = [counted EXCEPT !.deadline_miss = @ + 1]
  BY DEF RecordMiss, MetricsRecord
<1> HIDE DEF counted
<1> QED
  BY <1>1, <1>2, <1>3, <1>4 DEF MetricsRecord

(* What a thread adds, field by field. *)
LEMMA TallyFields ==
  ASSUME NEW m \in MetricsRecord, NEW role \in Component, NEW missed \in BOOLEAN
  PROVE  LET n == Tally(m, role, missed) IN
         /\ n \in MetricsRecord
         /\ n.miss = IF missed THEN [m.miss EXCEPT ![role] = @ + 1] ELSE m.miss
         /\ n.deadline_miss = m.deadline_miss + (IF missed THEN 1 ELSE 0)
         /\ n.total_cycles = m.total_cycles + (IF role = "processor" THEN 1 ELSE 0)
<1> DEFINE cycle == IF role = "processor" THEN [m EXCEPT !.total_cycles = @ + 1] ELSE m
<1>1. /\ cycle \in MetricsRecord
      /\ cycle.miss = m.miss /\ cycle.deadline_miss = m.deadline_miss
      /\ cycle.total_cycles = m.total_cycles + (IF role = "processor" THEN 1 ELSE 0)
  BY DEF MetricsRecord
<1>2. m.deadline_miss \in Nat
  BY DEF MetricsRecord
<1>3. Tally(m, role, missed) = IF missed THEN RecordMiss(cycle, role) ELSE cycle
  BY DEF Tally
<1> HIDE DEF cycle
<1> QED
  BY <1>1, <1>2, <1>3, RecordMissFields

(* The initial states are well typed. *)
LEMMA InitType == Init => TypeInv
<1> SUFFICES ASSUME Init PROVE TypeInv
  OBVIOUS
<1>1. MaxBoards \in Nat /\ InactivityTicks \in Nat /\ 1 \in 1..Levels
  BY DashboardAssumption, ExperimentsAssumption
<1>2. client \in [Clients -> [at : 0..MaxBoards, since : 0..MaxBoards]]
  BY <1>1 DEF Init, DashboardInit, NobodyAsked
<1>3. DashboardTypeOK
  BY <1>1, <1>2, DefaultIsMetrics DEF Init, DashboardInit, DashboardTypeOK
<1> QED
  BY <1>1, <1>3, DefaultIsMetrics DEF Init, TypeInv, TypeOK, HasBoard

(* The types of the render threads are in RenderInv. *)
LEMMA TypeStep ==
  ASSUME TypeInv, RenderType', [Next]_vars
  PROVE  TypeInv'
<1> USE DefaultIsMetrics, DashboardAssumption, ExperimentsAssumption
        DEF TypeInv, HasBoard, RenderType
<1>1. CASE Menu
  <2>1. CASE ChooseExit
    BY <2>1 DEF ChooseExit, boardVars, webVars, ThreadFrame, CountFrame, Goto, TypeOK,
       DashboardTypeOK
  <2>2. ASSUME NEW m \in {"single", "sweep"}, NEW pc \in {"launch", "reset"}, Choose(m, pc)
        PROVE  TypeInv'
    <3>1. board' \in 0..MaxBoards /\ board' \in Boards
      BY <2>2 DEF Choose, StartDashboard, Boards, TypeOK, DashboardTypeOK
    <3>2. flag' \in [Boards -> BOOLEAN] /\ server' \in [Boards -> {"none", "accept", "gone"}]
      BY <2>2, <3>1 DEF Choose, StartDashboard, TypeOK, DashboardTypeOK
    <3> QED
      BY <2>2, <3>1, <3>2 DEF Choose, StartDashboard, ForgetCounts, ThreadFrame, Goto,
         TypeOK, DashboardTypeOK
  <2> QED
    BY <1>1, <2>1, <2>2 DEF Menu, ChooseSingle, ChooseSweep
<1>2. CASE Conduct
  <2>1. CASE ResetMetrics
    BY <2>1 DEF TypeOK, DashboardTypeOK, ResetMetrics, ForgetCounts, ThreadFrame, Goto, webVars
  <2>2. CASE StopSweepBoard \/ DropSenders
    BY <2>2 DEF TypeOK, DashboardTypeOK, StopSweepBoard, DropSenders, ClearFlag, ThreadFrame, CountFrame,
       Goto, webVars, Joined
  <2>3. CASE JoinSweepBoard \/ LaunchFails \/ ExportSummary
    BY <2>3 DEF TypeOK, DashboardTypeOK, JoinSweepBoard, LaunchFails, ExportSummary, LeaveExperiment,
       LeaveAfter, BackToMenu, ForgetCounts, CountFrame, Goto, boardVars, webVars
  <2>4. CASE Launch \/ StopRun
    BY <2>4 DEF TypeOK, DashboardTypeOK, Launch, StopRun, CountFrame, Goto, boardVars, webVars, Thread, Roles
  <2>5. CASE \E role \in Joined : JoinThread(role)
    BY <2>5 DEF TypeOK, DashboardTypeOK, JoinThread, NextJoin, Joined, ThreadFrame, CountFrame, Goto, boardVars,
       webVars
  <2>6. CASE JoinRenderer \/ ExportDetails
    BY <2>6 DEF TypeOK, DashboardTypeOK, JoinRenderer, ExportDetails, ThreadFrame, CountFrame, Goto, boardVars,
       webVars
  <2> QED
    BY <1>2, <2>1, <2>2, <2>3, <2>4, <2>5, <2>6 DEF Conduct
<1>3. ASSUME NEW t \in threads, Work(t) PROVE TypeInv'
  <2>1. PICK missed \in BOOLEAN :
          /\ metrics' = Tally(metrics, t.role, missed)
          /\ own' = IF OfThisRun(t) THEN Tally(own, t.role, missed) ELSE own
    BY <1>3 DEF Work
  <2>2. metrics' \in MetricsRecord /\ own' \in MetricsRecord
    BY <1>3, <2>1, TallyFields DEF Work, TypeOK, DashboardTypeOK
  <2>3. stray' \in Nat
    BY <1>3 DEF Work, TypeOK
  <2> QED
    BY <1>3, <2>2, <2>3 DEF Work, TypeOK, DashboardTypeOK, ThreadFrame, webVars
<1>4. ASSUME NEW t \in threads, End(t) PROVE TypeInv'
  BY <1>4 DEF End, TypeOK, DashboardTypeOK, CountFrame, boardVars, webVars
<1>5. ASSUME NEW b \in Boards, OnBoard(Render(b)) PROVE TypeInv'
  BY <1>5 DEF OnBoard, Render, RenderTick, RenderPage, RenderExit, mainVars, webVars,
     TypeOK, DashboardTypeOK
<1>6. ASSUME NEW b \in Boards, OnBoard(Serve(b)) PROVE TypeInv'
  BY <1>6 DEF OnBoard, Serve, Accept, NobodyAsked, mainVars, renderVars, TypeOK,
     DashboardTypeOK
<1>7. ASSUME NEW c \in Clients, NEW b \in Boards, OnBoard(Connect(c, b)) PROVE TypeInv'
  <2>1. [at |-> b, since |-> board] \in [at : 0..MaxBoards, since : 0..MaxBoards]
    BY DEF TypeOK, DashboardTypeOK, Boards
  <2> QED
    BY <1>7, <2>1 DEF OnBoard, Connect, mainVars, renderVars, TypeOK, DashboardTypeOK
<1>8. CASE UNCHANGED vars
  BY <1>8 DEF vars, boardVars, webVars, mainVars, TypeOK, DashboardTypeOK
<1> QED
  BY <1>1, <1>2, <1>3, <1>4, <1>5, <1>6, <1>7, <1>8 DEF Next, InThread

-------------------------------------------------------------------------------
(* The flags of the dashboards *)

(* Main is at a place where the dashboard it has started is to run. *)
BoardWanted ==
  /\ mPc \notin {"menu", "joinBoard"}
  /\ mode = "single" => mPc \notin {"sensor", "processor", "render", "details", "summary"}

(* A flag is set only on the dashboard that main works with, and on those of *)
(* runs that could not be launched.                                          *)
FlagInv == \A b \in Boards : flag[b] => b \in failed \/ (b = board /\ BoardWanted)

(* A sweep and a single run take different ways. *)
ModeInv ==
  /\ mPc \in {"reset", "stopBoard", "joinBoard"} => mode = "sweep"
  /\ mPc \in {"menu", "render"} => mode = "single"

(* Every step keeps FlagInv and ModeInv. *)
LEMMA FlagStep ==
  ASSUME TypeInv, FlagInv, ModeInv, [Next]_vars
  PROVE  FlagInv' /\ ModeInv'
<1>1. CASE Menu
  <2>1. CASE ChooseExit
    BY <2>1 DEF ChooseExit, boardVars, CountFrame, Goto, FlagInv, BoardWanted, ModeInv
  <2>2. ASSUME Choose("single", "launch") \/ Choose("sweep", "reset")
        PROVE  FlagInv' /\ ModeInv'
    BY <2>2 DEF Choose, StartDashboard, ForgetCounts, Goto, FlagInv, BoardWanted, ModeInv,
       TypeInv, TypeOK, DashboardTypeOK
  <2> QED
    BY <1>1, <2>1, <2>2 DEF Menu, ChooseSingle, ChooseSweep
<1>2. CASE Conduct
  <2>1. CASE ResetMetrics \/ JoinSweepBoard \/ Launch \/ StopRun \/ JoinRenderer \/ ExportDetails
    BY <2>1 DEF ResetMetrics, JoinSweepBoard, Launch, StopRun, JoinRenderer, ExportDetails,
       BackToMenu, ForgetCounts, CountFrame, ThreadFrame, Goto, boardVars, FlagInv, BoardWanted, ModeInv
  <2>2. CASE StopSweepBoard
    BY <2>2 DEF StopSweepBoard, ClearFlag, CountFrame, ThreadFrame, Goto, FlagInv, BoardWanted,
       ModeInv, TypeInv, TypeOK, DashboardTypeOK
  <2>3. CASE DropSenders
    BY <2>3 DEF DropSenders, ClearFlag, CountFrame, Goto, FlagInv, BoardWanted,
       ModeInv, TypeInv, TypeOK, DashboardTypeOK
  <2>4. CASE LaunchFails
    BY <2>4 DEF LaunchFails, LeaveExperiment, LeaveAfter, BackToMenu, Goto, boardVars,
       FlagInv, BoardWanted, ModeInv
  <2>5. CASE ExportSummary
    BY <2>5 DEF ExportSummary, LeaveExperiment, LeaveAfter, BackToMenu, ForgetCounts, Goto,
       boardVars, FlagInv, BoardWanted, ModeInv
  <2>6. ASSUME NEW role \in Joined, JoinThread(role) PROVE FlagInv' /\ ModeInv'
    BY <2>6 DEF JoinThread, NextJoin, Joined, CountFrame, ThreadFrame, Goto, boardVars, FlagInv,
       BoardWanted, ModeInv, TypeInv, TypeOK
  <2> QED
    BY <1>2, <2>1, <2>2, <2>3, <2>4, <2>5, <2>6 DEF Conduct
<1>3. CASE UNCHANGED <<board, flag, mPc, mode, failed>>
  BY <1>3 DEF FlagInv, BoardWanted, ModeInv
<1>4. ASSUME NEW t \in threads, Work(t) \/ End(t) PROVE UNCHANGED <<board, flag, mPc, mode, failed>>
  BY <1>4 DEF Work, End, boardVars, CountFrame
<1>5. ASSUME NEW b \in Boards, OnBoard(Render(b)) \/ OnBoard(Serve(b))
      PROVE  UNCHANGED <<board, flag, mPc, mode, failed>>
  BY <1>5 DEF OnBoard, Render, RenderTick, RenderPage, RenderExit, Serve, Accept, mainVars
<1>6. ASSUME NEW c \in Clients, NEW b \in Boards, OnBoard(Connect(c, b))
      PROVE  UNCHANGED <<board, flag, mPc, mode, failed>>
  BY <1>6 DEF OnBoard, Connect, mainVars
<1>7. UNCHANGED vars => UNCHANGED <<board, flag, mPc, mode, failed>>
  BY DEF vars, boardVars, mainVars
<1> QED
  BY <1>1, <1>2, <1>3, <1>4, <1>5, <1>6, <1>7 DEF Next, InThread

-------------------------------------------------------------------------------
(* The browsers *)

(* Nobody connects before a dashboard is there. *)
ClientInv == \A c \in Clients : client[c].since <= board

(* What a step does to the browsers and to the boards they know. *)
LEMMA ClientSteps ==
  ASSUME [Next]_vars
  PROVE  \/ UNCHANGED client
         \/ \E b \in Boards : Serve(b)
         \/ \E c \in Clients, b \in Boards : Connect(c, b)
<1>1. CASE Menu
  BY <1>1 DEF Menu, ChooseSingle, ChooseSweep, ChooseExit, Choose, StartDashboard, boardVars,
     webVars
<1>2. CASE Conduct
  BY <1>2 DEF Conduct, ResetMetrics, StopSweepBoard, JoinSweepBoard, Launch,
     LaunchFails, StopRun, DropSenders, JoinThread, JoinRenderer, ExportDetails,
     ExportSummary, boardVars, webVars
<1>3. CASE \E t \in threads : InThread(Work(t)) \/ InThread(End(t))
  BY <1>3 DEF InThread, Work, End, boardVars, webVars
<1>4. CASE \E b \in Boards : OnBoard(Render(b)) \/ OnBoard(Serve(b))
  BY <1>4 DEF OnBoard, Render, RenderTick, RenderPage, RenderExit, webVars
<1>5. CASE \E c \in Clients, b \in Boards : OnBoard(Connect(c, b))
  BY <1>5 DEF OnBoard
<1>6. CASE UNCHANGED vars
  BY <1>6 DEF vars, boardVars, webVars
<1> QED
  BY <1>1, <1>2, <1>3, <1>4, <1>5, <1>6 DEF Next

(* Every step keeps ClientInv. *)
LEMMA ClientStep ==
  ASSUME TypeInv, ClientInv, [Next]_vars
  PROVE  ClientInv'
<1>1. board \in Nat /\ client \in [Clients -> [at : 0..MaxBoards, since : 0..MaxBoards]]
  BY DEF TypeInv, TypeOK, DashboardTypeOK
<1>2. board' = board \/ board' = board + 1
  BY RenderSteps DEF StartDashboard, RenderTick, RenderPage, RenderExit
<1>3. \A c \in Clients : client'[c].since = client[c].since \/ client'[c].since = 0
                         \/ client'[c].since = board
  BY <1>1, ClientSteps DEF Serve, Accept, Connect, NobodyAsked
<1>4. \A c \in Clients : client[c].since \in Nat
  BY <1>1
<1> QED
  BY <1>1, <1>2, <1>3, <1>4 DEF ClientInv

-------------------------------------------------------------------------------
(* The threads and what they count *)

(* A sensor or processor belongs to the experiment under way, and is gone as *)
(* soon as main has joined its kind.                                         *)
ThreadInv ==
  \A t \in threads : t.role \in Joined =>
    /\ t.level = level
    /\ mPc \in {"sleep", "drop", "sensor", "processor"}
    /\ t.role = "sensor" => mPc # "processor"

(* Every step keeps ThreadInv. *)
LEMMA ThreadStep ==
  ASSUME TypeInv, ThreadInv, [Next]_vars
  PROVE  ThreadInv'
<1>1. CASE Menu
  BY <1>1 DEF Menu, ChooseSingle, ChooseSweep, ChooseExit, Choose, ThreadFrame, Goto, ThreadInv
<1>2. CASE Conduct
  <2>1. CASE ResetMetrics \/ StopSweepBoard \/ JoinSweepBoard \/ LaunchFails \/ StopRun
             \/ DropSenders \/ JoinRenderer \/ ExportDetails \/ ExportSummary
    BY <2>1 DEF ResetMetrics, StopSweepBoard, JoinSweepBoard, LaunchFails, StopRun,
       DropSenders, JoinRenderer, ExportDetails, ExportSummary, LeaveExperiment, LeaveAfter,
       BackToMenu, ThreadFrame, Goto, ThreadInv
  <2>2. CASE Launch
    BY <2>2 DEF Launch, Goto, ThreadInv
  <2>3. ASSUME NEW role \in Joined, JoinThread(role) PROVE ThreadInv'
    <3>1. [level |-> level, role |-> role] \notin threads /\ mPc = role
          /\ mPc' = NextJoin(role) /\ UNCHANGED <<level, threads>>
      BY <2>3 DEF JoinThread, Lives, ThreadFrame, Goto
    <3>2. \A t \in threads : t.role \in Joined => t.role # role
      BY <3>1 DEF ThreadInv, TypeInv, TypeOK, Thread
    <3> QED
      BY <3>1, <3>2 DEF ThreadInv, NextJoin, Joined
  <2> QED
    BY <1>2, <2>1, <2>2, <2>3 DEF Conduct
<1>3. ASSUME NEW t \in threads, Work(t) \/ End(t) PROVE ThreadInv'
  BY <1>3 DEF Work, End, ThreadFrame, ThreadInv
<1>4. ASSUME NEW b \in Boards, OnBoard(Render(b)) \/ OnBoard(Serve(b)) PROVE ThreadInv'
  BY <1>4 DEF OnBoard, mainVars, ThreadInv
<1>5. ASSUME NEW c \in Clients, NEW b \in Boards, OnBoard(Connect(c, b)) PROVE ThreadInv'
  BY <1>5 DEF OnBoard, mainVars, ThreadInv
<1>6. CASE UNCHANGED vars
  BY <1>6 DEF vars, mainVars, ThreadInv
<1> QED
  BY <1>1, <1>2, <1>3, <1>4, <1>5, <1>6 DEF Next, InThread

(* The Metrics and the histories that are about them. *)
Belongs ==
  /\ metrics.total_cycles = own.total_cycles
  /\ \A c \in Component \ {"actuator"} : metrics.miss[c] = own.miss[c]
  /\ metrics.miss["actuator"] = own.miss["actuator"] + stray

Agree ==
  /\ metrics.total_cycles = details.total_cycles
  /\ \A c \in Component \ {"actuator"} : metrics.miss[c] = details.miss[c]
  /\ metrics.deadline_miss - details.deadline_miss
       = metrics.miss["actuator"] - details.miss["actuator"]

CountInv ==
  /\ mPc = "launch" \/ InRun => Belongs
  /\ mPc = "summary" => Agree
  /\ metrics.deadline_miss = ShownMisses(metrics)

countVars == <<metrics, own, stray, details>>

(* A thread at work keeps CountInv. *)
LEMMA WorkKeepsCounts ==
  ASSUME TypeInv, ThreadInv, CountInv, NEW t \in threads, Work(t)
  PROVE  CountInv'
<1>1. PICK missed \in BOOLEAN :
        /\ Tally(metrics, t.role, missed) # metrics
        /\ metrics' = Tally(metrics, t.role, missed)
        /\ own' = IF OfThisRun(t) THEN Tally(own, t.role, missed) ELSE own
  BY DEF Work
<1>2. /\ t.role \in Component
      /\ stray' = IF OfThisRun(t) THEN stray ELSE stray + 1
      /\ UNCHANGED <<mPc, level, details>>
  BY DEF Work
<1>3. metrics \in MetricsRecord /\ own \in MetricsRecord /\ details \in MetricsRecord
      /\ stray \in Nat
  BY DEF TypeInv, TypeOK, DashboardTypeOK
<1>4. /\ metrics' \in MetricsRecord
      /\ metrics'.miss = IF missed THEN [metrics.miss EXCEPT ![t.role] = @ + 1]
                         ELSE metrics.miss
      /\ metrics'.deadline_miss = metrics.deadline_miss + (IF missed THEN 1 ELSE 0)
      /\ metrics'.total_cycles
           = metrics.total_cycles + (IF t.role = "processor" THEN 1 ELSE 0)
  BY <1>1, <1>2, <1>3, TallyFields
<1>5. OfThisRun(t) =>
      /\ own' \in MetricsRecord
      /\ own'.miss = IF missed THEN [own.miss EXCEPT ![t.role] = @ + 1] ELSE own.miss
      /\ own'.total_cycles = own.total_cycles + (IF t.role = "processor" THEN 1 ELSE 0)
  BY <1>1, <1>2, <1>3, TallyFields
<1>6. /\ metrics.miss \in [Component -> Nat] /\ own.miss \in [Component -> Nat]
      /\ details.miss \in [Component -> Nat]
      /\ metrics.total_cycles \in Nat /\ own.total_cycles \in Nat
      /\ metrics.deadline_miss \in Nat /\ details.deadline_miss \in Nat
  BY <1>3 DEF MetricsRecord
<1>7. InRun' = InRun
  BY <1>2 DEF InRun
<1>8. metrics'.deadline_miss = ShownMisses(metrics')
  <2>1. metrics.deadline_miss = ShownMisses(metrics)
    BY DEF CountInv
  <2>2. t.role = "sensor" \/ t.role = "processor" \/ t.role = "actuator"
    BY <1>2 DEF Component
  <2> QED
    BY <1>4, <1>6, <2>1, <2>2 DEF ShownMisses, Component
<1>9. t.role # "actuator" => OfThisRun(t) /\ mPc # "summary" /\ mPc # "launch"
  BY <1>2 DEF ThreadInv, OfThisRun, InRun, Joined, Component
<1>10. t.role = "actuator" => missed /\ metrics'.total_cycles = metrics.total_cycles
  <2>1. t.role = "actuator" /\ ~missed => Tally(metrics, t.role, missed) = metrics
    BY DEF Tally
  <2> QED
    BY <1>1, <1>4, <1>6, <2>1
<1>11. mPc = "launch" \/ InRun => Belongs'
  <2> SUFFICES ASSUME mPc = "launch" \/ InRun PROVE Belongs'
    OBVIOUS
  <2>1. Belongs
    BY DEF CountInv
  <2>2. CASE OfThisRun(t)
    BY <1>2, <1>3, <1>4, <1>5, <1>6, <2>1, <2>2 DEF Belongs, Component
  <2>3. CASE ~OfThisRun(t)
    <3>1. t.role = "actuator" /\ missed /\ own' = own /\ stray' = stray + 1
      BY <1>1, <1>2, <1>9, <1>10, <2>3
    <3>2. metrics'.miss = [metrics.miss EXCEPT !["actuator"] = @ + 1]
      BY <1>4, <3>1
    <3> QED
      BY <1>3, <1>6, <1>10, <2>1, <3>1, <3>2 DEF Belongs, Component
  <2> QED
    BY <2>2, <2>3
<1>12. mPc = "summary" => Agree'
  <2> SUFFICES ASSUME mPc = "summary" PROVE Agree'
    OBVIOUS
  <2>1. Agree
    BY DEF CountInv
  <2>2. t.role = "actuator" /\ missed
    BY <1>9, <1>10
  <2>3. metrics'.miss = [metrics.miss EXCEPT !["actuator"] = @ + 1]
        /\ metrics'.deadline_miss = metrics.deadline_miss + 1
    BY <1>4, <2>2
  <2> QED
    BY <1>2, <1>6, <1>10, <2>1, <2>2, <2>3 DEF Agree, Component
<1> QED
  BY <1>2, <1>7, <1>8, <1>11, <1>12 DEF CountInv

(* Freshly reset counters agree with an empty history. *)
LEMMA FreshCounts ==
  ASSUME metrics' = DefaultMetrics, own' = DefaultMetrics, stray' = 0,
         mPc' # "summary"
  PROVE  CountInv'
  BY DEF DefaultMetrics, Component, CountInv, Belongs, ShownMisses

(* Every step keeps CountInv. *)
LEMMA CountStep ==
  ASSUME TypeInv, ThreadInv, CountInv, [Next]_vars
  PROVE  CountInv'
<1>1. CASE Menu
  <2>1. CASE ChooseExit
    BY <2>1 DEF ChooseExit, boardVars, CountFrame, Goto, CountInv, InRun, Joined, Belongs, Agree
  <2>2. ASSUME Choose("single", "launch") \/ Choose("sweep", "reset") PROVE CountInv'
    BY <2>2, FreshCounts DEF Choose, StartDashboard, ForgetCounts, Goto
  <2> QED
    BY <1>1, <2>1, <2>2 DEF Menu, ChooseSingle, ChooseSweep
<1>2. CASE Conduct
  <2>1. CASE ResetMetrics
    BY <2>1, FreshCounts DEF ResetMetrics, ForgetCounts, Goto
  <2>2. CASE StopSweepBoard \/ JoinSweepBoard
    BY <2>2 DEF StopSweepBoard, JoinSweepBoard, BackToMenu, Goto, boardVars, CountFrame,
       CountInv, InRun, Joined
  <2>3. CASE LaunchFails \/ ExportSummary
    BY <2>3 DEF LaunchFails, ExportSummary, LeaveExperiment, LeaveAfter, BackToMenu, Goto,
       boardVars, CountInv, InRun, Joined
  <2>4. CASE Launch \/ StopRun \/ DropSenders \/ JoinRenderer
    BY <2>4 DEF Launch, StopRun, DropSenders, JoinRenderer, Goto, boardVars, CountFrame,
       CountInv, InRun, Joined, Belongs
  <2>5. ASSUME NEW role \in Joined, JoinThread(role) PROVE CountInv'
    BY <2>5 DEF JoinThread, NextJoin, Joined, Goto, boardVars, CountFrame, CountInv, InRun,
       Belongs
  <2>6. CASE ExportDetails
    <3>1. metrics \in MetricsRecord
      BY DEF TypeInv, TypeOK, DashboardTypeOK
    <3>2. details' = metrics /\ UNCHANGED <<metrics, own, stray>> /\ mPc = "details"
          /\ mPc' = "summary"
      BY <2>6 DEF ExportDetails, Goto, boardVars
    <3>3. metrics.deadline_miss \in Nat /\ metrics.miss \in [Component -> Nat]
      BY <3>1 DEF MetricsRecord
    <3> QED
      BY <3>2, <3>3 DEF CountInv, InRun, Belongs, Agree, Component
  <2> QED
    BY <1>2, <2>1, <2>2, <2>3, <2>4, <2>5, <2>6 DEF Conduct
<1>3. CASE UNCHANGED <<mPc, countVars>>
  BY <1>3 DEF countVars, CountInv, InRun, Belongs, Agree
<1>4. ASSUME NEW t \in threads, End(t) PROVE UNCHANGED <<mPc, countVars>>
  BY <1>4 DEF End, boardVars, CountFrame, countVars
<1>5. ASSUME NEW b \in Boards, OnBoard(Render(b)) \/ OnBoard(Serve(b))
      PROVE  UNCHANGED <<mPc, countVars>>
  BY <1>5 DEF OnBoard, Render, RenderTick, RenderPage, RenderExit, Serve, Accept, mainVars,
     countVars
<1>6. ASSUME NEW c \in Clients, NEW b \in Boards, OnBoard(Connect(c, b))
      PROVE  UNCHANGED <<mPc, countVars>>
  BY <1>6 DEF OnBoard, Connect, mainVars, countVars
<1>7. UNCHANGED vars => UNCHANGED <<mPc, countVars>>
  BY DEF vars, boardVars, mainVars, countVars
<1> QED
  BY <1>1, <1>2, <1>3, <1>4, <1>5, <1>6, <1>7, WorkKeepsCounts DEF Next, InThread

-------------------------------------------------------------------------------
(* Theorems *)

IInv == /\ RenderInv /\ TypeInv /\ FlagInv /\ ModeInv /\ ClientInv
        /\ ThreadInv /\ CountInv

(* IInv is an invariant: main's place, the flags, the threads that are alive  *)
(* and the counters always fit together.                                      *)
THEOREM Invariance == Spec => []IInv
<1>1. Init => IInv
  <2> SUFFICES ASSUME Init PROVE IInv
    OBVIOUS
  <2>1. FlagInv /\ ModeInv /\ ThreadInv
    BY DEF Init, DashboardInit, FlagInv, ModeInv, ThreadInv
  <2>2. CountInv
    BY DEF Init, DashboardInit, CountInv, InRun, Joined, ShownMisses, DefaultMetrics, Component
  <2>3. ClientInv
    BY DEF Init, DashboardInit, ClientInv, NobodyAsked
  <2> QED
    BY <2>1, <2>2, <2>3, RenderInitInv, InitType DEF IInv
<1>2. IInv /\ [Next]_vars => IInv'
  <2> SUFFICES ASSUME IInv, [Next]_vars PROVE IInv'
    OBVIOUS
  <2>1. metrics \in MetricsRecord
    BY DEF IInv, TypeInv, TypeOK, DashboardTypeOK
  <2>2. RenderInv'
    BY <2>1, RenderStepInv DEF IInv
  <2>3. TypeInv'
    BY <2>2, TypeStep DEF IInv, RenderInv
  <2> QED
    BY <2>2, <2>3, FlagStep, ClientStep, ThreadStep, CountStep DEF IInv
<1> QED
  BY <1>1, <1>2, PTL DEF Spec

(* Every reachable state of the experiments and their dashboards is well typed. *)
THEOREM TypeCorrect == Spec => []TypeOK
<1>1. IInv => TypeOK
  BY DEF IInv, TypeInv
<1> QED
  BY <1>1, Invariance, PTL

(* A handler never gets the empty page, and a tick of a resting renderer sees *)
(* the cycles that its page shows (dashboard.rs:88-134, 343-345).             *)
THEOREM RestingAnswers == Spec => []AnswersAreRecent
<1>1. ASSUME IInv PROVE AnswersAreRecent
  <2> SUFFICES ASSUME NEW b \in Boards
               PROVE  /\ Answer(b) # NoPage
                      /\ rPc[b] = "render" /\ ~active[b] =>
                           Answer(b).total_cycles = seen[b].total_cycles
    BY DEF AnswersAreRecent
  <2>1. RenderType /\ RenderOK(b) /\ metrics \in MetricsRecord
    BY <1>1 DEF IInv, RenderInv, TypeInv, TypeOK, DashboardTypeOK
  <2>2. CASE active[b]
    <3>1. Answer(b) \in Page
      BY <2>1, <2>2, DefaultIsMetrics, PageFacts DEF Answer, Live
    <3> QED
      BY <2>2, <3>1, NoPageIsNone
  <2>3. CASE ~active[b]
    <3>1. idleTicks[b] > 0
      BY <2>1, <2>3, DashboardAssumption DEF RenderOK, RenderType
    <3>2. cached[b] \in Page /\ cached[b].total_cycles = lastTotal[b]
      BY <2>1, <2>3, <3>1 DEF RenderOK
    <3> QED
      BY <2>1, <2>3, <3>1, <3>2, NoPageIsNone DEF RenderOK, Answer
  <2> QED
    BY <2>2, <2>3
<1> QED
  BY <1>1, Invariance, PTL

(* What the threads of two experiments count does not mix, but for detached   *)
(* actuators (main.rs:195-199).                                               *)
THEOREM MetricsOfOneRun == Spec => []MetricsBelongToRun
<1>1. IInv => MetricsBelongToRun
  BY DEF IInv, CountInv, Belongs, MetricsBelongToRun
<1> QED
  BY <1>1, Invariance, PTL

(* The two exports agree on all that the joined threads count                 *)
(* (export.rs:213-216).                                                       *)
THEOREM ExportsOfOneRun == Spec => []ExportsAgree
<1>1. IInv => ExportsAgree
  BY DEF IInv, CountInv, Agree, ExportsAgree
<1> QED
  BY <1>1, Invariance, PTL

(* Only a dashboard that nobody told to stop can answer for an earlier        *)
(* experiment (dashboard.rs:256-259).                                         *)
THEOREM AnswersAreCurrent == Spec => NoAnswerFromThePast
<1> DEFINE Fresh(c) == LET at == client[c].at IN
                       at # 0 /\ client'[c].at = 0 /\ server'[at] = "accept"
                         => at >= client[c].since \/ at \in failed
<1>1. ASSUME IInv, [Next]_vars PROVE [\A c \in Clients : Fresh(c)]_vars
  <2>1. ASSUME UNCHANGED client PROVE \A c \in Clients : Fresh(c)
    BY <2>1
  <2>2. ASSUME NEW b \in Boards, Serve(b) PROVE \A c \in Clients : Fresh(c)
    <3> SUFFICES ASSUME NEW c \in Clients, client[c].at # 0, client'[c].at = 0,
                        server'[client[c].at] = "accept"
                 PROVE  client[c].at >= client[c].since \/ client[c].at \in failed
      OBVIOUS
    <3>1. client \in [Clients -> [at : 0..MaxBoards, since : 0..MaxBoards]]
          /\ server \in [Boards -> {"none", "accept", "gone"}] /\ board \in 0..MaxBoards
      BY <1>1 DEF IInv, TypeInv, TypeOK, DashboardTypeOK
    <3>2. client[c].at = b
      BY <2>2, <3>1 DEF Serve, Accept, Queued
    <3>3. flag[b]
      BY <2>2, <3>1, <3>2 DEF Serve, Accept
    <3>4. b \in failed \/ b = board
      BY <1>1, <3>3 DEF IInv, FlagInv
    <3> QED
      BY <1>1, <3>2, <3>4 DEF IInv, ClientInv
  <2>3. ASSUME NEW c \in Clients, NEW b \in Boards, Connect(c, b)
        PROVE  \A d \in Clients : Fresh(d)
    BY <2>3, <1>1 DEF Connect, NobodyAsked, Boards, IInv, TypeInv, TypeOK, DashboardTypeOK
  <2> QED
    BY <1>1, <2>1, <2>2, <2>3, ClientSteps
<1> QED
  BY <1>1, Invariance, PTL DEF Spec, NoAnswerFromThePast

=============================================================================
