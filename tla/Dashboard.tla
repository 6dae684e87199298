------------------------------- MODULE Dashboard -------------------------------
(***************************************************************************)
(* The live dashboard (advanced/dashboard.rs).  Each call of               *)
(* start_dashboard_system makes one more of them, with a render thread, a  *)
(* web server thread and a shutdown flag; all servers share port 8080      *)
(* through SO_REUSEPORT, and the kernel picks one for each connection.     *)
(* Browsers connect when they like.                                        *)
(*                                                                         *)
(* A page is what /metrics.json shows: the misses and the number of cycles.*)
(* Its last jitter and last latency are left out: to the renderer they are *)
(* like the misses, values that may change while the cycles stand still.   *)
(* The SVG file, HTML and HTTP are left out, and so is the length of a     *)
(* tick: a sleep may take any time.  The kernel and the clients are        *)
(* external.                                                               *)
(***************************************************************************)
EXTENDS Metrics

CONSTANTS
  MaxBoards,        \* bound of the model: dashboards started
  Clients,          \* browsers that connect to port 8080
  InactivityTicks   \* INACTIVITY_TICKS (5)

ASSUME DashboardAssumption ==
  /\ MaxBoards \in Nat \ {0}
  /\ InactivityTicks \in Nat /\ InactivityTicks >= 2

Boards == 1..MaxBoards

Page      == [miss : [Component -> Nat], total_cycles : Nat]
PageOf(m) == [miss |-> m.miss, total_cycles |-> m.total_cycles]

(* The empty string of cached_json: a page that no Metrics give. *)
NoPage == [PageOf(DefaultMetrics) EXCEPT !.total_cycles = -1]

VARIABLES
  metrics,    \* the Metrics that the latest dashboard shows
  board,      \* the dashboards started so far
  flag,       \* flag[b]: the shutdown flag of b, TRUE while it is to run
  rPc,        \* rPc[b]: where the render thread is
  first,      \* its locals: no tick yet,
  lastTotal,  \*   last_total_cycles,
  idleTicks,  \*   inactivity_count
  seen,       \*   and, in a tick, its snapshot as a page
  active,     \* active[b]: renderer_active
  cached,     \* cached[b]: cached_json
  server,     \* server[b]: the web server thread
  client      \* client[c]: the server that browser c waits for, and since when

renderVars == <<rPc, first, lastTotal, idleTicks, seen, active, cached>>
webVars    == <<server, client>>
boardVars  == <<metrics, board, flag, renderVars, webVars>>

NobodyAsked == [at |-> 0, since |-> 0]

DashboardInit ==
  /\ metrics = DefaultMetrics
  /\ board = 0
  /\ flag = [b \in Boards |-> FALSE]
  /\ rPc = [b \in Boards |-> "none"]
  /\ first = [b \in Boards |-> TRUE]
  /\ lastTotal = [b \in Boards |-> 0]
  /\ idleTicks = [b \in Boards |-> 0]
  /\ seen = [b \in Boards |-> NoPage]
  /\ active = [b \in Boards |-> TRUE]
  /\ cached = [b \in Boards |-> NoPage]
  /\ server = [b \in Boards |-> "none"]
  /\ client = [c \in Clients |-> NobodyAsked]

-------------------------------------------------------------------------------
(* start_dashboard_system, called by main with a new Metrics. *)
StartDashboard ==
  /\ board < MaxBoards /\ board' = board + 1
  /\ metrics' = DefaultMetrics
  /\ flag' = [flag EXCEPT ![board'] = TRUE]
  /\ rPc' = [rPc EXCEPT ![board'] = "check"]
  /\ server' = [server EXCEPT ![board'] = "accept"]
  /\ UNCHANGED <<first, lastTotal, idleTicks, seen, active, cached, client>>

ClearFlag == flag' = [flag EXCEPT ![board] = FALSE]

-------------------------------------------------------------------------------
(* The render thread *)

(* Variant: the counter is not reset by a change. *)
InactivitySticky(b, total) ==
  CASE first[b]                          -> 0
    [] ~first[b] /\ total = lastTotal[b] -> idleTicks[b] + 1
    [] OTHER                             -> idleTicks[b]

(* inactivity_count after a tick that sees total, compared with the total of *)
(* the first tick: no later tick changes last_total_cycles.                  *)
InactivityCount(b, total) ==
  IF ~first[b] /\ total = lastTotal[b] THEN idleTicks[b] + 1 ELSE 0

AtMost(n, bound) == IF n < bound THEN n ELSE bound

(* The Metrics that b shows.  A dashboard outlives its experiment only when  *)
(* that could not be launched, and nothing was counted; or to answer the     *)
(* last requests, of which only whether they get a page matters.             *)
Live(b) == IF b = board THEN metrics ELSE DefaultMetrics

(* The loop head and the first half of a tick: the metrics are copied under *)
(* their lock, and renderer_active is set.  Only the cycles are looked at.  *)
(* Beyond the limit the counter only says "inactive", so it stops there.    *)
RenderTick(b) ==
  /\ rPc[b] = "check" /\ flag[b]
  /\ LET page == PageOf(Live(b))
         idle == AtMost(InactivityCount(b, page.total_cycles), InactivityTicks)
     IN  /\ first' = [first EXCEPT ![b] = FALSE]
         /\ lastTotal' = [lastTotal EXCEPT ![b] = IF first[b] THEN page.total_cycles ELSE @]
         /\ idleTicks' = [idleTicks EXCEPT ![b] = idle]
         /\ active' = [active EXCEPT ![b] = idle < InactivityTicks]
         /\ seen' = [seen EXCEPT ![b] = page]
  /\ rPc' = [rPc EXCEPT ![b] = "render"]
  /\ UNCHANGED <<metrics, board, flag, cached, webVars>>

(* The second half: an active renderer draws and caches what it has seen; *)
(* then it sleeps, and the snapshot ends with the tick.                   *)
RenderPage(b) ==
  /\ rPc[b] = "render"
  /\ cached' = [cached EXCEPT ![b] = IF active[b] THEN seen[b] ELSE @]
  /\ seen' = [seen EXCEPT ![b] = NoPage]
  /\ rPc' = [rPc EXCEPT ![b] = "check"]
  /\ UNCHANGED <<metrics, board, flag, first, lastTotal, idleTicks, active, webVars>>

(* The thread ends.  renderer_active and the cached page stay as they are, for *)
(* handlers that have not answered yet.                                        *)
RenderExit(b) ==
  /\ rPc[b] = "check" /\ ~flag[b]
  /\ rPc' = [rPc EXCEPT ![b] = "gone"]
  /\ UNCHANGED <<metrics, board, flag, first, lastTotal, idleTicks, seen, active, cached,
                 webVars>>

-------------------------------------------------------------------------------
(* Browsers and the web server thread *)

(* External: the kernel gives a connection to any socket that listens. *)
Connect(c, b) ==
  /\ client[c] = NobodyAsked /\ server[b] = "accept"
  /\ client' = [client EXCEPT ![c] = [at |-> b, since |-> board]]
  /\ UNCHANGED <<metrics, board, flag, renderVars, server>>

Queued(b) == {c \in Clients : client[c].at = b}

(* Variant: the connection is served before the flag is looked at. *)
AcceptAlways(b, c) ==
  /\ server[b] = "accept" /\ c \in Queued(b)
  /\ client' = [client EXCEPT ![c] = NobodyAsked]
  /\ UNCHANGED <<metrics, board, flag, renderVars, server>>

(* The accept loop takes the connection of c and only then looks at the flag: *)
(* a handler thread takes over, or the loop is left and closes its socket     *)
(* with every connection in it.                                               *)
Accept(b, c) ==
  /\ server[b] = "accept" /\ c \in Queued(b)
  /\ \/ /\ flag[b]
        /\ client' = [client EXCEPT ![c] = NobodyAsked]
        /\ UNCHANGED server
     \/ /\ ~flag[b]
        /\ server' = [server EXCEPT ![b] = "gone"]
        /\ client' = [d \in Clients |-> IF d \in Queued(b) THEN NobodyAsked ELSE client[d]]
  /\ UNCHANGED <<metrics, board, flag, renderVars>>

(* What a handler that looks at renderer_active now gets for /metrics.json:   *)
(* the live Metrics, or the cached page, where NoPage is the answer 503.  It  *)
(* changes nothing, and it may do so after the threads of b have ended.       *)
Answer(b) == IF active[b] THEN PageOf(Live(b)) ELSE cached[b]

-------------------------------------------------------------------------------
Render(b) == RenderTick(b) \/ RenderPage(b) \/ RenderExit(b)
Serve(b)  == \E c \in Clients : Accept(b, c)

-------------------------------------------------------------------------------
(* Properties *)

DashboardTypeOK ==
  /\ metrics \in MetricsRecord
  /\ board \in 0..MaxBoards
  /\ flag \in [Boards -> BOOLEAN]
  /\ rPc \in [Boards -> {"none", "check", "render", "gone"}]
  /\ first \in [Boards -> BOOLEAN] /\ active \in [Boards -> BOOLEAN]
  /\ lastTotal \in [Boards -> Nat]
  /\ idleTicks \in [Boards -> 0..InactivityTicks]
  /\ seen \in [Boards -> Page \cup {NoPage}] /\ cached \in [Boards -> Page \cup {NoPage}]
  /\ server \in [Boards -> {"none", "accept", "gone"}]
  /\ client \in [Clients -> [at : 0..MaxBoards, since : 0..MaxBoards]]

(* A resting renderer leaves a usable answer, although its test compares each  *)
(* total with that of the first tick (dashboard.rs:88-98) and the page is that *)
(* of an earlier tick (113-134).  No handler ever gets the empty page, which   *)
(* is the answer 503 (343-345); and every tick that finds or puts the renderer *)
(* at rest sees as many cycles in the live Metrics as the page shows.          *)
(* No more than this holds.  Until the next tick the Metrics move on, and the  *)
(* misses in the page stay behind for as long as the renderer rests.           *)
AnswersAreRecent ==
  \A b \in Boards :
    /\ Answer(b) # NoPage
    /\ rPc[b] = "render" /\ ~active[b] => Answer(b).total_cycles = seen[b].total_cycles

==============================================================================
