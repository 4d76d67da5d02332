---------------------------- MODULE MetricsPanel -----------------------------
(***************************************************************************)
(* The metrics dialog of the chat page (webclient/public/main.js): opening *)
(* it fetches the collector's metrics and draws them with Chart.js on the  *)
(* one canvas of the dialog; closing it destroys the chart.  The user may  *)
(* open and close the dialog faster than the collector answers, so several *)
(* fetches can be under way, and their answers come in any order, also     *)
(* after the dialog was closed.                                            *)
(*                                                                         *)
(* What a chart shows is left out: a chart is the number of the fetch it   *)
(* was drawn for.  Chart.js refuses a canvas that still has a chart.       *)
(***************************************************************************)
EXTENDS Integers

CONSTANT MaxOpen   \* bound: how often the dialog is opened

ASSUME MaxOpenAssumption == MaxOpen \in Nat

VARIABLES
    open,      \* metricsModalOpen
    opened,    \* how often the dialog was opened
    ticks,     \* $nextTick callbacks that have not run
    loaded,    \* metricsLoaded
    fetched,   \* fetches begun
    inFlight,  \* the fetches under way
    chart,     \* metricsChart, 0 for null
    canvas,    \* the charts that live on the canvas
    spoilt     \* history: a fetch failed, or brought no data

vars == <<open, opened, ticks, loaded, fetched, inFlight, chart, canvas, spoilt>>

TypeOK ==
    /\ open \in BOOLEAN /\ loaded \in BOOLEAN /\ spoilt \in BOOLEAN
    /\ opened \in 0 .. MaxOpen
    /\ ticks \in Nat /\ fetched \in Nat
    /\ ticks + fetched <= opened
    /\ inFlight \subseteq 1 .. fetched
    /\ chart \in 0 .. fetched
    /\ canvas \subseteq 1 .. fetched

Init ==
    /\ open = FALSE /\ loaded = FALSE /\ spoilt = FALSE
    /\ opened = 0 /\ ticks = 0 /\ fetched = 0
    /\ inFlight = {}
    /\ chart = 0 /\ canvas = {}

-----------------------------------------------------------------------------

\* The dialog opens; the rest of the watcher waits for the next tick.
OpenPanel ==
    /\ ~open /\ opened < MaxOpen
    /\ open' = TRUE
    /\ opened' = opened + 1
    /\ ticks' = ticks + 1
    /\ UNCHANGED <<loaded, fetched, inFlight, chart, canvas, spoilt>>

\* Error seeded for the runs: the callback stays registered.
RunTickAgain ==
    /\ ticks > 0
    /\ loaded' = TRUE
    /\ IF loaded THEN UNCHANGED <<fetched, inFlight>>
       ELSE fetched' = fetched + 1 /\ inFlight' = inFlight \cup {fetched + 1}
    /\ UNCHANGED <<open, opened, ticks, chart, canvas, spoilt>>

\* The tick: fetchMetrics is called unless it was called for this opening.
\* The dialog may have been closed in the meantime.
RunTick ==
    /\ ticks > 0
    /\ ticks' = ticks - 1
    /\ loaded' = TRUE
    /\ IF loaded THEN UNCHANGED <<fetched, inFlight>>
       ELSE fetched' = fetched + 1 /\ inFlight' = inFlight \cup {fetched + 1}
    /\ UNCHANGED <<open, opened, chart, canvas, spoilt>>

\* Error seeded for the runs: the reference is dropped, the chart stays.
DropReference == chart' = 0 /\ UNCHANGED canvas

\* if (this.metricsChart) { destroy(); this.metricsChart = null }
DropChart == chart' = 0 /\ canvas' = canvas \ {chart}

\* Error seeded for the runs: metricsLoaded is not reset.
ClosePanelLoaded ==
    /\ open
    /\ open' = FALSE
    /\ DropChart
    /\ UNCHANGED <<opened, ticks, loaded, fetched, inFlight, spoilt>>

ClosePanel ==
    /\ open
    /\ open' = FALSE
    /\ loaded' = FALSE
    /\ DropChart
    /\ UNCHANGED <<opened, ticks, fetched, inFlight, spoilt>>

-----------------------------------------------------------------------------

\* fetchMetrics: no answer, or one with an error status.
FetchFails(i) ==
    /\ i \in inFlight
    /\ inFlight' = inFlight \ {i}
    /\ spoilt' = TRUE
    /\ UNCHANGED <<open, opened, ticks, loaded, fetched, chart, canvas>>

\* renderChart without data.
FetchEmpty(i) ==
    /\ i \in inFlight
    /\ inFlight' = inFlight \ {i}
    /\ spoilt' = TRUE
    /\ DropChart
    /\ UNCHANGED <<open, opened, ticks, loaded, fetched>>

\* The old chart is destroyed.  A chart that is left makes the constructor
\* throw before metricsChart is assigned.
Redraw(i) ==
    IF canvas \ {chart} = {} THEN chart' = i /\ canvas' = {i}
    ELSE chart' = chart /\ canvas' = canvas \ {chart}

\* renderChart with data.
FetchAnswers(i) ==
    /\ i \in inFlight
    /\ inFlight' = inFlight \ {i}
    /\ Redraw(i)
    /\ UNCHANGED <<open, opened, ticks, loaded, fetched, spoilt>>

FetchEnds(i) == FetchFails(i) \/ FetchEmpty(i) \/ FetchAnswers(i)

Next == \/ OpenPanel \/ RunTick \/ ClosePanel
        \/ \E i \in inFlight : FetchEnds(i)

Spec == Init /\ [][Next]_vars

\* Timers fire and every fetch ends.
Fairness == WF_vars(RunTick) /\ \A i \in 1 .. MaxOpen : WF_vars(FetchEnds(i))

FairSpec == Spec /\ Fairness

-----------------------------------------------------------------------------

\* However openings, closings and answers overlap, the canvas has no chart but
\* the one metricsChart refers to: none is leaked, and a new one can be drawn.
OneChart == canvas = (IF chart = 0 THEN {} ELSE {chart})

\* A dialog that stays open gets its chart, unless a fetch failed or brought
\* nothing: also when it was closed and opened again while a fetch was under way.
OpenShows == open ~> (chart # 0 \/ ~open \/ spoilt)

=============================================================================
