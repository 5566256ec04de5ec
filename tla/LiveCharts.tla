------------------------------ MODULE LiveCharts ------------------------------
(***************************************************************************)
(* The two screens with a live chart, over the one websocket they share:   *)
(* each asks for its own market, on its own worker threads.                *)
(***************************************************************************)
EXTENDS TradingChart, DashboardStream

CONSTANT
  MaxClicks      \* bound: what the user asks for

ASSUME ClicksAssumption == MaxClicks \in Nat

ASSUME OwnersAssumption == Owners = {"trading", "dashboard"}

VARIABLES
  clicks,        \* how much the user has asked for
  closing        \* the process is shutting down: "no", "screens", "stopped"

vars == <<serviceVars, chartVars, boardVars, clicks, closing>>

Init ==
  /\ ServiceInit
  /\ ChartInit
  /\ BoardInit
  /\ clicks = 0
  /\ closing = "no"

-----------------------------------------------------------------------------
NoClick == UNCHANGED <<clicks, closing>>

(* What the user does on the main thread, until the window is closed.      *)
Click(action) ==
  /\ closing = "no" /\ clicks < MaxClicks
  /\ clicks' = clicks + 1
  /\ action
  /\ UNCHANGED closing

ChartClick ==
  /\ \E l \in Loaders : Click(GoLive(l) \/ \E market \in Keys : ChangeChart(l, market))
  /\ UNCHANGED boardVars

BoardClick ==
  /\ Click(\/ StartBoard \/ LoadBoard \/ StopBoard
           \/ \E symbol \in Symbols : ChooseSymbol(symbol)
           \/ \E interval \in Intervals : ChangeInterval(interval))
  /\ UNCHANGED chartVars

BoardReport == TakeReport /\ UNCHANGED chartVars /\ NoClick

ChartWorks(l) == LoaderStep(l) /\ UNCHANGED boardVars /\ NoClick

BoardWorks == BoardWorker /\ UNCHANGED chartVars /\ NoClick

StreamDies(t) == Die(t) /\ UNCHANGED <<chartVars, boardVars>> /\ NoClick

StreamEnds(t) == EndCancelled(t) /\ UNCHANGED <<chartVars, boardVars>> /\ NoClick

(* MainWindow.shutdown: both presenters cancel their tokens, and the       *)
(* dashboard lets go of its ExclusiveAction ...                            *)
CloseScreens ==
  /\ closing = "no"
  /\ closing' = "screens"
  /\ loading' = [l \in Loaders |-> [loading[l] EXCEPT !.cancelled = TRUE]]
  /\ chartSlipped' = (chartSlipped \/ AtSubscribe)
  /\ worker' = WorkerCancelled
  /\ boardSlipped' = (boardSlipped \/ StandsAtSubscribe)
  /\ UNCHANGED <<chart, live, status, board, mode, reports, started, clicks, serviceVars>>

(* ... and the engine stops the service (LiveStreamEngineAdapter.stop).    *)
StopService ==
  /\ closing = "screens"
  /\ closing' = "stopped"
  /\ StopAll
  /\ UNCHANGED <<chartVars, boardVars, clicks>>

Next ==
  \/ ChartClick \/ BoardClick \/ BoardReport
  \/ \E l \in Loaders : ChartWorks(l)
  \/ BoardWorks
  \/ \E t \in Streams : StreamDies(t) \/ StreamEnds(t)
  \/ CloseScreens \/ StopService

(* The main thread takes its signals; a worker's calls return; a coroutine *)
(* that was cancelled ends.                                                *)
Fairness ==
  /\ WF_vars(BoardReport)
  /\ WF_vars(BoardWorks)
  /\ \A t \in Streams : WF_vars(StreamEnds(t))

Spec == Init /\ [][Next]_vars /\ Fairness

-----------------------------------------------------------------------------
TypeOK ==
  /\ ServiceTypeOK
  /\ ChartTypeOK
  /\ BoardTypeOK
  /\ clicks \in 0 .. MaxClicks
  /\ closing \in {"no", "screens", "stopped"}

(* Each screen holds the key it shows as live and no other: the trading    *)
(* chart the market selected (chart_coordinator.py: "live for whatever     *)
(* symbol/interval is currently selected"), the dashboard the market it    *)
(* was started for while LIVE and none while IDLE.  Left out are the two   *)
(* ways in which the code can get it wrong: a worker whose token is        *)
(* cancelled between its last look at it and subscribe, and a report of a  *)
(* superseded worker that is believed.                                     *)
SubscriptionsFollowScreens ==
  /\ ~chartSlipped =>
       subscriptions["trading"] =
         IF status = "streaming" /\ closing # "stopped" THEN {chart} ELSE {}
  /\ ~boardSlipped =>
       /\ subscriptions["dashboard"] \subseteq {started}
       /\ mode = "LIVE" /\ closing # "stopped" => subscriptions["dashboard"] # {}
       /\ mode = "IDLE" \/ closing = "stopped" => subscriptions["dashboard"] = {}

(* The dashboard does not stay LOCKED: every way out of its worker either  *)
(* reports or was the consequence of a stop that has unlocked already.     *)
LockedEnds == mode = "LOCKED" ~> mode # "LOCKED" \/ closing # "no"
=============================================================================
