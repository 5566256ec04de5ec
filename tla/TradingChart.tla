----------------------------- MODULE TradingChart -----------------------------
(***************************************************************************)
(* The chart of the trading screen: TradingPresenter on the main thread    *)
(* and the workers of its ChartCoordinator.  Each change of the selection  *)
(* cancels the token of the worker before, lets go of its stream and       *)
(* starts another worker; nothing waits for the old one.                   *)
(*                                                                         *)
(* Of the synchronisation and of the history only the time they take and   *)
(* their failure are kept: MarketDataSync has the first, and the second is *)
(* what the chart draws.                                                   *)
(***************************************************************************)
EXTENDS LiveStreamService

CONSTANTS
  Loaders,       \* pool threads (a bound on workers in flight)
  FirstMarkets   \* bound: what the screens may have selected when they open

ASSUME FirstAssumption == FirstMarkets \subseteq Keys

VARIABLES
  chart,         \* _active_symbol and _active_interval
  live,          \* _chart_live_requested
  loading,       \* loading[l]: the worker on thread l
  status,        \* history: what the newest worker reported
  chartSlipped   \* history: a worker was cancelled between its last look at
                 \* its token and its call of subscribe

chartVars == <<chart, live, loading, status, chartSlipped>>

Idle(market) == [step |-> "idle", market |-> market, live |-> FALSE, cancelled |-> FALSE]

AtSubscribe == \E l \in Loaders : loading[l].step = "subscribe"

(* _run: history only, or a synchronisation first.                         *)
Load(market, goLive) ==
  [step |-> IF goLive THEN "sync" ELSE "history", market |-> market,
   live |-> goLive, cancelled |-> FALSE]

(* The token before is cancelled, and a worker gets a new one.             *)
NewLoad(l, market, goLive) ==
  /\ loading[l].step = "idle"
  /\ loading' = [k \in Loaders |->
                   IF k = l THEN Load(market, goLive)
                   ELSE [loading[k] EXCEPT !.cancelled = TRUE]]
  /\ status' = "none"
  /\ chartSlipped' = AtSubscribe

(* The constructor; TRADING_CHART_AUTOSTART_ENABLED makes it live.         *)
ChartInit ==
  /\ chart \in FirstMarkets
  /\ live \in BOOLEAN
  /\ LET l == CHOOSE k \in Loaders : TRUE
     IN  loading = [k \in Loaders |-> IF k = l THEN Load(chart, live) ELSE Idle(chart)]
  /\ status = "none"
  /\ chartSlipped = FALSE

-----------------------------------------------------------------------------
(* _on_symbol_change_requested, _on_timeframe_changed, _restart_chart.     *)
ChangeChart(l, market) ==
  /\ market # chart /\ (market[1] = chart[1] \/ market[2] = chart[2])
  /\ chart' = market
  /\ NewLoad(l, market, live)
  /\ IF live THEN Release("trading") ELSE UNCHANGED serviceVars
  /\ UNCHANGED live

(* _go_live_if_not_already, when enabling trading has succeeded.           *)
GoLive(l) ==
  /\ ~live
  /\ live' = TRUE
  /\ NewLoad(l, chart, TRUE)
  /\ UNCHANGED <<chart, serviceVars>>

-----------------------------------------------------------------------------
(* A worker. *)

Goes(l, step) == loading' = [loading EXCEPT ![l].step = step]

(* SyncMarketDataCommand, and the token.                                   *)
SyncChart(l) ==
  /\ loading[l].step = "sync"
  /\ Goes(l, IF loading[l].cancelled THEN "idle" ELSE "history")
  /\ UNCHANGED <<chart, live, status, chartSlipped, serviceVars>>

(* Mutant: the token is not looked at after the history.                   *)
UncheckedHistory(l) ==
  /\ loading[l].step = "history"
  /\ Goes(l, IF loading[l].live THEN "subscribe" ELSE "idle")
  /\ UNCHANGED <<chart, live, status, chartSlipped, serviceVars>>

(* _load_history, and the token.                                           *)
LoadHistory(l) ==
  /\ loading[l].step = "history"
  /\ Goes(l, IF loading[l].cancelled \/ ~loading[l].live THEN "idle" ELSE "subscribe")
  /\ UNCHANGED <<chart, live, status, chartSlipped, serviceVars>>

Report(l, message) == status' = IF loading[l].cancelled THEN status ELSE message

(* _start_stream                                                           *)
StartStream(l) ==
  /\ loading[l].step = "subscribe"
  /\ Subscribe("trading", loading[l].market)
  /\ Goes(l, "idle")
  /\ Report(l, "streaming")
  /\ UNCHANGED <<chart, live, chartSlipped>>

(* An exception of one of the calls before.                                *)
LoadFails(l) ==
  /\ loading[l].step \in {"sync", "history"}
  /\ Goes(l, "idle")
  /\ Report(l, "failed")
  /\ UNCHANGED <<chart, live, chartSlipped, serviceVars>>

LoaderStep(l) == SyncChart(l) \/ LoadHistory(l) \/ StartStream(l) \/ LoadFails(l)

-----------------------------------------------------------------------------
ChartTypeOK ==
  /\ chart \in Keys
  /\ live \in BOOLEAN
  /\ loading \in [Loaders -> [step : {"idle", "sync", "history", "subscribe"},
                              market : Keys, live : BOOLEAN, cancelled : BOOLEAN]]
  /\ status \in {"none", "streaming", "failed"}
  /\ chartSlipped \in BOOLEAN
=============================================================================
