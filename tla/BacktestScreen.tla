---------------------------- MODULE BacktestScreen ----------------------------
(***************************************************************************)
(* The backtest screen: BackTestPresenter with its state machine on the    *)
(* main thread, the workers it submits (ExecutionCoordinator.run and       *)
(* DataSyncCoordinator.run_sync), and the queue of signals by which they   *)
(* report.  A run whose candles are incomplete turns into a sync, which on *)
(* success turns into the run again.                                       *)
(*                                                                         *)
(* The engine is reduced to how it may end (StaticBacktest has its inside),*)
(* and a result to the action it belongs to.  Banners, logs, progress and  *)
(* the chart are left out.                                                 *)
(***************************************************************************)
EXTENDS MarketDataSync, ActionOwnership, Sequences

CONSTANTS
  Toolbars,          \* what the toolbar can be set to: [market, from]
  BacktestSync,      \* the sync worker this screen uses
  NoConfig           \* None

(* What a run is made from: start times and the gap may be missing. *)
SomeTimes == Times \cup {NoTime}
Configs == [market : Markets, from : SomeTimes, end : 0 .. MaxTime - 1]
Offers == [config : Configs, gap : SomeTimes]

ASSUME ScreenAssumption ==
  /\ BacktestSync \in SyncWorkers
  /\ Toolbars \subseteq [market : Markets, from : SomeTimes]
  /\ NoConfig \notin Offers

VARIABLES
  uiState,       \* fsm.current_state
  action,        \* _action_tracker
  cancelling,    \* _cancelling_action_id, 0 for None
  noData,        \* _last_no_data_config and the start of its coverage gap
  toolbar,       \* the view model's inputs
  lastRun,       \* _last_run_config: the toolbar the result is labelled with
  result,        \* the action whose result is shown, 0 when there is none
  tasks,         \* the workers submitted and not finished
  inbox          \* the signals queued for the main thread

screenVars == <<uiState, action, cancelling, noData, toolbar, lastRun, result,
                tasks, inbox>>

ScreenInit ==
  /\ uiState = "IDLE"
  /\ action = NoAction
  /\ cancelling = 0
  /\ noData = NoConfig
  /\ toolbar \in Toolbars
  /\ lastRun = NoConfig
  /\ result = 0
  /\ tasks = {}
  /\ inbox = << >>

-----------------------------------------------------------------------------
(* BACKTEST_STATE_TRANSITIONS. *)

Restful == {"IDLE", "COMPLETED", "CONFIG_DIRTY", "EMPTY_DATA", "ERROR"}
Busy == {"RUNNING", "CANCELLING", "SYNCING"}

Transitions ==
  {<<s, "RUN_REQUESTED", "RUNNING">> : s \in Restful} \cup
  {<<s, "SYNC_REQUESTED", "SYNCING">> : s \in Restful} \cup
  {<<s, "CANCEL_REQUESTED", "CANCELLING">> : s \in {"RUNNING", "SYNCING"}} \cup
  {<<s, "CONFIG_CHANGED", "IDLE">> : s \in {"IDLE", "EMPTY_DATA", "ERROR"}} \cup
  {<<s, "CONFIG_CHANGED", "CONFIG_DIRTY">> : s \in {"COMPLETED", "CONFIG_DIRTY"}} \cup
  {<<"CONFIG_DIRTY", "CONFIG_RESTORED", "COMPLETED">>,
   <<"RUNNING", "BACKTEST_SUCCEEDED", "COMPLETED">>,
   <<"RUNNING", "BACKTEST_EMPTY", "EMPTY_DATA">>,
   <<"RUNNING", "BACKTEST_FAILED", "ERROR">>,
   <<"CANCELLING", "BACKTEST_CANCELLED", "IDLE">>,
   <<"CANCELLING", "BACKTEST_CANCELLED_TO_CONFIG_DIRTY", "CONFIG_DIRTY">>,
   <<"CANCELLING", "BACKTEST_CANCELLED_TO_COMPLETED", "COMPLETED">>,
   <<"CANCELLING", "BACKTEST_FAILED", "IDLE">>,
   <<"SYNCING", "SYNC_SUCCEEDED", "RUNNING">>,
   <<"SYNCING", "SYNC_FAILED", "ERROR">>,
   <<"ERROR", "ERROR_DISMISSED", "IDLE">>}

CanDispatch(state, event) == \E t \in Transitions : t[1] = state /\ t[2] = event

(* An event that is not accepted leaves the state, as every caller that    *)
(* asks can_dispatch first makes it.                                       *)
After(state, event) ==
  IF CanDispatch(state, event)
  THEN (CHOOSE t \in Transitions : t[1] = state /\ t[2] = event)[3]
  ELSE state

-----------------------------------------------------------------------------
(* The main thread: starting work. *)

Task(id, kind, config, gap, auto) ==
  [id |-> id, kind |-> kind, config |-> config, gap |-> gap, auto |-> auto,
   step |-> IF kind = "BACKTEST" THEN "probe" ELSE "dispatch", cancelled |-> FALSE]

(* Mutant: the run after a sync may start another sync.                    *)
StartRunAlwaysAuto(config, tracker, previous, auto) ==
  /\ action' = BeginAction(tracker, "BACKTEST", previous)
  /\ tasks' = tasks \cup {Task(tracker.id + 1, "BACKTEST", config, NoTime, TRUE)}
  /\ cancelling' = 0

(* _start_backtest_run.                                                    *)
StartRun(config, tracker, previous, auto) ==
  /\ action' = BeginAction(tracker, "BACKTEST", previous)
  /\ tasks' = tasks \cup {Task(tracker.id + 1, "BACKTEST", config, NoTime, auto)}
  /\ cancelling' = 0

(* _start_sync_for_config.                                                 *)
StartSync(config, gap, tracker, state) ==
  IF CanDispatch(state, "SYNC_REQUESTED")
  THEN /\ uiState' = After(state, "SYNC_REQUESTED")
       /\ action' = BeginAction(tracker, "SYNC", state)
       /\ tasks' = tasks \cup {Task(tracker.id + 1, "SYNC", config, gap, FALSE)}
  ELSE /\ uiState' = state
       /\ action' = tracker
       /\ UNCHANGED tasks

(* The end of the range is fixed at the click: published_candle_cutoff.    *)
RunConfig == [market |-> toolbar.market, from |-> toolbar.from, end |-> now - 1]

(* _on_run_backtest and _start_run_after_config_save.                      *)
RunBacktest ==
  /\ CanDispatch(uiState, "RUN_REQUESTED")
  /\ uiState' = After(uiState, "RUN_REQUESTED")
  /\ StartRun(RunConfig, action, uiState, TRUE)
  /\ UNCHANGED <<noData, toolbar, lastRun, result, inbox>>

(* _on_request_sync.                                                       *)
RequestSync ==
  /\ noData # NoConfig
  /\ CanDispatch(uiState, "SYNC_REQUESTED")
  /\ StartSync(noData.config, noData.gap, action, uiState)
  /\ UNCHANGED <<cancelling, noData, toolbar, lastRun, result, inbox>>

(* An input of the toolbar, disabled while the screen is busy, and         *)
(* _on_config_input_changed.                                               *)
ChangeToolbar(inputs) ==
  /\ uiState \notin Busy
  /\ inputs # toolbar
  /\ toolbar' = inputs
  /\ uiState' = After(uiState, IF lastRun = inputs THEN "CONFIG_RESTORED"
                               ELSE "CONFIG_CHANGED")
  /\ UNCHANGED <<action, cancelling, noData, lastRun, result, tasks, inbox>>

(* Mutant: the screen comes to rest without waiting for the worker.        *)
CancelAtOnce ==
  /\ action.outcome = "PENDING"
  /\ CanDispatch(uiState, "CANCEL_REQUESTED")
  /\ cancelling' = 0
  /\ action' = InvalidateActive(action)
  /\ uiState' = "IDLE"
  /\ tasks' = {IF t.id = action.id THEN [t EXCEPT !.cancelled = TRUE] ELSE t : t \in tasks}
  /\ CancelWorkers({w \in {BacktestSync} : action.kind = "SYNC" /\ stage[w] # "idle"})
  /\ UNCHANGED <<noData, toolbar, lastRun, result, inbox>>

(* _on_cancel_backtest: the fence first, then the worker's token.          *)
CancelBacktest ==
  /\ action.outcome = "PENDING"
  /\ CanDispatch(uiState, "CANCEL_REQUESTED")
  /\ cancelling' = action.id
  /\ action' = InvalidateActive(action)
  /\ uiState' = After(uiState, "CANCEL_REQUESTED")
  /\ tasks' = {IF t.id = action.id THEN [t EXCEPT !.cancelled = TRUE] ELSE t : t \in tasks}
  /\ CancelWorkers({w \in {BacktestSync} : action.kind = "SYNC" /\ stage[w] # "idle"})
  /\ UNCHANGED <<noData, toolbar, lastRun, result, inbox>>

-----------------------------------------------------------------------------
(* The main thread: reports. *)

Report == Head(inbox)

IsCancelling(id) ==
  /\ action.id = id
  /\ action.outcome = "INVALIDATED"
  /\ cancelling = id
  /\ uiState = "CANCELLING"

RestoreEvent(previous) ==
  CASE previous = "CONFIG_DIRTY" -> "BACKTEST_CANCELLED_TO_CONFIG_DIRTY"
    [] previous = "COMPLETED"    -> "BACKTEST_CANCELLED_TO_COMPLETED"
    [] OTHER                     -> "BACKTEST_CANCELLED"

(* _complete_cancelled_action.                                             *)
CompleteCancelled ==
  /\ IsCancelling(Report.id)
  /\ action' = FinishAction(action, Report.id, "CANCELLED")
  /\ cancelling' = 0
  /\ uiState' = After(uiState, RestoreEvent(action.previous))
  /\ UNCHANGED <<noData, toolbar, lastRun, result, tasks>>

(* A report of an action that is not the current one, or not pending.      *)
IgnoreStale(kind) ==
  /\ ~IsCurrentPending(action, Report.id, kind)
  /\ UNCHANGED <<uiState, action, cancelling, noData, toolbar, lastRun, result, tasks>>

(* Mutant: a result is not fenced by the action it belongs to.             *)
ReportedUnfenced(kind, handler) ==
  /\ inbox # << >>
  /\ inbox' = Tail(inbox)
  /\ CompleteCancelled \/ handler

(* The reports that also resolve a cancellation, each of its kind.         *)
Reported(kind, handler) ==
  /\ inbox # << >>
  /\ inbox' = Tail(inbox)
  /\ \/ CompleteCancelled
     \/ ~IsCancelling(Report.id) /\ IgnoreStale(kind)
     \/ IsCurrentPending(action, Report.id, kind) /\ handler

(* _on_backtest_coverage_missing_for_action, which does not look for a     *)
(* cancellation, unlike the others.                                        *)
CoverageMissing ==
  /\ inbox # << >> /\ Report.signal = "coverage missing"
  /\ inbox' = Tail(inbox)
  /\ \/ IgnoreStale("BACKTEST")
     \/ /\ IsCurrentPending(action, Report.id, "BACKTEST")
        /\ noData' = [config |-> Report.config, gap |-> Report.gap]
        /\ LET finished == FinishAction(action, Report.id, "EMPTY")
           IN  IF Report.auto
               THEN /\ StartSync(Report.config, Report.gap, finished,
                                 After(uiState, "BACKTEST_EMPTY"))
                    /\ UNCHANGED result
               ELSE /\ uiState' = After(uiState, "BACKTEST_FAILED")
                    /\ action' = finished
                    /\ result' = 0
                    /\ UNCHANGED tasks
        /\ UNCHANGED <<cancelling, toolbar, lastRun>>

(* _on_backtest_succeeded.                                                 *)
BacktestSucceeded ==
  /\ inbox # << >> /\ Report.signal = "succeeded"
  /\ Reported("BACKTEST",
       /\ noData' = NoConfig
       /\ result' = Report.id
       /\ lastRun' = toolbar
       /\ uiState' = After(uiState, "BACKTEST_SUCCEEDED")
       /\ action' = FinishAction(action, Report.id, "SUCCEEDED")
       /\ UNCHANGED <<cancelling, toolbar, tasks>>)

(* _on_backtest_empty.                                                     *)
BacktestEmpty ==
  /\ inbox # << >> /\ Report.signal = "empty"
  /\ Reported("BACKTEST",
       /\ noData' = [config |-> Report.config, gap |-> NoTime]
       /\ result' = 0
       /\ uiState' = After(uiState, "BACKTEST_EMPTY")
       /\ action' = FinishAction(action, Report.id, "EMPTY")
       /\ UNCHANGED <<cancelling, toolbar, lastRun, tasks>>)

(* _on_backtest_failed.                                                    *)
BacktestFailed ==
  /\ inbox # << >> /\ Report.signal = "failed"
  /\ Reported("BACKTEST",
       /\ result' = 0
       /\ uiState' = After(uiState, "BACKTEST_FAILED")
       /\ action' = FinishAction(action, Report.id, "FAILED")
       /\ UNCHANGED <<cancelling, noData, toolbar, lastRun, tasks>>)

(* _on_backtest_cancelled_for_action and _on_sync_cancelled_for_action.    *)
WorkCancelled ==
  /\ inbox # << >> /\ Report.signal = "cancelled"
  /\ inbox' = Tail(inbox)
  /\ \/ CompleteCancelled
     \/ /\ ~IsCancelling(Report.id)
        /\ UNCHANGED <<uiState, action, cancelling, noData, toolbar, lastRun,
                       result, tasks>>

(* _on_sync_succeeded: the run the user asked for resumes.                 *)
SyncSucceeded ==
  /\ inbox # << >> /\ Report.signal = "sync succeeded"
  /\ Reported("SYNC",
       LET finished == FinishAction(action, Report.id, "SUCCEEDED")
           state == After(uiState, "SYNC_SUCCEEDED")
       IN  /\ noData' = NoConfig
           /\ uiState' = state
           /\ IF noData # NoConfig THEN StartRun(noData.config, finished, state, FALSE)
              ELSE action' = finished /\ UNCHANGED <<tasks, cancelling>>
           /\ UNCHANGED <<toolbar, lastRun, result>>)

(* _on_sync_failed: the missing range stays on offer.                      *)
SyncFailed ==
  /\ inbox # << >> /\ Report.signal = "sync failed"
  /\ Reported("SYNC",
       /\ uiState' = After(uiState, "SYNC_FAILED")
       /\ action' = FinishAction(action, Report.id, "FAILED")
       /\ UNCHANGED <<cancelling, noData, toolbar, lastRun, result, tasks>>)

-----------------------------------------------------------------------------
(* The workers. *)

(* They read the symbol the screen is on, and the interval of their config.*)
MarketOf(config) == <<SymbolOf(toolbar.market), config.market[2]>>

Probe(config) == RangeCoverage(MarketOf(config), config.from, config.end)

Post(t, signal) ==
  inbox' = Append(inbox, [signal |-> signal, id |-> t.id, config |-> t.config,
                          gap |-> t.gap, auto |-> t.auto])

OnlyTasks == UNCHANGED <<uiState, action, cancelling, noData, toolbar, lastRun, result>>

Ends(t) == tasks' = tasks \ {t}
GoesTo(t, next) == tasks' = (tasks \ {t}) \cup {[t EXCEPT !.step = next]}

Available(config) ==
  {t \in rows[MarketOf(config)] : config.from <= t /\ t < config.end}

(* ExecutionCoordinator.run: the coverage probe, ...                       *)
ProbeCoverage(t) ==
  /\ t.kind = "BACKTEST" /\ t.step = "probe"
  /\ IF Probe(t.config).covered
     THEN GoesTo(t, "engine") /\ UNCHANGED inbox
     ELSE /\ Ends(t)
          /\ Post([t EXCEPT !.gap = Probe(t.config).missing], "coverage missing")
  /\ OnlyTasks

(* ... then the engine: a result, none for want of candles, an exception,  *)
(* or BacktestCancelled once the token is set; a result that comes after   *)
(* the cancellation is given up.                                           *)
RunEngine(t) ==
  /\ t.kind = "BACKTEST" /\ t.step = "engine"
  /\ \E signal \in {"succeeded", "empty", "failed", "cancelled"} :
       /\ signal = "succeeded" => ~t.cancelled /\ Available(t.config) # {}
       /\ signal = "empty" => Available(t.config) = {}
       /\ signal = "cancelled" => t.cancelled
       /\ Post(t, signal)
  /\ Ends(t)
  /\ OnlyTasks

(* Mutant: the sync worker says nothing when it was cancelled.             *)
EndSyncSilently(t) ==
  /\ t.kind = "SYNC" /\ t.step = "waiting"
  /\ stage[BacktestSync] = "done"
  /\ Collect(BacktestSync)
  /\ IF outcome[BacktestSync] = "failed"
     THEN Ends(t) /\ Post(t, "sync failed")
     ELSE IF t.cancelled THEN Ends(t) /\ UNCHANGED inbox
     ELSE GoesTo(t, "verify") /\ UNCHANGED inbox
  /\ OnlyTasks

(* DataSyncCoordinator.run_sync: from the gap the probe found, one candle  *)
(* further than the run needs, ...                                         *)
DispatchSync(t) ==
  /\ t.kind = "SYNC" /\ t.step = "dispatch"
  /\ Request(BacktestSync, MarketOf(t.config),
             IF t.gap # NoTime THEN t.gap ELSE t.config.from, t.config.end + 1,
             t.cancelled)
  /\ GoesTo(t, "waiting")
  /\ OnlyTasks /\ UNCHANGED inbox

(* ... whose end is reported unless ...                                    *)
EndSync(t) ==
  /\ t.kind = "SYNC" /\ t.step = "waiting"
  /\ stage[BacktestSync] = "done"
  /\ Collect(BacktestSync)
  /\ IF outcome[BacktestSync] = "failed"
     THEN Ends(t) /\ Post(t, "sync failed")
     ELSE IF t.cancelled THEN Ends(t) /\ Post(t, "cancelled")
     ELSE GoesTo(t, "verify") /\ UNCHANGED inbox
  /\ OnlyTasks

(* ... the range is still incomplete.                                      *)
VerifyCoverage(t) ==
  /\ t.kind = "SYNC" /\ t.step = "verify"
  /\ Ends(t)
  /\ Post(t, IF Probe(t.config).covered THEN "sync succeeded" ELSE "sync failed")
  /\ OnlyTasks

-----------------------------------------------------------------------------
(* Work of the current action that is still to be reported.                *)
Owned ==
  \/ \E t \in tasks : t.id = action.id
  \/ \E i \in DOMAIN inbox : inbox[i].id = action.id

(* A busy screen has work that will free it: the action it shows is the    *)
(* pending one and exactly one worker or one queued report of it is left.  *)
(* A sync being cancelled still has its fence up and its report to come    *)
(* (_on_cancel_backtest); a run being cancelled may have none, see         *)
(* CoverageMissing.                                                        *)
BusyHasOwner ==
  /\ uiState \in {"RUNNING", "SYNCING"} =>
       /\ action.outcome = "PENDING"
       /\ action.kind = IF uiState = "RUNNING" THEN "BACKTEST" ELSE "SYNC"
       /\ Cardinality({t \in tasks : t.id = action.id}) +
            Cardinality({i \in DOMAIN inbox : inbox[i].id = action.id}) = 1
  /\ uiState = "CANCELLING" =>
       /\ action.outcome = "INVALIDATED" /\ cancelling = action.id
       /\ action.kind = "SYNC" => Owned

(* The screen has one worker at a time, though a cancelled one is not      *)
(* waited for by name but by its report: the next click never starts a     *)
(* second one (BACKTEST_STATE_TRANSITIONS, _is_cancelling_action).         *)
OneLiveWorker == Cardinality(tasks) <= 1

(* A cancelled run never shows its result, however late it comes: results  *)
(* change only on a report of the run on screen, and to that run or none   *)
(* (is_current_pending, _complete_cancelled_action).                       *)
NoResultAfterCancel ==
  [][result' # result /\ action'.id # 0 =>
       uiState = "RUNNING" /\ result' \in {0, action.id}]_screenVars

(* The aggregates computed in SQL give the verdict the rows give, and name *)
(* the same first missing candle, for every range a worker could probe     *)
(* just then: the probe that decides whether a backtest may run, and where *)
(* its sync resumes, never sees the rows (backtest_range_coverage.py).     *)
CoverageVerdictsAgree ==
  \A t \in tasks : t.step \in {"probe", "verify"} =>
    \A start \in Times \cup {NoTime}, end \in Times :
      RangeCoverage(MarketOf(t.config), start, end) =
        CoverageOfRows(MarketOf(t.config), start, end)
=============================================================================
