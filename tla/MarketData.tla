------------------------------ MODULE MarketData ------------------------------
(***************************************************************************)
(* The market data of one process: the candle store, the handlers that     *)
(* download into it, and the two screens that ask for downloads, read what *)
(* is there and delete it, each on its main-thread turns and its workers.  *)
(*                                                                         *)
(* The screens share the store, InFlightSyncGuard and nothing else.        *)
(***************************************************************************)
EXTENDS BacktestScreen, DataManagement

CONSTANTS
  PastStores,     \* what earlier runs may have left: [now, rows, stale]
  Selections,     \* bound: the markets chosen in one click of data management
  MaxCommands     \* bound: what the user asks for, restarts included; a batch of
                  \* markets counts for one more than there are in it

ASSUME SelectionsAssumption ==
  \A batch \in Selections : batch \subseteq Markets /\ IsFiniteSet(batch)

VARIABLE
  commands        \* how much the user has asked for

vars == <<syncVars, screenVars, managementVars, commands>>

Init ==
  /\ \E past \in PastStores :
       now = past.now /\ rows = past.rows /\ stale = past.stale
  /\ SyncInit
  /\ ScreenInit
  /\ ManagementInit
  /\ commands = 0

-----------------------------------------------------------------------------
NoWorker == UNCHANGED <<storeVars, inFlight, workerVars>>
NoBacktest == UNCHANGED screenVars
NoManagement == UNCHANGED managementVars

Command(cost) == commands + cost <= MaxCommands /\ commands' = commands + cost
NoCommand == UNCHANGED commands

Clock ==
  Tick /\ UNCHANGED <<inFlight, workerVars>> /\ NoBacktest /\ NoManagement /\ NoCommand

Download(w) == WorkerStep(w) /\ NoBacktest /\ NoManagement /\ NoCommand

(* A click on the backtest screen, ...                                     *)
BacktestCommand ==
  /\ Command(1)
  /\ \/ RunBacktest /\ NoWorker
     \/ RequestSync /\ NoWorker
     \/ \E inputs \in Toolbars : ChangeToolbar(inputs) /\ NoWorker
     \/ CancelBacktest
          /\ UNCHANGED <<storeVars, inFlight, stage, call, stream, outcome, listed>>
  /\ NoManagement

(* ... a signal its main thread handles, ...                               *)
BacktestReport ==
  /\ \/ CoverageMissing
     \/ BacktestSucceeded \/ BacktestEmpty \/ BacktestFailed
     \/ WorkCancelled
     \/ SyncSucceeded \/ SyncFailed
  /\ NoWorker /\ NoManagement /\ NoCommand

(* ... and a step of one of its workers.                                   *)
BacktestTask ==
  /\ \E t \in tasks :
       \/ (ProbeCoverage(t) \/ RunEngine(t) \/ VerifyCoverage(t)) /\ NoWorker
       \/ (DispatchSync(t) \/ EndSync(t)) /\ UNCHANGED storeVars
  /\ NoManagement /\ NoCommand

(* The same of the data management screen.                                 *)
ManagementCommand ==
  /\ \/ /\ \/ \E m \in Markets :
                /\ {m} \in Selections
                /\ \/ StartSyncing("single", {m})
                   \/ \E g \in listed[m] : StartRepair("repair", m, {g})
                   \/ StartRepair("repair all", m, {})
                   \/ \E kind \in {"clear", "inspect"} : StartOther(kind, {m})
           \/ \E kind \in {"check", "scan", "purge"} : StartOther(kind, {})
        /\ Command(1)
        /\ NoWorker
     \/ /\ \E batch \in Selections :
             /\ StartSyncing("bulk", batch)
             /\ Command(1 + Cardinality(batch))
        /\ NoWorker
     \/ /\ CancelManagement
        /\ Command(1)
        /\ UNCHANGED <<storeVars, inFlight, stage, call, stream, outcome, listed>>
  /\ NoBacktest

ManagementSignal ==
  (SyncComplete \/ Unlock) /\ NoWorker /\ NoBacktest /\ NoCommand

ManagementJob == (\E j \in jobs : JobStep(j)) /\ NoBacktest /\ NoCommand

(* The process dies, or is closed, and starts again.                       *)
Restart ==
  /\ Command(1)
  /\ CrashSync
  /\ uiState' = "IDLE" /\ action' = NoAction /\ cancelling' = 0
  /\ noData' = NoConfig /\ lastRun' = NoConfig /\ result' = 0
  /\ tasks' = {} /\ inbox' = << >> /\ toolbar' \in Toolbars
  /\ mode' = "IDLE" /\ owner' = NoAction /\ submitted' = 0 /\ token' = 0
  /\ jobs' = {} /\ signals' = << >>

Next ==
  \/ Clock
  \/ \E w \in Workers : Download(w)
  \/ BacktestCommand \/ BacktestReport \/ BacktestTask
  \/ ManagementCommand \/ ManagementSignal \/ ManagementJob
  \/ Restart

(* A thread that runs a handler goes on while it can.                      *)
Fairness == \A w \in Workers : WF_vars(Download(w))

Spec == Init /\ [][Next]_vars /\ Fairness

(* A range the exchange cannot complete never turns into a loop of syncs:  *)
(* one that starts by itself serves a run the user started, never the run  *)
(* that followed a sync (auto_sync of _start_backtest_run).                *)
NoSyncLoop ==
  [][action'.kind = "SYNC" /\ action'.id # action.id /\ UNCHANGED commands
       => action.kind = "BACKTEST" /\ action.previous \in Restful]_vars

(* A market that is being synchronised is released in the end, however     *)
(* often the exchange fails in between and whoever else wants it           *)
(* (InFlightSyncGuard.release, _MAX_TRANSIENT_RETRIES).                    *)
GuardReleased == \A m \in Markets : m \in inFlight ~> m \notin inFlight
=============================================================================
