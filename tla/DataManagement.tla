---------------------------- MODULE DataManagement ----------------------------
(***************************************************************************)
(* The data management screen: DataManagementPresenter with its UIMode     *)
(* machine on the main thread, and the workers of its coordinators, which  *)
(* sync one market or many, repair gaps, scan and prune, clear and purge.  *)
(*                                                                         *)
(* The screen is unlocked by signals the workers queue.  Tables, logs and  *)
(* progress are left out, and with them what a worker only reads for them. *)
(***************************************************************************)
EXTENDS MarketDataSync, ActionOwnership, Sequences

CONSTANTS
  SingleSync,       \* the sync worker of run_single_sync
  BulkSync,         \* BulkSync[m]: the pool thread of a bulk sync for a target
  Repairer          \* the repair worker of the gap coordinator

ASSUME ManagementAssumption ==
  /\ SingleSync \in SyncWorkers
  /\ BulkSync \in [Markets -> SyncWorkers]
  /\ Repairer \in RepairWorkers

VARIABLES
  mode,        \* fsm.current_state, a UIMode
  owner,       \* _tracker
  submitted,   \* how many workers were submitted
  token,       \* _cancellation_token: the number of the worker it was made for
  jobs,        \* the workers submitted and not finished
  signals      \* the signals queued for the main thread

managementVars == <<mode, owner, submitted, token, jobs, signals>>

ManagementInit ==
  /\ mode = "IDLE"
  /\ owner = NoAction
  /\ submitted = 0
  /\ token = 0
  /\ jobs = {}
  /\ signals = << >>

-----------------------------------------------------------------------------
(* The main thread. *)

(* ALLOWED_TRANSITIONS; nothing asks for ERROR.                            *)
Allowed ==
  {<<"IDLE", m>> : m \in {"SCANNING", "SYNCING", "CLEARING"}} \cup
  {<<m, "IDLE">> : m \in {"SCANNING", "SYNCING", "CLEARING", "CANCELLING"}} \cup
  {<<m, "CANCELLING">> : m \in {"SCANNING", "SYNCING"}}

TransitionTo(m) == IF <<mode, m>> \in Allowed THEN m ELSE mode

Job(kind, markets, gaps) ==
  [number |-> submitted + 1, kind |-> kind, markets |-> markets, gaps |-> gaps,
   symbols |-> {}, id |-> 0, step |-> "begin", cancelled |-> FALSE]

Submit(kind, markets, gaps) ==
  /\ jobs' = jobs \cup {Job(kind, markets, gaps)}
  /\ submitted' = submitted + 1

(* A worker that syncs or repairs is one thread at a time (bound).         *)
Free(kinds) == \A j \in jobs : j.kind \notin kinds

(* _trigger_single_sync and _on_sync_all_gaps: the buttons are enabled in  *)
(* IDLE; the presenter keeps the token of the newest worker only.          *)
StartSyncing(kind, markets) ==
  /\ mode = "IDLE" /\ Free({kind})
  /\ mode' = TransitionTo("SYNCING")
  /\ Submit(kind, markets, {})
  /\ token' = submitted + 1
  /\ UNCHANGED <<owner, signals>>

(* _on_repair_gap, of a gap the inspector listed, and _on_repair_all_gaps. *)
StartRepair(kind, m, gaps) ==
  /\ mode = "IDLE" /\ Free({"repair", "repair all"})
  /\ mode' = TransitionTo("SYNCING")
  /\ Submit(kind, {m}, gaps)
  /\ token' = submitted + 1
  /\ UNCHANGED <<owner, signals>>

(* _on_check_status, _on_check_all_status, _on_clear_data, _on_clear_row   *)
(* and _on_purge_all, and, which lock nothing, _on_inspect_gaps, and with  *)
(* it _on_inspect_klines, _on_run_audit and _on_vacuum.                    *)
StartOther(kind, markets) ==
  /\ mode = "IDLE"
  /\ mode' = CASE kind \in {"check", "scan"}  -> TransitionTo("SCANNING")
               [] kind \in {"clear", "purge"} -> TransitionTo("CLEARING")
               [] kind = "inspect"            -> mode
  /\ Submit(kind, markets, {})
  /\ UNCHANGED <<owner, token, signals>>

(* The sync or repair workers that look at the token of a job.             *)
WorkersOf(j) ==
  CASE j.kind = "single" -> {SingleSync}
    [] j.kind = "bulk"   -> {BulkSync[m] : m \in Markets}
    [] OTHER             -> {Repairer}

(* _on_cancel: the token the presenter holds, and those of all scans.      *)
CancelManagement ==
  /\ mode \in {"SYNCING", "SCANNING"}
  /\ mode' = TransitionTo("CANCELLING")
  /\ owner' = InvalidateActive(owner)
  /\ jobs' = {IF j.number = token \/ j.kind = "scan"
              THEN [j EXCEPT !.cancelled = TRUE] ELSE j : j \in jobs}
  /\ CancelWorkers({w \in Workers : stage[w] # "idle" /\
       \E j \in jobs : j.number = token /\ w \in WorkersOf(j)})
  /\ UNCHANGED <<submitted, token, signals>>

(* _on_sync_complete, and the _on_check_status it ends with.               *)
SyncComplete ==
  /\ signals # << >> /\ Head(signals) = "complete"
  /\ signals' = Tail(signals)
  /\ mode' = "SCANNING"
  /\ Submit("check", {}, {})
  /\ UNCHANGED <<owner, token>>

(* _unlock_ui.                                                             *)
Unlock ==
  /\ signals # << >> /\ Head(signals) = "unlock"
  /\ signals' = Tail(signals)
  /\ mode' = TransitionTo("IDLE")
  /\ UNCHANGED <<owner, submitted, token, jobs>>

-----------------------------------------------------------------------------
(* The workers. *)

Replace(j, next) == jobs' = (jobs \ {j}) \cup {next}
Finishes(j) == jobs' = jobs \ {j}
Emit(queued) == signals' = signals \o queued

Begun(j, next) == [j EXCEPT !.id = owner.id + 1, !.step = next]
Begin(j) == owner' = BeginAction(owner, j.kind, mode)

(* An action that begins, does its one step and finishes.                  *)
BeginAndFinish(j) ==
  owner' = FinishAction(BeginAction(owner, j.kind, mode), owner.id + 1, "SUCCEEDED")

Pending(j) == IsCurrentPending(owner, j.id, j.kind)

UnlockAndFinish(j) == Finishes(j) /\ Emit(<<"unlock">>)

MarketOfJob(j) == CHOOSE m \in j.markets : TRUE

(* run_single_sync. *)

BeginSingle(j) ==
  /\ j.kind = "single" /\ j.step = "begin"
  /\ Begin(j)
  /\ Request(SingleSync, MarketOfJob(j), NoTime, NoTime, j.cancelled)
  /\ Replace(j, Begun(j, "waiting"))
  /\ UNCHANGED <<storeVars, mode, submitted, token, signals>>

(* Mutant: an action that was cancelled does not unlock the screen.        *)
EndSingleUnlessCancelled(j) ==
  /\ j.kind = "single" /\ j.step = "waiting"
  /\ stage[SingleSync] = "done"
  /\ Collect(SingleSync)
  /\ owner' = IF Pending(j) THEN FinishAction(owner, j.id, "SUCCEEDED") ELSE owner
  /\ Emit(IF Pending(j) THEN <<"complete", "unlock">> ELSE << >>)
  /\ Finishes(j)
  /\ UNCHANGED <<storeVars, mode, submitted, token>>

(* Its end: a completed sync is reported before the screen is unlocked, a  *)
(* cancelled, superseded or failed one only unlocks it.                    *)
EndSingle(j) ==
  /\ j.kind = "single" /\ j.step = "waiting"
  /\ stage[SingleSync] = "done"
  /\ Collect(SingleSync)
  /\ owner' = IF outcome[SingleSync] = "failed" THEN FinishAction(owner, j.id, "FAILED")
              ELSE IF ~Pending(j) THEN owner
              ELSE FinishAction(owner, j.id, IF j.cancelled THEN "CANCELLED" ELSE "SUCCEEDED")
  /\ Emit(IF Pending(j) /\ outcome[SingleSync] # "failed" /\ ~j.cancelled
          THEN <<"complete", "unlock">> ELSE <<"unlock">>)
  /\ Finishes(j)
  /\ UNCHANGED <<storeVars, mode, submitted, token>>

(* run_bulk_sync and BulkSyncMarketDataCommandHandler. *)

BeginBulk(j) ==
  /\ j.kind = "bulk" /\ j.step = "begin"
  /\ Begin(j)
  /\ Replace(j, Begun(j, "targets"))
  /\ UNCHANGED <<storeVars, inFlight, workerVars, mode, submitted, token, signals>>

(* _sync_single_target: a target is skipped once the batch is cancelled.   *)
SyncTarget(j, m) ==
  /\ j.kind = "bulk" /\ j.step = "targets" /\ m \in j.markets
  /\ ~j.cancelled
  /\ Request(BulkSync[m], m, NoTime, NoTime, FALSE)
  /\ Replace(j, [j EXCEPT !.markets = @ \ {m}])
  /\ UNCHANGED <<storeVars, mode, owner, submitted, token, signals>>

(* report_target: handle_bulk_sync_progress unlocks the screen for an      *)
(* error, though the other targets go on.                                  *)
TargetDone(j, m) ==
  /\ j.kind = "bulk" /\ j.step = "targets"
  /\ stage[BulkSync[m]] = "done"
  /\ Collect(BulkSync[m])
  /\ Emit(IF outcome[BulkSync[m]] = "failed" THEN <<"unlock">> ELSE << >>)
  /\ UNCHANGED <<storeVars, mode, owner, submitted, token, jobs>>

(* report_completed, said of a cancelled batch too, then the coordinator.  *)
EndBulk(j) ==
  /\ j.kind = "bulk" /\ j.step = "targets"
  /\ j.markets = {} \/ j.cancelled
  /\ \A m \in Markets : stage[BulkSync[m]] = "idle"
  /\ owner' = IF ~Pending(j) THEN owner
              ELSE FinishAction(owner, j.id, IF j.cancelled THEN "CANCELLED" ELSE "SUCCEEDED")
  /\ Emit(<<"complete", "unlock", "unlock">>)
  /\ Finishes(j)
  /\ UNCHANGED <<storeVars, inFlight, workerVars, mode, submitted, token>>

(* run_repair_gap and run_repair_all_gaps. *)

Repairs == {"repair", "repair all"}

BeginRepair(j) ==
  /\ j.kind \in Repairs /\ j.step = "begin"
  /\ Begin(j)
  /\ IF j.kind = "repair"
     THEN Replace(j, Begun(j, "gaps")) /\ UNCHANGED listed
     ELSE /\ ListGaps(MarketOfJob(j))
          /\ Replace(j, [Begun(j, "gaps") EXCEPT !.gaps = Gaps(MarketOfJob(j))])
  /\ UNCHANGED <<storeVars, inFlight, stage, call, stream, outcome, cancelled,
                 mode, submitted, token, signals>>

RepairNext(j) ==
  /\ j.kind \in Repairs /\ j.step = "gaps" /\ j.gaps # {}
  /\ j.kind = "repair all" => ~j.cancelled
  /\ \E g \in j.gaps :
       /\ \A h \in j.gaps : g.start <= h.start
       /\ RequestRepair(Repairer, MarketOfJob(j), g, j.cancelled)
       /\ Replace(j, [j EXCEPT !.gaps = @ \ {g}, !.step = "waiting"])
  /\ UNCHANGED <<storeVars, mode, owner, submitted, token, signals>>

(* A download that failed is a result like any other; a failed save is an  *)
(* exception, which ends the worker.                                       *)
RepairDone(j) ==
  /\ j.kind \in Repairs /\ j.step = "waiting"
  /\ stage[Repairer] = "done"
  /\ Collect(Repairer)
  /\ \/ Replace(j, [j EXCEPT !.step = "gaps"]) /\ UNCHANGED <<owner, signals>>
     \/ /\ outcome[Repairer] = "failed"
        /\ owner' = FinishAction(owner, j.id, "FAILED")
        /\ UnlockAndFinish(j)
  /\ UNCHANGED <<storeVars, mode, submitted, token>>

(* The end: unless it was cancelled or superseded, the gaps and the status *)
(* are read again, each as an action of its own.                           *)
EndRepair(j) ==
  /\ j.kind \in Repairs /\ j.step = "gaps"
  /\ j.gaps = {} \/ (j.kind = "repair all" /\ j.cancelled)
  /\ Finishes(j)
  /\ IF Pending(j) /\ ~j.cancelled
     THEN /\ owner' = [FinishAction(owner, j.id, "SUCCEEDED")
                         EXCEPT !.id = @ + 2, !.kind = "check"]
          /\ ListGaps(MarketOfJob(j))
          /\ Emit(<<"unlock", "unlock">>)
     ELSE /\ owner' = IF j.gaps # {} THEN FinishAction(owner, j.id, "CANCELLED")
                      ELSE IF Pending(j) THEN FinishAction(owner, j.id, "SUCCEEDED")
                      ELSE owner
          /\ UNCHANGED listed
          /\ Emit(<<"unlock">>)
  /\ UNCHANGED <<storeVars, inFlight, stage, call, stream, outcome, cancelled,
                 mode, submitted, token>>

(* run_check_status and the inspectors. *)

ReadOnly(j) ==
  /\ j.kind \in {"check", "inspect"}
  /\ BeginAndFinish(j)
  /\ IF j.kind = "check" THEN UnlockAndFinish(j) ELSE Finishes(j) /\ UNCHANGED signals
  /\ IF j.kind = "inspect" THEN ListGaps(MarketOfJob(j)) ELSE UNCHANGED listed
  /\ UNCHANGED <<storeVars, inFlight, stage, call, stream, outcome, cancelled,
                 mode, submitted, token>>

(* run_clear_data and run_purge_all, with ClearMarketDataCommandHandler.   *)

Clear(j) ==
  /\ j.kind \in {"clear", "purge"}
  /\ BeginAndFinish(j)
  /\ \/ IF j.kind = "clear" THEN ClearInterval(MarketOfJob(j)) ELSE PurgeAll
     \/ UNCHANGED <<shards, rows, stale>>       \* an error, which is reported
  /\ UnlockAndFinish(j)
  /\ UNCHANGED <<now, inFlight, workerVars, mode, submitted, token>>

(* run_scan_all, and PruneEmptyShardsCommandHandler after it. *)

BeginScan(j) ==
  /\ j.kind = "scan" /\ j.step = "begin"
  /\ Begin(j)
  /\ Replace(j, Begun(j, "scan"))
  /\ UNCHANGED <<storeVars, inFlight, workerVars, mode, submitted, token, signals>>

(* A scan that was cancelled or superseded prunes nothing, nor one whose   *)
(* query raised.                                                           *)
EndScan(j) ==
  /\ j.kind = "scan" /\ j.step = "scan"
  /\ \/ /\ Pending(j)
        /\ Replace(j, [j EXCEPT !.step = "prune", !.symbols = shards])
        /\ UNCHANGED <<owner, signals>>
     \/ ~Pending(j) /\ UnlockAndFinish(j) /\ UNCHANGED owner
     \/ owner' = FinishAction(owner, j.id, "FAILED") /\ UnlockAndFinish(j)
  /\ UNCHANGED <<storeVars, inFlight, workerVars, mode, submitted, token>>

(* has_any_klines of one shard, and apart from it ...                      *)
CheckShard(j) ==
  /\ j.kind = "scan" /\ j.step = "prune" /\ ~j.cancelled
  /\ \E s \in j.symbols :
       IF HasAnyKlines(s) THEN Replace(j, [j EXCEPT !.symbols = @ \ {s}])
       ELSE Replace(j, [j EXCEPT !.step = "remove", !.markets = {s}])
  /\ UNCHANGED <<storeVars, inFlight, workerVars, mode, owner, submitted, token, signals>>

(* ... the removal of one that had none.                                   *)
PruneShard(j) ==
  /\ j.kind = "scan" /\ j.step = "remove"
  /\ RemoveShards(j.markets)
  /\ Replace(j, [j EXCEPT !.step = "prune", !.symbols = @ \ j.markets, !.markets = {}])
  /\ UNCHANGED <<now, inFlight, workerVars, mode, owner, submitted, token, signals>>

EndPrune(j) ==
  /\ j.kind = "scan" /\ j.step = "prune"
  /\ j.cancelled \/ j.symbols = {}
  /\ owner' = FinishAction(owner, j.id, "SUCCEEDED")
  /\ UnlockAndFinish(j)
  /\ UNCHANGED <<storeVars, inFlight, workerVars, mode, submitted, token>>

JobStep(j) ==
  \/ BeginSingle(j) \/ EndSingle(j)
  \/ BeginBulk(j) \/ (\E m \in Markets : SyncTarget(j, m) \/ TargetDone(j, m)) \/ EndBulk(j)
  \/ BeginRepair(j) \/ RepairNext(j) \/ RepairDone(j) \/ EndRepair(j)
  \/ ReadOnly(j)
  \/ Clear(j)
  \/ BeginScan(j) \/ EndScan(j) \/ CheckShard(j) \/ PruneShard(j) \/ EndPrune(j)

-----------------------------------------------------------------------------
(* The screen is never locked for good: while a mode other than IDLE       *)
(* disables its buttons, a worker that unlocks it on every path is still   *)
(* to run or its signal is queued (the finally blocks of the coordinators, *)
(* _on_sync_complete and _on_cancel, which set the mode on another thread).*)
UnlockAlwaysComes ==
  mode # "IDLE" =>
    \/ \E j \in jobs : j.kind # "inspect"
    \/ \E i \in DOMAIN signals : signals[i] \in {"unlock", "complete"}
=============================================================================
