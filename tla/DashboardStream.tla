--------------------------- MODULE DashboardStream ---------------------------
(***************************************************************************)
(* The live stream of the dashboard (Dev Board): StreamLifecycleController *)
(* with the presenter's UIMode machine on the main thread, and its worker, *)
(* which either starts a stream or only loads history.                     *)
(*                                                                         *)
(* One ExclusiveAction admits one worker at a time.  The worker's outcome  *)
(* reaches the main thread as a queued signal, which names no worker; a    *)
(* click may be handled before a signal that waits.                        *)
(***************************************************************************)
EXTENDS LiveStreamService, Sequences

CONSTANTS
  BoardMarkets,  \* bound: what the form may have when the screen opens
  NoWorker       \* no worker holds the ExclusiveAction

ASSUME BoardAssumption == BoardMarkets \subseteq Keys

VARIABLES
  board,         \* the symbol in the form and _active_interval
  mode,          \* fsm.current_state
  worker,        \* what holds _stream_actions
  reports,       \* ui_stream_success_signal and ui_stream_failed_signal, queued
  started,       \* history: the market of the newest start
  boardSlipped   \* history: a worker was cancelled between its last look at its
                 \* token and subscribe, or a superseded report was believed

boardVars == <<board, mode, worker, reports, started, boardSlipped>>

BoardInit ==
  /\ board \in BoardMarkets
  /\ mode = "IDLE"
  /\ worker = NoWorker
  /\ reports = << >>
  /\ started = board
  /\ boardSlipped = FALSE

NewWorker(action, market) ==
  [action |-> action, step |-> IF action = "start_stream" THEN "sync" ELSE "query",
   market |-> market, cancelled |-> FALSE]

StandsAtSubscribe == worker # NoWorker /\ worker.step = "subscribe"

(* The token of the screen is cancelled: that of its worker, if it has one.*)
WorkerCancelled == IF worker = NoWorker THEN NoWorker ELSE [worker EXCEPT !.cancelled = TRUE]

(* A report is stale once its start was stopped or another one was made.   *)
Superseded(queue) == [i \in DOMAIN queue |-> [queue[i] EXCEPT !.stale = TRUE]]

-----------------------------------------------------------------------------
(* The main thread. *)

(* The form can be edited while the controls are enabled.                  *)
ChooseSymbol(symbol) ==
  /\ mode = "IDLE" /\ symbol # board[1]
  /\ board' = <<symbol, board[2]>>
  /\ UNCHANGED <<mode, worker, reports, started, boardSlipped, serviceVars>>

(* The body of _on_start_stream, once it was admitted.                     *)
StartOn(market) ==
  /\ mode' = "LOCKED"
  /\ worker' = NewWorker("start_stream", market)
  /\ started' = market
  /\ reports' = Superseded(reports)
  /\ boardSlipped' = (boardSlipped /\ subscriptions'["dashboard"] # {})

StartBoard ==
  /\ mode = "IDLE" /\ worker = NoWorker
  /\ UNCHANGED <<board, serviceVars>>
  /\ StartOn(board)

(* _on_load_history: by its button, or when an automatic start has shown   *)
(* no tick in time, in whatever mode that is.                              *)
LoadBoard ==
  /\ worker = NoWorker
  /\ worker' = NewWorker("load_history", board)
  /\ UNCHANGED <<board, mode, reports, started, boardSlipped, serviceVars>>

(* Mutant: a stop waits for the worker to report.                          *)
StopWaits ==
  /\ mode \in {"LOCKED", "LIVE"}
  /\ Release("dashboard")
  /\ mode' = IF mode = "LIVE" THEN "IDLE" ELSE mode
  /\ worker' = WorkerCancelled
  /\ reports' = Superseded(reports)
  /\ boardSlipped' = StandsAtSubscribe
  /\ UNCHANGED <<board, started>>

(* _on_stop_stream                                                         *)
StopBoard ==
  /\ mode \in {"LOCKED", "LIVE"}
  /\ Release("dashboard")
  /\ mode' = "IDLE"
  /\ worker' = WorkerCancelled
  /\ reports' = Superseded(reports)
  /\ boardSlipped' = StandsAtSubscribe
  /\ UNCHANGED <<board, started>>

(* _on_timeframe_changed: a live stream is stopped and started again,      *)
(* unless the worker before still holds the ExclusiveAction; otherwise the *)
(* history is loaded, unless a worker is at work already.                  *)
ChangeInterval(interval) ==
  /\ interval # board[2]
  /\ board' = <<board[1], interval>>
  /\ IF mode = "LIVE"
     THEN /\ Release("dashboard")
          /\ IF worker = NoWorker
             THEN StartOn(board')
             ELSE /\ mode' = "IDLE"
                  /\ worker' = WorkerCancelled
                  /\ reports' = Superseded(reports)
                  /\ boardSlipped' = StandsAtSubscribe
                  /\ UNCHANGED started
     ELSE /\ worker' = IF worker = NoWorker THEN NewWorker("load_history", board')
                       ELSE worker
          /\ UNCHANGED <<mode, reports, started, boardSlipped, serviceVars>>

(* A transition the machine does not declare raises, and @safe_ui_action   *)
(* swallows it; ERROR returns to IDLE as it is entered.                    *)
ModeAfter(kind) ==
  CASE kind = "success" /\ mode = "LOCKED"           -> "LIVE"
    [] kind = "failed" /\ mode \in {"LOCKED", "LIVE"} -> "IDLE"
    [] OTHER                                          -> mode

(* _on_stream_start_success, _on_stream_start_failed                       *)
TakeReport ==
  /\ reports # << >>
  /\ mode' = ModeAfter(Head(reports).kind)
  /\ reports' = Tail(reports)
  /\ boardSlipped' = (boardSlipped \/ (Head(reports).stale /\ mode' # mode))
  /\ UNCHANGED <<board, worker, started, serviceVars>>

-----------------------------------------------------------------------------
(* The worker. *)

WorkerGoes(step) == worker' = [worker EXCEPT !.step = step]

Emit(kind) == reports' = Append(reports, [kind |-> kind, stale |-> worker.cancelled])

(* _sync_market_data of _run_sync_and_start, and the token.                *)
SyncBoard ==
  /\ worker # NoWorker /\ worker.step = "sync"
  /\ WorkerGoes(IF worker.cancelled THEN "leave" ELSE "history")
  /\ UNCHANGED <<board, mode, reports, started, boardSlipped, serviceVars>>

(* _run_load_history within it, and the token.                             *)
ReloadBoard ==
  /\ worker # NoWorker /\ worker.step = "history"
  /\ WorkerGoes(IF worker.cancelled THEN "leave" ELSE "subscribe")
  /\ UNCHANGED <<board, mode, reports, started, boardSlipped, serviceVars>>

(* _start_websocket_stream                                                 *)
StartWebsocket ==
  /\ StandsAtSubscribe
  /\ Subscribe("dashboard", worker.market)
  /\ Emit("success")
  /\ WorkerGoes("leave")
  /\ UNCHANGED <<board, mode, started, boardSlipped>>

(* An exception of one of the calls before.                                *)
StartFails ==
  /\ worker # NoWorker /\ worker.step \in {"sync", "history"}
  /\ Emit("failed")
  /\ WorkerGoes("leave")
  /\ UNCHANGED <<board, mode, started, boardSlipped, serviceVars>>

(* _run_load_history alone, which reports no failure.                      *)
QueryHistory ==
  /\ worker # NoWorker /\ worker.step = "query"
  /\ WorkerGoes("leave")
  /\ UNCHANGED <<board, mode, reports, started, boardSlipped, serviceVars>>

(* The future is done, and the ExclusiveAction free again.                 *)
Leave ==
  /\ worker # NoWorker /\ worker.step = "leave"
  /\ worker' = NoWorker
  /\ UNCHANGED <<board, mode, reports, started, boardSlipped, serviceVars>>

BoardWorker ==
  SyncBoard \/ ReloadBoard \/ StartWebsocket \/ StartFails \/ QueryHistory \/ Leave

-----------------------------------------------------------------------------
BoardWorkers ==
  [action : {"start_stream"}, step : {"sync", "history", "subscribe", "leave"},
   market : Keys, cancelled : BOOLEAN]
  \cup
  [action : {"load_history"}, step : {"query", "leave"}, market : Keys, cancelled : BOOLEAN]

BoardTypeOK ==
  /\ board \in Keys
  /\ mode \in {"IDLE", "LOCKED", "LIVE"}
  /\ worker \in BoardWorkers \cup {NoWorker}
  /\ reports \in Seq([kind : {"success", "failed"}, stale : BOOLEAN])
  /\ started \in Keys
  /\ boardSlipped \in BOOLEAN
=============================================================================
