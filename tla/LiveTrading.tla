----------------------------- MODULE LiveTrading -----------------------------
(***************************************************************************)
(* The trading commands of the program, run concurrently by the workers of *)
(* its thread pool over one TradingSessionState and one exchange account:  *)
(*                                                                         *)
(*   ExecuteOrder    strategy ticks and the manual order form              *)
(*   CancelOrder     the open-orders table                                 *)
(*   EnableTrading / DisableTrading    the toggle of two screens           *)
(*   EmergencyStop   the stop button of two screens                        *)
(*   account feed    FuturesUserDataStream correcting the session          *)
(*                                                                         *)
(* A step of a worker is one access to shared state or one network call,   *)
(* so every interleaving of the handlers is a behaviour.  A network call   *)
(* may fail before the exchange acts and, where the exchange acts, may     *)
(* fail after it (the answer is lost).  The account feed is modelled by    *)
(* what the rest of the program sees of it: while it runs it may at any    *)
(* time notice a symbol, read that symbol's position, and only then apply  *)
(* what it read.                                                           *)
(***************************************************************************)
EXTENDS TradingAccount, FiniteSets

CONSTANTS
  Workers,          \* threads of the pool, the strategy's tick thread included
  Commands,         \* the commands the workers run
  NoSymbol, NoWorker, NoOrder,   \* None
  UpdatedSymbols,   \* bound: the symbols an ACCOUNT_UPDATE may name
  MaxGeneration,    \* bound: no command starts once the session is this old
  MaxLedger,        \* bound: orders the exchange accepts
  MaxTime           \* bound: ticks of the clock

CommandNames == {"execute", "cancel", "enable", "disable", "stop"}

ASSUME NamesAssumption ==
  /\ Commands \subseteq CommandNames
  /\ UpdatedSymbols \subseteq Symbols
  /\ NoSymbol \notin Symbols
  /\ NoWorker \notin Workers
  /\ NoOrder \notin OrderRequests

ASSUME BoundsAssumption ==
  MaxGeneration \in Nat /\ MaxLedger \in Nat /\ MaxTime \in Nat

VARIABLES
  session,     \* the TradingSessionState
  guard,       \* who holds live_submission_guard()
  now,         \* datetime.now(UTC)
  pc,          \* pc[w]: where worker w is in its handler
  order,       \* order[w]: the order of an ExecuteOrderCommand
  sentAt,      \* sentAt[w]: `now` as the handler read it under the guard
  expected,    \* expected[w]: generation_before_reconciliation
  toCancel,    \* toCancel[w]: symbols whose orders EmergencyStop still cancels
  toClose,     \* toClose[w]: <<symbol, amount>> pairs it read and still closes
  report,      \* report[w]: the EmergencyStopResult
  streaming,   \* FuturesUserDataStream is started
  noticed,     \* the symbol an ACCOUNT_UPDATE being handled names
  heard        \* what get_positions(symbol) answered to that handler

(* History: what the properties compare, read by no guard. *)
VARIABLES
  disables,    \* number of disable() calls so far
  before,      \* before[w]: value of disables when w's command started
  mark,        \* mark[w]: length of the ledger at w's emergency disable()
  flatSince    \* flatSince[s]: length of the ledger when s was last set flat

sessionVars == <<session, guard, now>>
stopVars    == <<toCancel, toClose, report>>
workerVars  == <<pc, order, sentAt, expected, stopVars>>
feedVars    == <<streaming, noticed, heard>>
historyVars == <<disables, before, mark, flatSince>>
vars == <<sessionVars, accountVars, workerVars, feedVars, historyVars>>

NoReport == [ cancelled |-> TRUE, closed |-> TRUE,
              positions |-> {}, confirmed |-> FALSE ]

Init ==
  /\ session = NewSession
  /\ guard = NoWorker
  /\ now = 0
  /\ position = [s \in Symbols |-> 0]
  /\ ledger = << >>
  /\ pc = [w \in Workers |-> "idle"]
  /\ order = [w \in Workers |-> NoOrder]
  /\ sentAt = [w \in Workers |-> 0]
  /\ expected = [w \in Workers |-> 0]
  /\ toCancel = [w \in Workers |-> {}]
  /\ toClose = [w \in Workers |-> {}]
  /\ report = [w \in Workers |-> NoReport]
  /\ streaming = FALSE
  /\ noticed = NoSymbol
  /\ heard = "unread"
  /\ disables = 0
  /\ before = [w \in Workers |-> 0]
  /\ mark = [w \in Workers |-> 0]
  /\ flatSince = [s \in Symbols |-> 0]

-----------------------------------------------------------------------------
(* Workers. *)

Begins(w, command) ==
  /\ command \in Commands
  /\ pc[w] = "idle"
  /\ session.generation < MaxGeneration

Goto(w, label) == pc' = [pc EXCEPT ![w] = label]

(* The handler returns or raises: the worker is free, its locals are gone. *)
Return(w) ==
  /\ pc' = [pc EXCEPT ![w] = "idle"]
  /\ order' = [order EXCEPT ![w] = NoOrder]
  /\ sentAt' = [sentAt EXCEPT ![w] = 0]
  /\ expected' = [expected EXCEPT ![w] = 0]
  /\ toCancel' = [toCancel EXCEPT ![w] = {}]
  /\ toClose' = [toClose EXCEPT ![w] = {}]
  /\ report' = [report EXCEPT ![w] = NoReport]
  /\ before' = [before EXCEPT ![w] = 0]
  /\ mark' = [mark EXCEPT ![w] = 0]

-----------------------------------------------------------------------------
(* ExecuteOrderCommandHandler.execute *)

(* Mutant: the gate does not look at the trading switch.                   *)
BeginExecuteUngated(w) ==
  /\ Begins(w, "execute")
  /\ \E s \in Symbols, action \in Actions, notional \in Notionals :
       order' = [order EXCEPT ![w] = OrderRequest(s, action, notional)]
  /\ Goto(w, "gated")
  /\ before' = [before EXCEPT ![w] = disables]
  /\ UNCHANGED <<sessionVars, accountVars, sentAt, expected, stopVars,
                 feedVars, disables, mark, flatSince>>

(* The trading switch, read without a lock before the network call of the  *)
(* gate.  A command refused here changes nothing.                          *)
BeginExecute(w) ==
  /\ Begins(w, "execute")
  /\ session.enabled
  /\ \E s \in Symbols, action \in Actions, notional \in Notionals :
       order' = [order EXCEPT ![w] = OrderRequest(s, action, notional)]
  /\ Goto(w, "gated")
  /\ before' = [before EXCEPT ![w] = disables]
  /\ UNCHANGED <<sessionVars, accountVars, sentAt, expected, stopVars,
                 feedVars, disables, mark, flatSince>>

(* check_connection() fails, the symbol is unknown or the notional is too  *)
(* small for the exchange: the handler returns or raises before the guard. *)
ExecuteNotReady(w) ==
  /\ pc[w] = "gated"
  /\ Return(w)
  /\ UNCHANGED <<sessionVars, accountVars, feedVars, disables, flatSince>>

Violations(w) == OrderViolations(session, order[w].symbol, order[w].notional, now)

(* Under the guard a limit fails: the guard is taken and released, and the *)
(* caller publishes a LiveOrderBlockedEvent.                               *)
RefuseOrder(w) ==
  /\ pc[w] = "gated"
  /\ guard = NoWorker
  /\ Violations(w) # {}
  /\ Goto(w, "refused")
  /\ UNCHANGED <<sessionVars, accountVars, order, sentAt, expected, stopVars,
                 feedVars, historyVars>>

PublishBlocked(w) ==
  /\ pc[w] = "refused"
  /\ Return(w)
  /\ UNCHANGED <<sessionVars, accountVars, feedVars, disables, flatSince>>

(* Mutant: the limits are evaluated without waiting for the guard.         *)
PassLimitsUnguarded(w) ==
  /\ pc[w] = "gated"
  /\ Violations(w) = {}
  /\ guard' = w
  /\ sentAt' = [sentAt EXCEPT ![w] = now]
  /\ Goto(w, "placing")
  /\ UNCHANGED <<session, now, accountVars, order, expected, stopVars,
                 feedVars, historyVars>>

(* Under the guard every limit passes: place_order() is next, the guard    *)
(* still held.  The switch is not read again.                              *)
PassLimits(w) ==
  /\ pc[w] = "gated"
  /\ guard = NoWorker
  /\ Violations(w) = {}
  /\ guard' = w
  /\ sentAt' = [sentAt EXCEPT ![w] = now]
  /\ Goto(w, "placing")
  /\ UNCHANGED <<session, now, accountVars, order, expected, stopVars,
                 feedVars, historyVars>>

(* What the exchange writes down of an accepted order; `late` is 0, or the *)
(* number of disable() calls when it was accepted with the switch off.     *)
Entry(w, status, lost) ==
  [ symbol     |-> order[w].symbol,
    side       |-> order[w].side,
    reduceOnly |-> order[w].reduceOnly,
    status     |-> status,
    by         |-> w,
    at         |-> sentAt[w],
    lost       |-> lost,
    late       |-> IF session.enabled THEN 0 ELSE disables ]

(* futures_create_order accepted and answered. *)
OrderAccepted(w) ==
  /\ pc[w] = "placing"
  /\ Len(ledger) < MaxLedger
  /\ Acceptable(order[w])
  /\ \E status \in {"working", "filled"} : Accept(Entry(w, status, FALSE))
  /\ Goto(w, "accepted")
  /\ UNCHANGED <<sessionVars, order, sentAt, expected, stopVars, feedVars, historyVars>>

(* Accepted, but the answer never arrives: place_order() raises.           *)
AnswerLost(w) ==
  /\ pc[w] = "placing"
  /\ Len(ledger) < MaxLedger
  /\ Acceptable(order[w])
  /\ \E status \in {"working", "filled"} : Accept(Entry(w, status, TRUE))
  /\ guard' = NoWorker
  /\ Return(w)
  /\ UNCHANGED <<session, now, feedVars, disables, flatSince>>

(* The exchange refuses, or the request never reaches it.                  *)
OrderRejected(w) ==
  /\ pc[w] = "placing"
  /\ guard' = NoWorker
  /\ Return(w)
  /\ UNCHANGED <<session, now, accountVars, feedVars, disables, flatSince>>

(* record_order_sent() and the end of the guarded section.                 *)
RecordOrder(w) ==
  /\ pc[w] = "accepted"
  /\ session' = AfterOrderSent(session, order[w].symbol, sentAt[w])
  /\ guard' = NoWorker
  /\ Return(w)
  /\ UNCHANGED <<now, accountVars, feedVars, disables, flatSince>>

ExecuteOrder(w) ==
  \/ BeginExecute(w) \/ ExecuteNotReady(w) \/ RefuseOrder(w) \/ PublishBlocked(w)
  \/ PassLimits(w) \/ OrderAccepted(w) \/ AnswerLost(w) \/ OrderRejected(w) \/ RecordOrder(w)

-----------------------------------------------------------------------------
(* CancelOrderCommandHandler.execute: the same gate, then one cancel.      *)

BeginCancel(w) ==
  /\ Begins(w, "cancel")
  /\ session.enabled
  /\ Goto(w, "cancelGated")
  /\ UNCHANGED <<sessionVars, accountVars, order, sentAt, expected, stopVars,
                 feedVars, historyVars>>

(* The order named in the command may be in any state by now.              *)
CancelOrder(w) ==
  /\ pc[w] = "cancelGated"
  /\ \E i \in DOMAIN ledger : CancelOne(i)
  /\ Return(w)
  /\ UNCHANGED <<sessionVars, feedVars, disables, flatSince>>

CancelFails(w) ==
  /\ pc[w] = "cancelGated"
  /\ Return(w)
  /\ UNCHANGED <<sessionVars, accountVars, feedVars, disables, flatSince>>

Cancel(w) == BeginCancel(w) \/ CancelOrder(w) \/ CancelFails(w)

-----------------------------------------------------------------------------
(* EnableTradingCommandHandler.execute *)

(* The generation is read before the network round trips.                  *)
BeginEnable(w) ==
  /\ Begins(w, "enable")
  /\ expected' = [expected EXCEPT ![w] = session.generation]
  /\ before' = [before EXCEPT ![w] = disables]
  /\ Goto(w, "reconciling")
  /\ UNCHANGED <<sessionVars, accountVars, order, sentAt, stopVars, feedVars,
                 disables, mark, flatSince>>

(* get_positions() answers that the account is flat.                       *)
ReadFlat(w) ==
  /\ pc[w] = "reconciling"
  /\ OpenSymbols = {}
  /\ Goto(w, "flatRead")
  /\ UNCHANGED <<sessionVars, accountVars, order, sentAt, expected, stopVars,
                 feedVars, historyVars>>

(* Not connected, a position nobody expected, or a failed read: not        *)
(* enabled.                                                                *)
EnableRefused(w) ==
  /\ pc[w] \in {"reconciling", "flatRead"}
  /\ Return(w)
  /\ UNCHANGED <<sessionVars, accountVars, feedVars, disables, flatSince>>

(* Mutant: enable() is not conditional on the generation.                  *)
NeverSuperseded(w) == pc[w] = "idle"

Superseded(w) == ~EnableApplies(session, expected[w])

(* state.enable(set(), expected_generation=...)                            *)
ApplyEnable(w) ==
  /\ pc[w] = "flatRead"
  /\ ~Superseded(w)
  /\ session' = AfterEnable(session, {})
  /\ flatSince' = [s \in Symbols |-> Len(ledger)]
  /\ Goto(w, "starting")
  /\ UNCHANGED <<guard, now, accountVars, order, sentAt, expected, stopVars,
                 feedVars, disables, before, mark>>

EnableSuperseded(w) ==
  /\ pc[w] = "flatRead"
  /\ Superseded(w)
  /\ Return(w)
  /\ UNCHANGED <<sessionVars, accountVars, feedVars, disables, flatSince>>

(* user_data_stream.start(): no effect when it already runs.               *)
StartStream(w) ==
  /\ pc[w] = "starting"
  /\ streaming' = TRUE
  /\ Return(w)
  /\ UNCHANGED <<sessionVars, accountVars, noticed, heard, disables, flatSince>>

EnableTrading(w) ==
  \/ BeginEnable(w) \/ ReadFlat(w) \/ EnableRefused(w)
  \/ ApplyEnable(w) \/ EnableSuperseded(w) \/ StartStream(w)

-----------------------------------------------------------------------------
(* DisableTradingCommandHandler.execute *)

BeginDisable(w) ==
  /\ Begins(w, "disable")
  /\ session' = AfterDisable(session)
  /\ disables' = disables + 1
  /\ Goto(w, "disabled")
  /\ UNCHANGED <<guard, now, accountVars, order, sentAt, expected, stopVars,
                 feedVars, before, mark, flatSince>>

StopStream(w) ==
  /\ pc[w] = "disabled"
  /\ streaming' = FALSE
  /\ Return(w)
  /\ UNCHANGED <<sessionVars, accountVars, noticed, heard, disables, flatSince>>

DisableTrading(w) == BeginDisable(w) \/ StopStream(w)

-----------------------------------------------------------------------------
(* EmergencyStopCommandHandler.execute *)

(* _disable_trading: disable() and then stop().                            *)
BeginStop(w) ==
  /\ Begins(w, "stop")
  /\ session' = AfterDisable(session)
  /\ disables' = disables + 1
  /\ mark' = [mark EXCEPT ![w] = Len(ledger)]
  /\ Goto(w, "stopping")
  /\ UNCHANGED <<guard, now, accountVars, order, sentAt, expected, stopVars,
                 feedVars, before, flatSince>>

(* Mutant: the emergency stop waits for the submission guard.              *)
StopWaitsForGuard(w) ==
  /\ pc[w] = "stopping"
  /\ guard = NoWorker
  /\ streaming' = FALSE
  /\ Goto(w, "readOrders")
  /\ UNCHANGED <<sessionVars, accountVars, order, sentAt, expected, stopVars,
                 noticed, heard, historyVars>>

StopStopsStream(w) ==
  /\ pc[w] = "stopping"
  /\ streaming' = FALSE
  /\ Goto(w, "readOrders")
  /\ UNCHANGED <<sessionVars, accountVars, order, sentAt, expected, stopVars,
                 noticed, heard, historyVars>>

(* What is still to do, and the step that does it or the one after it.     *)
CancelRest(w, symbols) ==
  /\ toCancel' = [toCancel EXCEPT ![w] = symbols]
  /\ Goto(w, IF symbols = {} THEN "readPositions" ELSE "cancelling")

CloseRest(w, positions) ==
  /\ toClose' = [toClose EXCEPT ![w] = positions]
  /\ Goto(w, IF positions = {} THEN "readFinal" ELSE "closing")

(* _cancel_all_orders: one read of every open order, then one cancel per   *)
(* symbol; the first failure ends the step.                                *)
ReadOpenOrders(w) ==
  /\ pc[w] = "readOrders"
  /\ CancelRest(w, WorkingSymbols)
  /\ UNCHANGED <<sessionVars, accountVars, order, sentAt, expected, toClose, report,
                 feedVars, historyVars>>

CancelSymbol(w) ==
  /\ pc[w] = "cancelling"
  /\ \E s \in toCancel[w] : /\ CancelAll(s)
                            /\ CancelRest(w, toCancel[w] \ {s})
  /\ UNCHANGED <<sessionVars, order, sentAt, expected, toClose, report, feedVars, historyVars>>

(* A read or a cancel raises; a cancel that raises may have been done.     *)
CancelStepFails(w) ==
  /\ pc[w] \in {"readOrders", "cancelling"}
  /\ \/ UNCHANGED accountVars
     \/ \E s \in toCancel[w] : CancelAll(s)
  /\ report' = [report EXCEPT ![w].cancelled = FALSE]
  /\ CancelRest(w, {})
  /\ UNCHANGED <<sessionVars, order, sentAt, expected, toClose, feedVars, historyVars>>

(* _close_all_positions: one read of every position, then one reduce-only  *)
(* MARKET order of the opposite side for each amount read.                 *)
ClosingSide(amount) == IF amount > 0 THEN "SELL" ELSE "BUY"

ReadPositions(w) ==
  /\ pc[w] = "readPositions"
  /\ CloseRest(w, {<<s, position[s]>> : s \in OpenSymbols})
  /\ UNCHANGED <<sessionVars, accountVars, order, sentAt, expected, toCancel, report,
                 feedVars, historyVars>>

ClosePosition(w) ==
  /\ pc[w] = "closing"
  /\ \E p \in toClose[w] :
       /\ ReduceAtMarket(p[1], ClosingSide(p[2]), Magnitude(p[2]))
       /\ CloseRest(w, toClose[w] \ {p})
  /\ UNCHANGED <<sessionVars, order, sentAt, expected, toCancel, report, feedVars, historyVars>>

(* Mutant: a failed close is reported as a success.                        *)
CloseFailureSwallowed(w) ==
  /\ pc[w] \in {"readPositions", "closing"}
  /\ \/ UNCHANGED accountVars
     \/ \E p \in toClose[w] : ReduceAtMarket(p[1], ClosingSide(p[2]), Magnitude(p[2]))
  /\ CloseRest(w, {})
  /\ UNCHANGED <<sessionVars, order, sentAt, expected, toCancel, report, feedVars, historyVars>>

(* A read or a closing order raises, one the exchange filled included: the *)
(* positions after it in the list are not attempted.                       *)
CloseStepFails(w) ==
  /\ pc[w] \in {"readPositions", "closing"}
  /\ \/ UNCHANGED accountVars
     \/ \E p \in toClose[w] : ReduceAtMarket(p[1], ClosingSide(p[2]), Magnitude(p[2]))
  /\ report' = [report EXCEPT ![w].closed = FALSE]
  /\ CloseRest(w, {})
  /\ UNCHANGED <<sessionVars, order, sentAt, expected, toCancel, feedVars, historyVars>>

(* _read_final_state, and the result handed to the screen.                 *)
ReadFinal(w) ==
  /\ pc[w] = "readFinal"
  /\ \E confirmed \in BOOLEAN :
       report' = [report EXCEPT ![w] =
                    [@ EXCEPT !.confirmed = confirmed,
                              !.positions = IF confirmed THEN OpenSymbols ELSE {}]]
  /\ Goto(w, "stopped")
  /\ UNCHANGED <<sessionVars, accountVars, order, sentAt, expected, toCancel,
                 toClose, feedVars, historyVars>>

StopReturns(w) ==
  /\ pc[w] = "stopped"
  /\ Return(w)
  /\ UNCHANGED <<sessionVars, accountVars, feedVars, disables, flatSince>>

EmergencyStop(w) ==
  \/ BeginStop(w) \/ StopStopsStream(w)
  \/ ReadOpenOrders(w) \/ CancelSymbol(w) \/ CancelStepFails(w)
  \/ ReadPositions(w) \/ ClosePosition(w) \/ CloseStepFails(w)
  \/ ReadFinal(w) \/ StopReturns(w)

(* EmergencyStopResult.fully_succeeded.  Its third conjunct is left out: the *)
(* disable step fails only when a concurrent stop() of the stream raises.    *)
FullySucceeded(w) == report[w].cancelled /\ report[w].closed

-----------------------------------------------------------------------------
(* FuturesUserDataStream._handle_account_update and                        *)
(* reconcile_position_state, for one symbol.                               *)

Notice(s) ==
  /\ streaming
  /\ noticed = NoSymbol
  /\ session.generation < MaxGeneration
  /\ noticed' = s
  /\ UNCHANGED <<sessionVars, accountVars, workerVars, streaming, heard, historyVars>>

HearPosition ==
  /\ noticed # NoSymbol
  /\ heard = "unread"
  /\ heard' = IF position[noticed] # 0 THEN "open" ELSE "flat"
  /\ UNCHANGED <<sessionVars, accountVars, workerVars, streaming, noticed, historyVars>>

(* get_positions(symbol) fails: the message is lost.                       *)
HearNothing ==
  /\ noticed # NoSymbol
  /\ heard = "unread"
  /\ noticed' = NoSymbol
  /\ UNCHANGED <<sessionVars, accountVars, workerVars, streaming, heard, historyVars>>

(* Mutant: the answer applied stays behind for the next message.           *)
ReconcileKeepsAnswer ==
  /\ heard # "unread"
  /\ session' = AfterReconcile(session, noticed, heard = "open")
  /\ noticed' = NoSymbol
  /\ UNCHANGED <<guard, now, accountVars, workerVars, streaming, heard, historyVars>>

Reconcile ==
  /\ heard # "unread"
  /\ session' = AfterReconcile(session, noticed, heard = "open")
  /\ flatSince' = IF heard = "flat"
                    THEN [flatSince EXCEPT ![noticed] = Len(ledger)] ELSE flatSince
  /\ noticed' = NoSymbol
  /\ heard' = "unread"
  /\ UNCHANGED <<guard, now, accountVars, workerVars, streaming, disables, before, mark>>

AccountFeed == (\E s \in UpdatedSymbols : Notice(s)) \/ HearPosition \/ HearNothing \/ Reconcile

-----------------------------------------------------------------------------
(* The exchange, on its own. *)

ExchangeMoves ==
  /\ \/ \E i \in DOMAIN ledger : FillOrder(i)
     \/ \E s \in Symbols : CloseElsewhere(s)
  /\ UNCHANGED <<sessionVars, workerVars, feedVars, historyVars>>

Tick ==
  /\ now < MaxTime
  /\ now' = now + 1
  /\ UNCHANGED <<session, guard, accountVars, workerVars, feedVars, historyVars>>

-----------------------------------------------------------------------------
Handler(w) ==
  ExecuteOrder(w) \/ Cancel(w) \/ EnableTrading(w) \/ DisableTrading(w) \/ EmergencyStop(w)

Next == (\E w \in Workers : Handler(w)) \/ AccountFeed \/ ExchangeMoves \/ Tick

Spec == Init /\ [][Next]_vars

(* The steps of an emergency stop that has begun.  A pool thread runs them *)
(* to the end: each network call returns or raises, by its own timeout.    *)
StopProceeds(w) ==
  \/ StopStopsStream(w)
  \/ ReadOpenOrders(w) \/ CancelSymbol(w) \/ CancelStepFails(w)
  \/ ReadPositions(w) \/ ClosePosition(w) \/ CloseStepFails(w)
  \/ ReadFinal(w) \/ StopReturns(w)

FairSpec == Spec /\ \A w \in Workers : WF_vars(StopProceeds(w))

-----------------------------------------------------------------------------
(* Properties. *)

GuardSteps == {"placing", "accepted"}
StopSteps  == {"stopping", "readOrders", "cancelling", "readPositions",
               "closing", "readFinal", "stopped"}
Steps == GuardSteps \cup StopSteps \cup
         {"idle", "gated", "refused", "cancelGated", "reconciling", "flatRead", "starting", "disabled"}

Entries ==
  [ symbol : Symbols, side : Sides, reduceOnly : BOOLEAN, status : OrderStates,
    by : Workers, at : Nat, lost : BOOLEAN, late : Nat ]

Reports ==
  [ cancelled : BOOLEAN, closed : BOOLEAN,
    positions : SUBSET Symbols, confirmed : BOOLEAN ]

SharedTypeOK ==
  /\ session \in Sessions
  /\ guard \in Workers \cup {NoWorker}
  /\ now \in Nat
  /\ disables \in Nat
  /\ flatSince \in [Symbols -> Nat]

AccountTypeOK ==
  /\ position \in [Symbols -> Int]
  /\ ledger \in Seq(Entries)

WorkerTypeOK ==
  /\ pc \in [Workers -> Steps]
  /\ order \in [Workers -> OrderRequests \cup {NoOrder}]
  /\ sentAt \in [Workers -> Nat]
  /\ expected \in [Workers -> Nat]
  /\ toCancel \in [Workers -> SUBSET Symbols]
  /\ toClose \in [Workers -> SUBSET (Symbols \X Int)]
  /\ report \in [Workers -> Reports]
  /\ before \in [Workers -> Nat]
  /\ mark \in [Workers -> Nat]

(* heard is an answer only while a message is being handled.               *)
FeedTypeOK ==
  /\ streaming \in BOOLEAN
  /\ noticed \in Symbols \cup {NoSymbol}
  /\ heard \in {"unread", "flat", "open"}
  /\ heard # "unread" => noticed # NoSymbol

(* A worker between the gate and the end of its submission has an order.   *)
OrderInHand ==
  \A w \in Workers :
    pc[w] \in GuardSteps \cup {"gated", "refused"} => order[w] \in OrderRequests

(* The types of the variables, where those of a worker's locals and of the *)
(* feed's answer depend on how far their handler has come.                 *)
TypeOK == SharedTypeOK /\ AccountTypeOK /\ WorkerTypeOK /\ FeedTypeOK /\ OrderInHand

(* Orders the exchange accepted and answered. *)
Answered == { i \in DOMAIN ledger : ~ledger[i].lost }

SameSymbol(i, j) == ledger[i].symbol = ledger[j].symbol

(* However many workers execute orders at once, the answered orders of a   *)
(* session stay within max_orders_per_session: evaluating the limits,      *)
(* submitting and recording are one section of live_submission_guard().    *)
SessionOrderCap == Cardinality(Answered) <= MaxOrdersPerSession

(* Two answered orders of one symbol are never both newer than the last    *)
(* time the session was told the symbol is flat (an enable, or the account *)
(* feed): known_open_symbols blocks the second one until then.             *)
OneOrderPerFlatReading ==
  \A i, j \in Answered :
    i < j /\ SameSymbol(i, j) => i <= flatSince[ledger[i].symbol]

(* Two answered orders of one symbol are min_order_interval apart, across  *)
(* workers and across turning trading off and on again.                    *)
OrdersSpacedOut ==
  \A i, j \in Answered :
    i < j /\ SameSymbol(i, j) => ledger[j].at - ledger[i].at >= MinOrderInterval

(* An enable whose reconciliation overlapped a disable or an emergency     *)
(* stop never takes effect: the generation it read has moved on.           *)
NoEnableAcrossStop ==
  [][\A w \in Workers :
       pc[w] = "flatRead" /\ pc'[w] = "starting" => before[w] = disables]_vars

(* An order the exchange accepts while trading is off comes from a command *)
(* that passed the gate while it was on; so each worker slips at most one  *)
(* order past each disable().                                              *)
OneLateOrderPerStop ==
  \A i, j \in DOMAIN ledger :
    i # j /\ ledger[i].by = ledger[j].by /\ ledger[i].late # 0
      => ledger[i].late # ledger[j].late

(* An emergency stop that reports full success, with no order accepted     *)
(* since it turned trading off, leaves the account flat and the book empty *)
(* of this program's orders.                                               *)
StopReportTruthful ==
  \A w \in Workers :
    pc[w] = "stopped" /\ FullySucceeded(w) /\ mark[w] = Len(ledger)
      => OpenSymbols = {} /\ WorkingSymbols = {}

(* An emergency stop that began comes to its end, even while an order      *)
(* submission hangs in its network call and holds the submission guard.    *)
StopCompletes ==
  \A w \in Workers : pc[w] = "stopping" ~> pc[w] = "idle"

-----------------------------------------------------------------------------
(* What the repository says and the code does not do. *)

(* emergency_stop/handler.py:80-82: trading is disabled first, so that no  *)
(* order can slip in while orders are cancelled and positions closed.      *)
NoOrderSlipsIn ==
  \A w \in Workers : pc[w] \in StopSteps => mark[w] = Len(ledger)

(* enable_trading/handler.py:64-67: the user data stream only flows once   *)
(* trading is actually turned on.  Between commands it runs with trading.  *)
StreamFollowsSwitch ==
  (\A w \in Workers : pc[w] = "idle") => (streaming => session.enabled)

(* manual_order_intent.py:47-48: a click against an open position is an    *)
(* order that closes it; so it is not one more position of the symbol.     *)
ClosingOrderNotRefused ==
  [][\A w \in Workers :
       pc[w] = "gated" /\ pc'[w] = "refused" /\ order[w].reduceOnly /\ Acceptable(order[w])
         => Violations(w) # {"max_positions_per_symbol"}]_vars
=============================================================================
