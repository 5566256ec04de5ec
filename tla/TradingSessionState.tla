------------------------- MODULE TradingSessionState -------------------------
(***************************************************************************)
(* The in-memory record of "is live trading on right now, and what does    *)
(* this app currently believe about the account"                           *)
(* (src/application/services/trading_session_state.py).                    *)
(*                                                                         *)
(* Every method takes self._lock for its whole body, so each is one atomic *)
(* function of the session record here.  The second lock,                  *)
(* live_submission_guard(), is held across network calls and is a variable *)
(* of LiveTrading.                                                         *)
(***************************************************************************)
EXTENDS TradingLimitPolicy

CONSTANT Symbols

(* TradingSessionState.__init__ *)
NewSession ==
  [ enabled       |-> FALSE,
    ordersSent    |-> 0,                             \* orders_sent_this_session
    knownOpen     |-> {},                            \* known_open_symbols
    lastOrderTime |-> [s \in Symbols |-> Never],     \* _last_order_time_by_symbol
    generation    |-> 0 ]

Sessions ==
  [ enabled       : BOOLEAN,
    ordersSent    : Nat,
    knownOpen     : SUBSET Symbols,
    lastOrderTime : [Symbols -> Nat \cup {Never}],
    generation    : Nat ]

(* enable(open_symbols, expected_generation=...) when the generation still *)
(* is the expected one.                                                    *)
EnableApplies(session, expectedGeneration) ==
  expectedGeneration = session.generation

AfterEnable(session, openSymbols) ==
  [session EXCEPT !.enabled = TRUE,
                  !.knownOpen = openSymbols,
                  !.generation = @ + 1]

(* disable() *)
AfterDisable(session) ==
  [session EXCEPT !.enabled = FALSE,
                  !.generation = @ + 1]

(* Mutant: the symbol is not assumed open.                                 *)
AfterOrderSentForgetsSymbol(session, symbol, when) ==
  [session EXCEPT !.ordersSent = @ + 1,
                  !.lastOrderTime[symbol] = when,
                  !.generation = @ + 1]

(* record_order_sent(symbol, when) *)
AfterOrderSent(session, symbol, when) ==
  [session EXCEPT !.ordersSent = @ + 1,
                  !.lastOrderTime[symbol] = when,
                  !.knownOpen = @ \cup {symbol},
                  !.generation = @ + 1]

(* reconcile_position(symbol, has_position=...) *)
AfterReconcile(session, symbol, hasPosition) ==
  [session EXCEPT !.knownOpen = IF hasPosition THEN @ \cup {symbol} ELSE @ \ {symbol},
                  !.generation = @ + 1]

(* open_position_count(symbol): flat or one position, never a real count.  *)
OpenPositionCount(session, symbol) ==
  IF symbol \in session.knownOpen THEN 1 ELSE 0

(* The TradingLimitContext that ExecuteOrderCommandHandler builds from the *)
(* session, and the limits it fails.                                       *)
OrderViolations(session, symbol, notional, now) ==
  FailedLimits(session.ordersSent, notional, OpenPositionCount(session, symbol),
               session.lastOrderTime[symbol], now)
=============================================================================
