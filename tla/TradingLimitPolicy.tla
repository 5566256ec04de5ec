-------------------------- MODULE TradingLimitPolicy --------------------------
(***************************************************************************)
(* The four limits an order must pass before it is sent                    *)
(* (src/domain/trading/policies/trading_limit_policy.py).  A quantity, a   *)
(* price or a notional is a natural number; a time is a tick of the clock. *)
(***************************************************************************)
EXTENDS Integers

CONSTANTS
  MaxOrdersPerSession,     \* TradingLimits.max_orders_per_session
  MaxNotionalPerOrder,     \* TradingLimits.max_notional_per_order
  MaxPositionsPerSymbol,   \* TradingLimits.max_positions_per_symbol
  MinOrderInterval         \* TradingLimits.min_order_interval

ASSUME LimitsAssumption ==
  /\ MaxOrdersPerSession \in Nat
  /\ MaxNotionalPerOrder \in Nat
  /\ MaxPositionsPerSymbol \in Nat
  /\ MinOrderInterval \in Nat

(* time_since_last_order() returns None before the first order of a symbol: *)
(* an order time of Never stands for that missing entry.                    *)
Never == -1

LimitNames ==
  {"max_orders_per_session", "max_notional_per_order",
   "max_positions_per_symbol", "min_order_interval"}

(* Mutant: the interval check lets an order through one tick early.         *)
FailedLimitsTickEarly(ordersSent, notional, openPositions, lastOrder, now) ==
  { limit \in LimitNames :
      CASE limit = "max_orders_per_session"   -> ~(ordersSent < MaxOrdersPerSession)
        [] limit = "max_notional_per_order"   -> ~(notional <= MaxNotionalPerOrder)
        [] limit = "max_positions_per_symbol" -> ~(openPositions < MaxPositionsPerSymbol)
        [] limit = "min_order_interval"       -> /\ lastOrder # Never
                                                 /\ ~(now - lastOrder + 1 >= MinOrderInterval) }

(* TradingLimitPolicy.evaluate: the limits a context fails.  The handler    *)
(* refuses the order when there is one.                                     *)
FailedLimits(ordersSent, notional, openPositions, lastOrder, now) ==
  { limit \in LimitNames :
      CASE limit = "max_orders_per_session"   -> ~(ordersSent < MaxOrdersPerSession)
        [] limit = "max_notional_per_order"   -> ~(notional <= MaxNotionalPerOrder)
        [] limit = "max_positions_per_symbol" -> ~(openPositions < MaxPositionsPerSymbol)
        [] limit = "min_order_interval"       -> /\ lastOrder # Never
                                                 /\ ~(now - lastOrder >= MinOrderInterval) }
=============================================================================
