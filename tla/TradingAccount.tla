---------------------------- MODULE TradingAccount ----------------------------
(***************************************************************************)
(* The Binance Futures account as this program uses it (external: modelled *)
(* from src/infrastructure/binance/futures_trading_client.py and           *)
(* live_position.py).  One-way mode: one signed position per symbol.  An   *)
(* order moves the position by one unit; a reduce-only order never opens   *)
(* or flips a position and is refused when there is nothing to reduce.     *)
(***************************************************************************)
EXTENDS TradingSessionState, Sequences

CONSTANTS
  Actions,     \* the signal actions callers turn into orders
  Notionals    \* the estimated notionals of the orders callers ask for

ASSUME ActionsAssumption == Actions \subseteq {"BUY", "SELL", "SHORT", "COVER"}
ASSUME NotionalsAssumption == Notionals \subseteq Nat

VARIABLES
  position,    \* position[s]: signed position of symbol s, 0 when flat
  ledger       \* the ExecuteOrder orders the exchange accepted, in order

accountVars == <<position, ledger>>

Sides == {"BUY", "SELL"}

(* order_intent_for and manual_order_intent_for: BUY and SHORT open, SELL  *)
(* closes a long and COVER a short.                                        *)
OrderIntent(action) ==
  [ side       |-> IF action \in {"BUY", "COVER"} THEN "BUY" ELSE "SELL",
    reduceOnly |-> action \in {"SELL", "COVER"} ]

(* What a caller of ExecuteOrderCommand asks for. *)
OrderRequest(symbol, action, notional) ==
  [ symbol |-> symbol, side |-> OrderIntent(action).side,
    reduceOnly |-> OrderIntent(action).reduceOnly, notional |-> notional ]

OrderRequests ==
  [symbol : Symbols, side : Sides, reduceOnly : BOOLEAN, notional : Notionals]

OrderStates == {"working", "filled", "cancelled"}

(* What one unit of an order does to the signed position. *)
Unit(side) == IF side = "BUY" THEN 1 ELSE -1

Opposes(side, amount) == IF side = "BUY" THEN amount < 0 ELSE amount > 0

(* The exchange refuses a reduce-only order that reduces nothing. *)
Acceptable(order) ==
  order.reduceOnly => Opposes(order.side, position[order.symbol])

(* The position of the order's symbol once the order has filled: a         *)
(* reduce-only order that no longer opposes the position expires instead.  *)
Fills(order) == order.reduceOnly => Opposes(order.side, position[order.symbol])

AfterFill(order) == [position EXCEPT ![order.symbol] = @ + Unit(order.side)]

(* futures_create_order accepted: the order rests in the book or fills at  *)
(* once.                                                                   *)
Accept(entry) ==
  /\ ledger' = Append(ledger, entry)
  /\ position' = IF entry.status = "filled" THEN AfterFill(entry) ELSE position

(* A resting order fills, or expires when it is reduce-only and nothing is *)
(* left to reduce.                                                         *)
FillOrder(i) ==
  /\ i \in DOMAIN ledger
  /\ ledger[i].status = "working"
  /\ IF Fills(ledger[i])
       THEN /\ ledger' = [ledger EXCEPT ![i].status = "filled"]
            /\ position' = AfterFill(ledger[i])
       ELSE /\ ledger' = [ledger EXCEPT ![i].status = "cancelled"]
            /\ UNCHANGED position

(* The position is closed without this program: a liquidation, or the user *)
(* on the exchange's own site.                                             *)
CloseElsewhere(s) ==
  /\ position[s] # 0
  /\ position' = [position EXCEPT ![s] = 0]
  /\ UNCHANGED ledger

WorkingSymbols ==
  { ledger[i].symbol : i \in {j \in DOMAIN ledger : ledger[j].status = "working"} }

OpenSymbols == { s \in Symbols : position[s] # 0 }

(* futures_cancel_order of one order. *)
CancelOne(i) ==
  /\ ledger' = [ledger EXCEPT ![i].status = IF @ = "working" THEN "cancelled" ELSE @]
  /\ UNCHANGED position

(* futures_cancel_all_open_orders of a symbol. *)
CancelAll(s) ==
  /\ ledger' = [i \in DOMAIN ledger |->
                  IF ledger[i].symbol = s /\ ledger[i].status = "working"
                    THEN [ledger[i] EXCEPT !.status = "cancelled"]
                    ELSE ledger[i]]
  /\ UNCHANGED position

(* A reduce-only MARKET order fills at once, for at most what is still     *)
(* open; the exchange refuses it when there is nothing to reduce.          *)
Magnitude(n) == IF n < 0 THEN -n ELSE n

ReduceAtMarket(s, side, quantity) ==
  /\ Opposes(side, position[s])
  /\ position' = [position EXCEPT ![s] =
                    IF quantity < Magnitude(@)
                      THEN @ + (IF side = "BUY" THEN quantity ELSE -quantity)
                      ELSE 0]
  /\ UNCHANGED ledger
=============================================================================
