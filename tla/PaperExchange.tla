---------------------------- MODULE PaperExchange ----------------------------
(***************************************************************************)
(* The simulated broker of a backtest: PaperExchange with its three        *)
(* policies, MarginRiskPolicy, OrderMatchingPolicy and FeeCalculatorPolicy.*)
(*                                                                         *)
(* Money, prices and quantities are integers and a division rounds down,   *)
(* where the code has floats.  Percentages are whole.  Positions and trades*)
(* are sets: at most one signal is filled in a bar, so the bar in which a  *)
(* position was opened identifies it.                                      *)
(***************************************************************************)
EXTENDS Integers, FiniteSets, FiniteSetsExt

CONSTANTS
  Configs,          \* the broker settings and position sizings to simulate
  InitialBalance,
  NoLevel           \* None: a stop-loss or take-profit that is not set

Sizings == {"percent_of_equity", "fixed_cash", "fixed_contracts", "risk_percent"}

Commissions == {"percent", "cash_per_order", "cash_per_contract"}

(* BrokerSimulationConfig and PositionSizing with what they validate.      *)
ASSUME ConfigAssumption ==
  /\ InitialBalance \in Nat \ {0}
  /\ NoLevel \notin Int
  /\ \A c \in Configs :
       /\ c.slippage \in Nat
       /\ c.commission \in Commissions /\ c.fee \in Nat
       /\ c.pyramiding \in Nat \ {0}
       /\ c.leverage \in [{"LONG", "SHORT"} -> Nat \ {0}]
       /\ c.stopPercent = NoLevel \/ c.stopPercent \in 1 .. 99
       /\ c.targetPercent = NoLevel \/ c.targetPercent \in Nat \ {0}
       /\ c.sizing \in Sizings /\ c.size \in Nat \ {0}
       /\ c.sizing \in {"percent_of_equity", "risk_percent"} => c.size <= 100

VARIABLES
  config,      \* _broker_config and _position_sizing
  cash,        \* _balance
  positions,   \* _positions
  trades       \* _trades

brokerVars == <<config, cash, positions, trades>>

ExchangeInit ==
  /\ config \in Configs
  /\ cash = InitialBalance
  /\ positions = {}
  /\ trades = {}

--------------------------------------------------------------------------
(* OrderMatchingPolicy: the price of a fill.  A buy pays the slippage on   *)
(* top, a sale loses it and never goes below zero.                         *)

BuyPrice(price) == price + config.slippage

SellPrice(price) == Max({0, price - config.slippage})

EntryPrice(side, price) ==
  IF side = "LONG" THEN BuyPrice(price) ELSE SellPrice(price)

ExitPrice(side, price) ==
  IF side = "LONG" THEN SellPrice(price) ELSE BuyPrice(price)

Percent(percent, amount) == (percent * amount) \div 100

(* A level a percentage away from the entry, in the direction of sign.     *)
Level(entry, percent, sign) ==
  IF percent = NoLevel THEN NoLevel
  ELSE Percent(100 + sign * percent, entry)

Direction(side) == IF side = "LONG" THEN 1 ELSE -1

StopHit(pos, high, low) ==
  /\ pos.stop # NoLevel
  /\ IF pos.side = "LONG" THEN low <= pos.stop ELSE high >= pos.stop

TargetHit(pos, high, low) ==
  /\ pos.target # NoLevel
  /\ IF pos.side = "LONG" THEN high >= pos.target ELSE low <= pos.target

(* What a bar does to a position: the stop wins over the target, and both  *)
(* fill at their level.                                                    *)
Triggered(high, low) ==
  {[pos |-> pos, price |-> pos.stop, reason |-> "stop_loss"] :
     pos \in {q \in positions : StopHit(q, high, low)}}
  \cup
  {[pos |-> pos, price |-> pos.target, reason |-> "take_profit"] :
     pos \in {q \in positions : TargetHit(q, high, low) /\ ~StopHit(q, high, low)}}

--------------------------------------------------------------------------
(* MarginRiskPolicy and FeeCalculatorPolicy.                               *)

Spot(pos) == pos.side = "LONG" /\ pos.leverage = 1

PriceGain(pos, price) == Direction(pos.side) * (price - pos.entry) * pos.quantity

MarkToMarket(pos, price) ==
  IF Spot(pos) THEN pos.quantity * price ELSE pos.margin + PriceGain(pos, price)

Worth(S, price) == MapThenSumSet(LAMBDA pos : MarkToMarket(pos, price), S)

Equity(price) == cash + Worth(positions, price)

(* Mutant: leverage multiplies a risk-sized order like a capital-sized one. *)
RiskLeveraged(price, equity, leverage) ==
  LET share == Percent(config.size, equity)
      margin == IF config.sizing = "risk_percent" THEN (100 * share) \div config.stopPercent
                ELSE share
  IN  [margin |-> margin, notional |-> margin * leverage]

(* The margin and the notional value the sizing asks for at a price.       *)
Wanted(price, equity, leverage) ==
  CASE config.sizing = "percent_of_equity" ->
         LET margin == Percent(config.size, equity)
         IN  [margin |-> margin, notional |-> margin * leverage]
    [] config.sizing = "fixed_cash" ->
         [margin |-> config.size, notional |-> config.size * leverage]
    [] config.sizing = "fixed_contracts" ->
         [margin |-> (config.size * price) \div leverage, notional |-> config.size * price]
    [] config.sizing = "risk_percent" /\ config.stopPercent # NoLevel ->
         LET notional == (config.size * equity) \div config.stopPercent
         IN  [margin |-> notional \div leverage, notional |-> notional]
    [] OTHER -> [margin |-> 0, notional |-> 0]

(* Mutant: the margin is not clamped to the cash.                          *)
Unclamped(wanted) == wanted

(* No more margin than there is cash; the notional shrinks in proportion.  *)
Affordable(wanted) ==
  IF wanted.margin <= cash THEN wanted
  ELSE [margin |-> cash, notional |-> (wanted.notional * cash) \div wanted.margin]

Quantity(notional, price) ==
  CASE config.commission = "percent" ->
         (notional - Percent(config.fee, notional)) \div price
    [] config.commission = "cash_per_order" -> (notional - config.fee) \div price
    [] config.commission = "cash_per_contract" -> notional \div (price + config.fee)

EntryFee(notional, quantity) ==
  CASE config.commission = "percent" -> Percent(config.fee, notional)
    [] config.commission = "cash_per_order" -> config.fee
    [] config.commission = "cash_per_contract" -> quantity * config.fee

ExitFee(quantity, price) ==
  IF price <= 0 THEN 0 ELSE EntryFee(quantity * price, quantity)

Pnl(pos, price) ==
  IF Spot(pos)
  THEN pos.quantity * price - ExitFee(pos.quantity, price) - pos.margin
  ELSE PriceGain(pos, price) - pos.fee - ExitFee(pos.quantity, price)

(* Mutant: every long position is released like a spot one.                *)
ReleaseLongAsSpot(pos, price) ==
  IF pos.side = "LONG"
  THEN pos.quantity * price - ExitFee(pos.quantity, price)
  ELSE pos.margin + Pnl(pos, price)

(* The cash a closed position gives back.                                  *)
Release(pos, price) ==
  IF Spot(pos)
  THEN pos.quantity * price - ExitFee(pos.quantity, price)
  ELSE pos.margin + Pnl(pos, price)

--------------------------------------------------------------------------
(* The operations, each in the bar numbered `at`.                          *)

Opposite(side) == IF side = "LONG" THEN "SHORT" ELSE "LONG"

(* Mutant: an entry does not look at the opposite side.                    *)
MayOpenEitherSide(side) ==
  side \in {"LONG", "SHORT"} /\ Cardinality(positions) < config.pyramiding

MayOpen(side) ==
  /\ \A pos \in positions : pos.side # Opposite(side)
  /\ Cardinality(positions) < config.pyramiding

(* The position an entry at a price would open; `decided` stands for what  *)
(* the entry copies from its signal.                                       *)
Entry(side, price, at, decided) ==
  LET entry    == EntryPrice(side, price)
      leverage == config.leverage[side]
      capital  == Affordable(Wanted(entry, Equity(price), leverage))
      quantity == Quantity(capital.notional, entry)
  IN  [opened |-> at, decided |-> decided, side |-> side, quantity |-> quantity,
       entry |-> entry, margin |-> capital.margin,
       fee |-> EntryFee(capital.notional, quantity), leverage |-> leverage,
       stop |-> Level(entry, config.stopPercent, -Direction(side)),
       target |-> Level(entry, config.targetPercent, Direction(side))]

(* Mutant: a quantity of zero is not rejected.                             *)
FundableAtZero(side, price) ==
  LET entry == EntryPrice(side, price)
      asked == Wanted(entry, Equity(price), config.leverage[side])
  IN  entry > 0 /\ asked.margin > 0 /\ Affordable(asked).margin > 0

(* The sizing leaves something to buy; otherwise the entry is rejected.    *)
Fundable(side, price) ==
  LET entry == EntryPrice(side, price)
      asked == Wanted(entry, Equity(price), config.leverage[side])
  IN  /\ entry > 0
      /\ asked.margin > 0 /\ Affordable(asked).margin > 0
      /\ Affordable(asked).notional > 0
      /\ Quantity(Affordable(asked).notional, entry) > 0

Open(side, price, at, decided) ==
  IF MayOpen(side) /\ Fundable(side, price)
  THEN LET pos == Entry(side, price, at, decided)
       IN  /\ positions' = positions \cup {pos}
           /\ cash' = cash - pos.margin
           /\ UNCHANGED <<config, trades>>
  ELSE UNCHANGED brokerVars

Released(exits) == MapThenSumSet(LAMBDA e : Release(e.pos, e.price), exits)

Closed(exit, at) ==
  [opened |-> exit.pos.opened, decided |-> exit.pos.decided, closed |-> at,
   pnl |-> Pnl(exit.pos, exit.price), reason |-> exit.reason]

CloseEach(exits, at) ==
  /\ positions' = positions \ {e.pos : e \in exits}
  /\ cash' = cash + Released(exits)
  /\ trades' = trades \cup {Closed(e, at) : e \in exits}
  /\ UNCHANGED config

(* Every position of a side, at the market.                                *)
ExitsAtMarket(sides, price, reason) ==
  {[pos |-> pos, price |-> ExitPrice(pos.side, price), reason |-> reason] :
     pos \in {q \in positions : q.side \in sides}}

Close(side, price, at) ==
  CloseEach(ExitsAtMarket({side}, price, "strategy_signal"), at)

(* SignalAction, without HOLD.                                             *)
SignalActions == {"BUY", "SELL", "SHORT", "COVER"}

Fill(action, price, at, decided) ==
  \/ action = "BUY"   /\ Open("LONG", price, at, decided)
  \/ action = "SELL"  /\ Close("LONG", price, at)
  \/ action = "SHORT" /\ Open("SHORT", price, at, decided)
  \/ action = "COVER" /\ Close("SHORT", price, at)

CheckIntrabarStops(high, low, at) == CloseEach(Triggered(high, low), at)

ForceClose(price, at) ==
  CloseEach(ExitsAtMarket({"LONG", "SHORT"}, price, "end_of_backtest"), at)

--------------------------------------------------------------------------
(* What rounding a long's stop level down to a whole price adds to its     *)
(* loss at the stop: nothing if the level is a whole price, as it is with  *)
(* the floats of the code, and else less than one per unit.                *)
StopRounding(pos) ==
  IF pos.side = "LONG" /\ (config.stopPercent * pos.entry) % 100 # 0
  THEN pos.quantity ELSE 0

Margins(S) == MapThenSumSet(LAMBDA pos : pos.margin, S)

Profits(S) == MapThenSumSet(LAMBDA trade : trade.pnl, S)

(* Not a cent appears or is lost: the cash and the margins locked in open  *)
(* positions are the initial balance and the profits of the trades.  The   *)
(* deduction of an entry and the release of an exit, which differ between  *)
(* a spot position and a leveraged or short one, have to match, each       *)
(* position has to be released once, and the fee charged once; the final   *)
(* balance of the result and its list of trades then agree.                *)
MoneyConserved == cash + Margins(positions) = InitialBalance + Profits(trades)
=============================================================================
