---------------------------- MODULE StaticBacktest ----------------------------
(***************************************************************************)
(* One phase of a static backtest: RunStaticBacktestCommandHandler's       *)
(* _simulate, which replays bars from the database through a strategy      *)
(* engine against a PaperExchange.                                         *)
(*                                                                         *)
(* The bars and what the strategy makes of them are arbitrary.  The equity *)
(* curve and the progress reports, which nothing reads back, are left out. *)
(***************************************************************************)
EXTENDS PaperExchange

CONSTANTS
  Prices,      \* the prices a bar is made of
  NoCandle, NoSignal,    \* None
  MaxBars      \* bound: bars replayed

ASSUME BacktestAssumption ==
  /\ Prices \subseteq Nat \ {0}
  /\ NoSignal \notin [action : STRING, bar : Nat]
  /\ MaxBars \in Nat

VARIABLES
  step,        \* what the loop does next, or how the phase ended
  bar,         \* index: the number of the bar being replayed
  candle,      \* that bar
  pending      \* pending_signal, and the bar in which it was decided

vars == <<step, bar, candle, pending, brokerVars>>

Candles ==
  {c \in [open : Prices, high : Prices, low : Prices, close : Prices] :
     /\ c.low <= c.open /\ c.open <= c.high
     /\ c.low <= c.close /\ c.close <= c.high}

Init ==
  /\ ExchangeInit
  /\ step = "next_bar"
  /\ bar = 0
  /\ candle = NoCandle
  /\ pending = NoSignal

(* Mutant: a filled signal stays pending.                                  *)
NextBarKeepsSignal ==
  /\ step = "next_bar" /\ bar < MaxBars
  /\ bar' = bar + 1
  /\ candle' \in Candles
  /\ IF pending = NoSignal THEN UNCHANGED brokerVars
     ELSE Fill(pending.action, candle'.open, bar', pending.bar)
  /\ step' = "stops"
  /\ UNCHANGED pending

(* A bar begins with the signal of the bar before it, filled at its open.  *)
NextBar ==
  /\ step = "next_bar" /\ bar < MaxBars
  /\ bar' = bar + 1
  /\ candle' \in Candles
  /\ IF pending = NoSignal THEN UNCHANGED brokerVars
     ELSE Fill(pending.action, candle'.open, bar', pending.bar)
  /\ pending' = NoSignal
  /\ step' = "stops"

(* Mutant: a position is checked from the bar after its entry on.          *)
CheckStopsOfOlder ==
  /\ step = "stops"
  /\ CloseEach({e \in Triggered(candle.high, candle.low) : e.pos.opened < bar}, bar)
  /\ step' = "decide"
  /\ UNCHANGED <<bar, candle, pending>>

CheckStops ==
  /\ step = "stops"
  /\ CheckIntrabarStops(candle.high, candle.low, bar)
  /\ step' = "decide"
  /\ UNCHANGED <<bar, candle, pending>>

(* StrategyEngine.on_tick at the close of the bar.                         *)
Decide ==
  /\ step = "decide"
  /\ \/ pending' \in [action : SignalActions, bar : {bar}]
     \/ UNCHANGED pending
  /\ step' = "next_bar"
  /\ UNCHANGED <<bar, candle, brokerVars>>

(* The stream has no more bars: what is open is closed at the last close.  *)
Finish ==
  /\ step = "next_bar" /\ bar > 0
  /\ ForceClose(candle.close, bar)
  /\ step' = "finished"
  /\ UNCHANGED <<bar, candle, pending>>

(* It had none at all, against the count taken before.                     *)
EmptyStream ==
  /\ step = "next_bar" /\ bar = 0
  /\ step' = "failed"
  /\ UNCHANGED <<bar, candle, pending, brokerVars>>

(* cancellation_requested, asked before the bar is touched.                *)
Cancel ==
  /\ step = "next_bar" /\ bar < MaxBars
  /\ step' = "cancelled"
  /\ UNCHANGED <<bar, candle, pending, brokerVars>>

Next == NextBar \/ CheckStops \/ Decide \/ Finish \/ EmptyStream \/ Cancel

Spec == Init /\ [][Next]_vars

--------------------------------------------------------------------------
Levels == Int \cup {NoLevel}

(* Every variable keeps its type: a position and a trade carry the numbers *)
(* of the bars they belong to, money and levels are integers.              *)
TypeOK ==
  /\ step \in {"next_bar", "stops", "decide", "finished", "failed", "cancelled"}
  /\ bar \in 0 .. MaxBars
  /\ candle \in Candles \cup {NoCandle}
  /\ pending \in [action : SignalActions, bar : 1 .. MaxBars] \cup {NoSignal}
  /\ config \in Configs
  /\ cash \in Int
  /\ \A pos \in positions :
       pos \in [opened : 1 .. bar, decided : 1 .. bar, side : {"LONG", "SHORT"},
               quantity : Nat \ {0}, entry : Nat \ {0}, margin : Nat \ {0}, fee : Nat,
               leverage : Nat \ {0}, stop : Levels, target : Levels]
  /\ \A trade \in trades :
       trade \in [opened : 1 .. bar, decided : 1 .. bar, closed : 1 .. bar, pnl : Int,
                 reason : {"strategy_signal", "stop_loss", "take_profit",
                           "end_of_backtest"}]

(* An account never holds a long and a short position at once, and never   *)
(* more positions than the pyramiding limit, through any sequence of       *)
(* signals and stops (PaperExchange._open's two rejections): current_side  *)
(* and every close by side take the first for granted.                     *)
BookWithinLimits ==
  /\ \A pos, other \in positions : pos.side = other.side
  /\ Cardinality(positions) <= config.pyramiding

(* No position outlives a bar whose range reached its stop or its target,  *)
(* not even one opened in that very bar (the order of fill and             *)
(* check_intrabar_stops in _simulate, which its comment BOT-041 is about). *)
StopsHonoured ==
  step \in {"decide", "next_bar"} =>
    \A pos \in positions :
      /\ ~StopHit(pos, candle.high, candle.low)
      /\ ~TargetHit(pos, candle.high, candle.low)

(* A signal is acted on once, at the open of the bar after the one it was  *)
(* decided at the close of: never in a bar the strategy has seen, and      *)
(* never in a later one (pending_signal in _simulate).                     *)
FilledInTheNextBar ==
  \A entry \in positions \cup trades : entry.opened = entry.decided + 1

(* An entry never spends cash the account does not have, whatever its      *)
(* sizing, leverage, slippage and fee (the clamp of                        *)
(* calculate_margin_and_notional).                                         *)
EntriesAreCovered == [][positions' \subseteq positions \/ cash' >= 0]_vars

(* With RISK_PERCENT sizing, a position that runs into its stop gives up,  *)
(* before fees, no more than the configured share of the equity it was     *)
(* opened with: the leverage and the slippage do not enter the risk.  Only *)
(* the model's whole prices can add to it.                                 *)
RiskPerEntryHonoured ==
  [][\A pos \in positions' \ positions :
       config.sizing = "risk_percent" =>
         -PriceGain(pos, pos.stop)
           <= Percent(config.size, Equity(candle'.open)) + StopRounding(pos)]_vars
=============================================================================
