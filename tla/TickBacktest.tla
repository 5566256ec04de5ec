----------------------------- MODULE TickBacktest -----------------------------
(***************************************************************************)
(* The realtime engine: RunHistoricalTickBacktestCommandHandler._simulate, *)
(* which builds bars out of ticks (forming_bar.py), evaluates the strategy *)
(* on every tick of a bar that is still forming, and fills at once.        *)
(*                                                                         *)
(* A tick is a stored kline of the tick resolution: it covers the time     *)
(* from its opening to the next tick's.  Ticks may be missing.  Of a bar,  *)
(* only its bounds, its ticks and its close are kept: what the strategy    *)
(* makes of it is arbitrary, and the loop never looks at the range.  Of a  *)
(* configuration, config.tick and config.bar are the tick resolution and   *)
(* the interval.                                                           *)
(***************************************************************************)
EXTENDS PaperExchange, Sequences

CONSTANTS
  TickPrices,       \* closing prices of ticks
  NoTick, NoBar,    \* None
  MaxTickTime       \* bound: the latest time a tick opens

VARIABLES
  step,         \* what the loop does next, or how it ended
  tick,         \* last_tick
  forming,      \* the bar being built
  committed,    \* committed_bars
  evaluated     \* history: the last tick in each bar state evaluated, in order

vars == <<step, tick, forming, committed, evaluated, brokerVars>>

Init ==
  /\ ExchangeInit
  /\ step = "next_tick"
  /\ tick = NoTick
  /\ forming = NoBar
  /\ committed = {}
  /\ evaluated = <<>>

Ticks == [time : 0 .. MaxTickTime, price : TickPrices]

Bars == [start : 0 .. MaxTickTime, ticks : (SUBSET (0 .. MaxTickTime)) \ {{}},
         close : TickPrices]

(* RunHistoricalTickBacktestCommand refuses ticks coarser than bars.       *)
TicksFitBars ==
  /\ \A c \in Configs : c.tick \in Nat \ {0} /\ c.bar \in Nat /\ c.tick <= c.bar
  /\ TickPrices \subseteq Nat \ {0}
  /\ MaxTickTime \in Nat
  /\ NoTick \notin Ticks /\ NoBar \notin Bars

--------------------------------------------------------------------------
(* bar_bounds: the start of the bar a tick falls into, and its end.        *)
BarStart(time) == time - (time % config.bar)

End(bar) == bar.start + config.bar

StartedBy(t) == [start |-> BarStart(t.time), ticks |-> {t.time}, close |-> t.price]

(* Mutant: a tick at the very end still joins the bar.                     *)
ContainsItsEnd(bar, t) == bar.start <= t.time /\ t.time <= End(bar)

(* The containment check that stands for bar_bounds on every tick.         *)
Contains(bar, t) == bar.start <= t.time /\ t.time < End(bar)

(* Mutant: the last instant a tick covers is compared with the bar's end.  *)
ReachesPastEnd(bar, t) == t.time + config.tick > End(bar)

(* close_time + CLOSE_TIME_IS_INCLUSIVE_BY >= bar_end                      *)
Reaches(bar, t) == t.time + config.tick >= End(bar)

(* StrategyEngine evaluates a state of the bar; a signal fills at once, at *)
(* the bar's close.                                                        *)
Evaluate(bar) ==
  /\ evaluated' = Append(evaluated, tick.time)
  /\ \/ \E action \in SignalActions :
          Fill(action, bar.close, Len(evaluated'), Len(evaluated'))
     \/ UNCHANGED brokerVars

Commit(bar) == Evaluate(bar) /\ committed' = committed \cup {bar}

(* The next tick of the stream, with whatever is missing in between.       *)
Arrivals ==
  {t \in [time : 0 .. MaxTickTime, price : TickPrices] :
     /\ t.time % config.tick = 0
     /\ tick = NoTick \/ t.time > tick.time}

--------------------------------------------------------------------------
JoinBar(t) ==
  /\ step = "next_tick" /\ forming # NoBar /\ Contains(forming, t)
  /\ tick' = t
  /\ forming' = [forming EXCEPT !.ticks = @ \cup {t.time}, !.close = t.price]
  /\ step' = "evaluate"
  /\ UNCHANGED <<committed, evaluated, brokerVars>>

StartBar(t) ==
  /\ step = "next_tick" /\ forming = NoBar
  /\ tick' = t
  /\ forming' = StartedBy(t)
  /\ step' = "evaluate"
  /\ UNCHANGED <<committed, evaluated, brokerVars>>

(* The tick that would have closed the bar is missing: it is committed as  *)
(* it is before the new one begins.                                        *)
CommitUnclosed(t) ==
  /\ step = "next_tick" /\ forming # NoBar /\ ~Contains(forming, t)
  /\ Commit(forming)
  /\ tick' = t
  /\ forming' = StartedBy(t)
  /\ step' = "evaluate"

(* The tick that reaches the end of the bar commits it.                    *)
CloseBar ==
  /\ step = "evaluate" /\ Reaches(forming, tick)
  /\ Commit(forming)
  /\ forming' = NoBar
  /\ step' = "next_tick"
  /\ UNCHANGED tick

(* on_forming_bar_tick: every other tick is evaluated provisionally.       *)
EvaluateForming ==
  /\ step = "evaluate" /\ ~Reaches(forming, tick)
  /\ Evaluate(forming)
  /\ step' = "next_tick"
  /\ UNCHANGED <<tick, forming, committed>>

(* The stream ends inside a bar.                                           *)
CommitPartial ==
  /\ step = "next_tick" /\ forming # NoBar
  /\ Commit(forming)
  /\ forming' = NoBar
  /\ step' = "ended"
  /\ UNCHANGED tick

Finish ==
  /\ \/ step = "next_tick" /\ forming = NoBar /\ tick # NoTick
     \/ step = "ended"
  /\ ForceClose(tick.price, Len(evaluated) + 1)
  /\ step' = "finished"
  /\ UNCHANGED <<tick, forming, committed, evaluated>>

(* There was no tick at all, against the count taken before.               *)
EmptyStream ==
  /\ step = "next_tick" /\ tick = NoTick
  /\ step' = "failed"
  /\ UNCHANGED <<tick, forming, committed, evaluated, brokerVars>>

(* cancellation_requested, asked once a tick was drawn.                    *)
Cancel ==
  /\ step = "next_tick" /\ Arrivals # {}
  /\ step' = "cancelled"
  /\ UNCHANGED <<tick, forming, committed, evaluated, brokerVars>>

Next ==
  \/ \E t \in Arrivals : JoinBar(t) \/ StartBar(t) \/ CommitUnclosed(t)
  \/ CloseBar \/ EvaluateForming \/ CommitPartial
  \/ Finish \/ EmptyStream \/ Cancel

Spec == Init /\ [][Next]_vars

--------------------------------------------------------------------------
TypeOK ==
  /\ step \in {"next_tick", "evaluate", "ended", "finished", "failed", "cancelled"}
  /\ tick \in Ticks \cup {NoTick}
  /\ forming \in Bars \cup {NoBar}
  /\ committed \subseteq Bars
  /\ evaluated \in Seq(0 .. MaxTickTime)

(* The bars a run has built are those of the interval's grid: each tick    *)
(* that was evaluated is in exactly one, within its bounds, and no bar was *)
(* committed twice.  The containment check replaces bar_bounds, and two    *)
(* branches commit a bar before its end.                                   *)
TicksInTheirBars ==
  LET bars == committed \cup ({forming} \ {NoBar})
  IN  /\ \A bar \in bars :
           /\ bar.start % config.bar = 0
           /\ \A time \in bar.ticks : bar.start <= time /\ time < End(bar)
      /\ \A bar, other \in bars : bar = other \/ bar.start # other.start
      /\ \A i \in DOMAIN evaluated : \E bar \in bars : evaluated[i] \in bar.ticks

(* A bar that got the tick reaching its end is evaluated once for each of  *)
(* its ticks and no more, so that no signal of it fires twice; only a bar  *)
(* that was committed without that tick is evaluated once again, unchanged *)
(* (BUG-022 and the comment on the closing tick in _simulate).             *)
EvaluatedOnce ==
  \A bar \in committed :
    \A time \in bar.ticks :
      Cardinality({i \in DOMAIN evaluated : evaluated[i] = time})
        = IF time + config.tick < End(bar)
             /\ \A other \in bar.ticks : other <= time
          THEN 2 ELSE 1
=============================================================================
