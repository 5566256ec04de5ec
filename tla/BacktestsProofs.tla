--------------------------- MODULE BacktestsProofs ---------------------------
(***************************************************************************)
(* What holds of a run of ExecutionCoordinator for every configuration,    *)
(* every price, any number of bars and whatever happens to the table       *)
(* meanwhile: first of one phase of the static engine, then of the three   *)
(* phases a run is made of, and of a replay of ticks.                      *)
(***************************************************************************)
EXTENDS Backtests, PaperExchangeProofs

(* A signal that waits was decided in the bar just seen, and none waits    *)
(* between the open of a bar and its decision.                             *)
PendingIsFresh ==
  /\ step \in {"stops", "decide"} => pending = NoSignal /\ bar > 0
  /\ pending # NoSignal => pending.bar = bar

(* Once a bar was drawn, there is a candle.                                *)
CandleIsKnown == bar > 0 => candle \in Candles

StaticInv ==
  /\ TypeOK
  /\ Account(bar, bar)
  /\ PendingIsFresh
  /\ CandleIsKnown
  /\ BookWithinLimits
  /\ StopsHonoured
  /\ FilledInTheNextBar

-----------------------------------------------------------------------------
(* An entry adds at most the position it describes, and only if it may.    *)
LEMMA OpenEffect ==
  ASSUME NEW side, NEW price, NEW at, NEW decided,
         Open(side, price, at, decided)
  PROVE  /\ config' = config /\ trades' = trades
         /\ \/ positions' = positions
            \/ /\ MayOpen(side)
               /\ \E pos : /\ pos.side = side /\ pos.opened = at /\ pos.decided = decided
                           /\ positions' = positions \cup {pos}
<1> DEFINE pos == Entry(side, price, at, decided)
<1>1. pos.side = side /\ pos.opened = at /\ pos.decided = decided
  BY DEF Entry
<1>2. CASE MayOpen(side) /\ Fundable(side, price)
  <2>1. positions' = positions \cup {pos} /\ UNCHANGED <<config, trades>>
    BY <1>2 DEF Open
  <2> QED BY <1>1, <1>2, <2>1
<1>3. CASE ~(MayOpen(side) /\ Fundable(side, price))
  BY <1>3 DEF Open, brokerVars
<1> QED BY <1>2, <1>3

(* Closing only removes positions, and a trade keeps the bars of the       *)
(* position it closes.                                                     *)
LEMMA CloseEffect ==
  ASSUME NEW exits, NEW at, CloseEach(exits, at),
         \A e \in exits : e.pos \in positions
  PROVE  /\ config' = config
         /\ positions' \subseteq positions
         /\ \A trade \in trades' :
              \/ trade \in trades
              \/ \E pos \in positions :
                   trade.opened = pos.opened /\ trade.decided = pos.decided
<1>1. config' = config /\ positions' \subseteq positions
  BY DEF CloseEach
<1>2. ASSUME NEW trade \in trades', trade \notin trades
      PROVE  \E pos \in positions : trade.opened = pos.opened /\ trade.decided = pos.decided
  <2>1. PICK e \in exits : trade = Closed(e, at)
    BY <1>2 DEF CloseEach
  <2> QED BY <2>1 DEF Closed
<1> QED BY <1>1, <1>2

(* Positions can be taken away without breaking the limits of the book.    *)
LEMMA FewerPositions ==
  ASSUME config \in Configs, IsFiniteSet(positions), BookWithinLimits,
         config' = config, positions' \subseteq positions
  PROVE  BookWithinLimits'
<1>1. IsFiniteSet(positions') /\ Cardinality(positions') <= Cardinality(positions)
      /\ Cardinality(positions') \in Nat /\ Cardinality(positions) \in Nat
  BY FS_Subset, FS_CardinalityType
<1>2. config.pyramiding \in Nat
  BY ConfigAssumption
<1> QED BY <1>1, <1>2 DEF BookWithinLimits

(* An entry that may open keeps the limits of the book.                    *)
LEMMA OneMorePosition ==
  ASSUME config \in Configs, IsFiniteSet(positions), BookWithinLimits, config' = config,
         \A pos \in positions : pos.side \in Sides,
         NEW side \in Sides, MayOpen(side),
         NEW pos, pos.side = side, positions' = positions \cup {pos}
  PROVE  BookWithinLimits'
<1>1. \A other \in positions' : other.side = side
  BY DEF MayOpen, Opposite, Sides
<1>2. Cardinality(positions') <= Cardinality(positions) + 1
      /\ Cardinality(positions') \in Nat /\ Cardinality(positions) \in Nat
  <2>1. IsFiniteSet(positions) /\ Cardinality(positions) \in Nat
    BY FS_CardinalityType
  <2>2. IsFiniteSet(positions \cup {pos})
        /\ Cardinality(positions \cup {pos}) =
             IF pos \in positions THEN Cardinality(positions) ELSE Cardinality(positions) + 1
    BY <2>1, FS_AddElement
  <2> QED BY <2>1, <2>2
<1>3. Cardinality(positions') <= config'.pyramiding
  BY <1>2, ConfigAssumption DEF MayOpen
<1> QED BY <1>1, <1>3 DEF BookWithinLimits

(* What every way of closing positions keeps, whatever the step.           *)
LEMMA ClosingKeepsBook ==
  ASSUME StaticInv, NEW exits, NEW at, ExitsOf(exits), CloseEach(exits, at)
  PROVE  BookWithinLimits' /\ FilledInTheNextBar'
<1>0. config \in Configs /\ IsFiniteSet(positions) /\ BookWithinLimits /\ FilledInTheNextBar
      /\ \A e \in exits : e.pos \in positions
  BY DEF StaticInv, Account, AccountTyped, ExitsOf
<1>1. config' = config /\ positions' \subseteq positions
      /\ \A trade \in trades' :
           \/ trade \in trades
           \/ \E pos \in positions : trade.opened = pos.opened /\ trade.decided = pos.decided
  BY <1>0, CloseEffect
<1>2. BookWithinLimits'
  BY <1>0, <1>1, FewerPositions
<1>3. FilledInTheNextBar'
  BY <1>0, <1>1 DEF FilledInTheNextBar
<1> QED BY <1>2, <1>3

(* A signal of the bar before, filled in this one.                         *)
LEMMA FillKeepsBook ==
  ASSUME StaticInv, NEW action, NEW price \in Nat, NEW at, NEW decided,
         at = decided + 1, Fill(action, price, at, decided)
  PROVE  BookWithinLimits' /\ FilledInTheNextBar'
<1>0. /\ config \in Configs /\ IsFiniteSet(positions) /\ BookWithinLimits /\ FilledInTheNextBar
      /\ \A pos \in positions : pos.side \in Sides
  BY DEF StaticInv, Account, AccountTyped, PositionRecords
<1>1. ASSUME NEW side \in Sides, Open(side, price, at, decided)
      PROVE  BookWithinLimits' /\ FilledInTheNextBar'
  <2>1. config' = config /\ trades' = trades
    BY <1>1, OpenEffect
  <2>2. CASE positions' = positions
    <3>1. BookWithinLimits'
      BY <1>0, <2>1, <2>2, FewerPositions
    <3> QED BY <1>0, <2>1, <2>2, <3>1 DEF FilledInTheNextBar
  <2>3. ASSUME NEW pos, MayOpen(side), pos.side = side, pos.opened = at,
               pos.decided = decided, positions' = positions \cup {pos}
        PROVE  BookWithinLimits' /\ FilledInTheNextBar'
    <3>1. BookWithinLimits'
      BY <1>0, <2>1, <2>3, OneMorePosition
    <3>2. FilledInTheNextBar'
      BY <1>0, <2>1, <2>3 DEF FilledInTheNextBar
    <3> QED BY <3>1, <3>2
  <2> QED BY <1>1, <2>1, <2>2, <2>3, OpenEffect
<1>2. ASSUME NEW side \in Sides, Close(side, price, at)
      PROVE  BookWithinLimits' /\ FilledInTheNextBar'
  <2>1. ExitsOf(ExitsAtMarket({side}, price, "strategy_signal"))
    BY MarketExits DEF StaticInv, Account, Reasons
  <2> QED BY <1>2, <2>1, ClosingKeepsBook DEF Close
<1> QED BY <1>1, <1>2 DEF Fill, Sides

-----------------------------------------------------------------------------
(* What the account's balance says of the types of a phase.                *)
LEMMA AccountIsTyped ==
  ASSUME Account(bar, bar),
         step \in {"next_bar", "stops", "decide", "finished", "failed", "cancelled"},
         bar \in 0 .. MaxBars, candle \in Candles \cup {NoCandle},
         pending \in [action : SignalActions, bar : 1 .. MaxBars] \cup {NoSignal}
  PROVE  TypeOK
BY DEF TypeOK, Account, AccountTyped, PositionRecords, TradeRecords, Sides, Levels,
       PriceLevels

(* An account of some bar is one of any later bar.                         *)
LEMMA LaterAccount ==
  ASSUME NEW last \in Nat, Account(last, last), NEW at \in Nat, last <= at
  PROVE  Account(at, at)
<1>1. PositionRecords(last) \subseteq PositionRecords(at)
      /\ TradeRecords(last, last) \subseteq TradeRecords(at, at)
  BY DEF PositionRecords, TradeRecords
<1> QED BY <1>1 DEF Account, AccountTyped

(* And after a step.                                                       *)
LEMMA NextTyped ==
  ASSUME Account(bar, bar)',
         step' \in {"next_bar", "stops", "decide", "finished", "failed", "cancelled"},
         bar' \in 0 .. MaxBars, candle' \in Candles \cup {NoCandle},
         pending' \in [action : SignalActions, bar : 1 .. MaxBars] \cup {NoSignal}
  PROVE  TypeOK'
BY DEF TypeOK, Account, AccountTyped, PositionRecords, TradeRecords, Sides, Levels,
       PriceLevels

(* The same, once the account of a bar number is known to balance.         *)
LEMMA NextAccount ==
  ASSUME NEW at, bar' = at, Account(at, at)'
  PROVE  Account(bar, bar)'
BY DEF Account, AccountTyped, PositionRecords, TradeRecords

(* A phase begins with a new account and nothing seen.                     *)
LEMMA InitStatic == Init => StaticInv
<1> SUFFICES ASSUME Init PROVE StaticInv
  OBVIOUS
<1>1. /\ config \in Configs /\ cash = InitialBalance /\ positions = {} /\ trades = {}
      /\ step = "next_bar" /\ bar = 0 /\ candle = NoCandle /\ pending = NoSignal
  BY DEF Init, ExchangeInit
<1>2. Account(bar, bar)
  BY <1>1, NewAccount
<1>3. TypeOK
  BY <1>1, <1>2, AccountIsTyped, BacktestAssumption
<1>4. Cardinality(positions) = 0
  BY <1>1, FS_EmptySet
<1>5. BookWithinLimits
  BY <1>1, <1>4, ConfigAssumption DEF BookWithinLimits
<1>6. PendingIsFresh /\ CandleIsKnown /\ StopsHonoured /\ FilledInTheNextBar
  BY <1>1 DEF PendingIsFresh, CandleIsKnown, StopsHonoured, FilledInTheNextBar
<1> QED BY <1>2, <1>3, <1>5, <1>6 DEF StaticInv

(* The facts about the present bar that the steps start from.              *)
LEMMA StaticFacts ==
  ASSUME StaticInv
  PROVE  /\ bar \in Nat /\ bar \in 0 .. MaxBars /\ Account(bar, bar)
         /\ config \in Configs /\ cash \in Int /\ IsFiniteSet(positions)
         /\ step \in {"stops", "decide"} => bar > 0 /\ pending = NoSignal
         /\ bar > 0 => candle \in Candles
         /\ candle \in Candles \cup {NoCandle}
         /\ pending \in [action : SignalActions, bar : 1 .. MaxBars] \cup {NoSignal}
         /\ pending # NoSignal => pending.bar = bar /\ bar > 0
<1>1. MaxBars \in Nat
  BY BacktestAssumption
<1>2. bar \in Nat /\ bar \in 0 .. MaxBars /\ candle \in Candles \cup {NoCandle}
      /\ pending \in [action : SignalActions, bar : 1 .. MaxBars] \cup {NoSignal}
  BY <1>1 DEF StaticInv, TypeOK
<1>3. pending # NoSignal => pending.bar = bar /\ bar > 0
  BY <1>2 DEF StaticInv, PendingIsFresh
<1> QED BY <1>2, <1>3 DEF StaticInv, PendingIsFresh, CandleIsKnown, Account, AccountTyped

(* The prices of a bar are numbers.                                        *)
LEMMA CandlePrices ==
  ASSUME NEW c \in Candles
  PROVE  c.open \in Nat /\ c.high \in Nat /\ c.low \in Nat /\ c.close \in Nat
BY BacktestAssumption DEF Candles

(* A bar that begins fills what was decided in the bar before.             *)
LEMMA NextBarKeeps ==
  ASSUME StaticInv, NextBar
  PROVE  StaticInv' /\ (positions' \subseteq positions \/ cash' >= 0)
<1> USE StaticFacts
<1>0. MaxBars \in Nat
  BY BacktestAssumption
<1>1. /\ bar' = bar + 1 /\ pending' = NoSignal /\ step' = "stops" /\ candle' \in Candles
      /\ bar' \in Nat /\ bar' \in 0 .. MaxBars /\ bar' > 0
  BY <1>0 DEF NextBar
<1>2. PICK at \in Nat : at = bar'
  BY <1>1
<1>3. /\ Account(at, at)' /\ BookWithinLimits' /\ FilledInTheNextBar'
      /\ positions' \subseteq positions \/ cash' >= 0
  <2>1. CASE pending = NoSignal
    <3>1. UNCHANGED <<config, cash, positions, trades>>
      BY <2>1 DEF NextBar, brokerVars
    <3>2. BookWithinLimits' /\ FilledInTheNextBar'
      BY <3>1 DEF StaticInv, BookWithinLimits, FilledInTheNextBar
    <3>3. Account(at, at)
      BY <1>1, <1>2, LaterAccount
    <3>4. Account(at, at)'
      BY <3>1, <3>3 DEF Account, AccountTyped, OpenedOnce, MoneyConserved
    <3> QED BY <3>1, <3>2, <3>4
  <2>2. CASE pending # NoSignal
    <3>1. /\ pending.bar = bar /\ bar > 0 /\ candle'.open \in Nat
          /\ Fill(pending.action, candle'.open, at, pending.bar)
      BY <1>1, <1>2, <2>2, CandlePrices DEF NextBar
    <3>2. bar < at /\ at = pending.bar + 1 /\ pending.bar \in 1 .. at /\ bar <= at
      BY <1>1, <1>2, <3>1
    <3>3. Account(at, at)' /\ (positions' \subseteq positions \/ cash' >= 0)
      BY <3>1, <3>2, FillBalances
    <3>4. BookWithinLimits' /\ FilledInTheNextBar'
      BY <3>1, <3>2, FillKeepsBook
    <3> QED BY <3>3, <3>4
  <2> QED BY <2>1, <2>2
<1>4. Account(bar, bar)'
  BY <1>2, <1>3, NextAccount
<1>5. TypeOK'
  BY <1>1, <1>4, NextTyped
<1>6. PendingIsFresh' /\ CandleIsKnown' /\ StopsHonoured'
  BY <1>1 DEF PendingIsFresh, CandleIsKnown, StopsHonoured
<1> QED BY <1>3, <1>4, <1>5, <1>6 DEF StaticInv

(* The account of a phase after positions were closed in the present bar.  *)
LEMMA ClosingKeepsAccount ==
  ASSUME StaticInv, bar > 0, bar' = bar, NEW exits, ExitsOf(exits), CloseEach(exits, bar)
  PROVE  Account(bar, bar)' /\ positions' \subseteq positions
<1>1. bar \in Nat /\ Account(bar, bar)
  BY StaticFacts
<1>2. bar \in 1 .. bar /\ bar <= bar
  BY <1>1
<1>3. PICK at \in Nat : at = bar
  BY <1>1
<1>4. Account(at, at)' /\ positions' \subseteq positions
  BY <1>1, <1>2, <1>3, CloseBalances
<1> QED BY <1>3, <1>4, NextAccount

(* Every position whose level the bar reached is among the ones triggered. *)
LEMMA CheckStopsKeeps ==
  ASSUME StaticInv, CheckStops
  PROVE  StaticInv' /\ positions' \subseteq positions
<1> USE StaticFacts
<1>1. /\ CloseEach(Triggered(candle.high, candle.low), bar)
      /\ bar' = bar /\ candle' = candle /\ pending' = pending
      /\ step = "stops" /\ step' = "decide"
  BY DEF CheckStops, CheckIntrabarStops
<1>2. bar > 0 /\ pending = NoSignal
  BY <1>1
<1>3. ExitsOf(Triggered(candle.high, candle.low))
  BY TriggeredExits DEF Account
<1>4. BookWithinLimits' /\ FilledInTheNextBar'
  BY <1>1, <1>3, ClosingKeepsBook
<1>5. Account(bar, bar)' /\ positions' \subseteq positions
  BY <1>1, <1>2, <1>3, ClosingKeepsAccount
<1>6. TypeOK'
  BY <1>1, <1>5, NextTyped
<1>7. PendingIsFresh' /\ CandleIsKnown'
  BY <1>1, <1>2 DEF PendingIsFresh, CandleIsKnown
<1>8. ASSUME NEW pos \in positions'
      PROVE  ~StopHit(pos, candle.high, candle.low) /\ ~TargetHit(pos, candle.high, candle.low)
  <2>1. pos \in positions /\ \A e \in Triggered(candle.high, candle.low) : e.pos # pos
    BY <1>1, <1>8 DEF CloseEach
  <2>2. ASSUME StopHit(pos, candle.high, candle.low)
        PROVE  FALSE
    <3>1. [pos |-> pos, price |-> pos.stop, reason |-> "stop_loss"]
            \in Triggered(candle.high, candle.low)
      BY <2>1, <2>2 DEF Triggered
    <3> QED BY <2>1, <3>1
  <2>3. ASSUME TargetHit(pos, candle.high, candle.low), ~StopHit(pos, candle.high, candle.low)
        PROVE  FALSE
    <3>1. [pos |-> pos, price |-> pos.target, reason |-> "take_profit"]
            \in Triggered(candle.high, candle.low)
      BY <2>1, <2>3 DEF Triggered
    <3> QED BY <2>1, <3>1
  <2> QED BY <2>2, <2>3
<1>9. StopsHonoured'
  BY <1>1, <1>8 DEF StopsHonoured, StopHit, TargetHit
<1> QED BY <1>4, <1>5, <1>6, <1>7, <1>9 DEF StaticInv

(* At the end of the phase there is no bar left to honour a level in.      *)
LEMMA FinishKeeps ==
  ASSUME StaticInv, Finish
  PROVE  StaticInv' /\ positions' \subseteq positions
<1> USE StaticFacts
<1>1. /\ CloseEach(ExitsAtMarket({"LONG", "SHORT"}, candle.close, "end_of_backtest"), bar)
      /\ bar' = bar /\ candle' = candle /\ pending' = pending
      /\ bar > 0 /\ step' = "finished"
  BY DEF Finish, ForceClose
<1>2. ExitsOf(ExitsAtMarket({"LONG", "SHORT"}, candle.close, "end_of_backtest"))
  BY <1>1, CandlePrices, MarketExits DEF Account, Reasons
<1>3. BookWithinLimits' /\ FilledInTheNextBar'
  BY <1>1, <1>2, ClosingKeepsBook
<1>4. Account(bar, bar)' /\ positions' \subseteq positions
  BY <1>1, <1>2, ClosingKeepsAccount
<1>5. TypeOK'
  BY <1>1, <1>4, NextTyped
<1>6. PendingIsFresh' /\ CandleIsKnown' /\ StopsHonoured'
  BY <1>1 DEF PendingIsFresh, CandleIsKnown, StopsHonoured
<1> QED BY <1>3, <1>4, <1>5, <1>6 DEF StaticInv

(* The steps that leave the account alone.                                 *)
LEMMA QuietStepsKeep ==
  ASSUME StaticInv, Decide \/ EmptyStream \/ Cancel \/ UNCHANGED vars
  PROVE  StaticInv' /\ positions' \subseteq positions
<1> USE StaticFacts
<1>1. /\ config' = config /\ cash' = cash /\ positions' = positions /\ trades' = trades
      /\ bar' = bar /\ candle' = candle
  BY DEF Decide, EmptyStream, Cancel, vars, brokerVars
<1>2. BookWithinLimits' /\ FilledInTheNextBar'
  BY <1>1 DEF StaticInv, BookWithinLimits, FilledInTheNextBar
<1>3. Account(bar, bar)'
  BY <1>1 DEF Account, AccountTyped, OpenedOnce, MoneyConserved
<1>4. /\ step' \in {"next_bar", "stops", "decide", "finished", "failed", "cancelled"}
      /\ step' \in {"decide", "next_bar"} => step \in {"decide", "next_bar"}
      /\ step' \in {"stops", "decide"} => step' = step /\ pending' = pending
  BY DEF Decide, EmptyStream, Cancel, vars, StaticInv, TypeOK
<1>5. CASE pending' = pending
  <2>1. TypeOK'
    BY <1>1, <1>3, <1>4, <1>5, NextTyped
  <2>2. PendingIsFresh' /\ CandleIsKnown'
    BY <1>1, <1>4, <1>5 DEF PendingIsFresh, CandleIsKnown
  <2>3. StopsHonoured'
    BY <1>1, <1>4 DEF StaticInv, StopsHonoured, StopHit, TargetHit
  <2> QED BY <1>1, <1>2, <1>3, <2>1, <2>2, <2>3 DEF StaticInv
<1>6. CASE pending' # pending
  <2>1. Decide
    BY <1>6 DEF EmptyStream, Cancel, vars
  <2>2. /\ pending' \in [action : SignalActions, bar : {bar}] /\ step' = "next_bar"
        /\ bar > 0
    BY <1>6, <2>1 DEF Decide
  <2>3. bar \in 1 .. MaxBars /\ pending'.bar = bar
    BY <2>2
  <2>4. TypeOK'
    BY <1>1, <1>3, <1>4, <2>2, <2>3, NextTyped
  <2>5. PendingIsFresh' /\ CandleIsKnown'
    BY <1>1, <2>2, <2>3 DEF PendingIsFresh, CandleIsKnown
  <2>6. StopsHonoured'
    BY <1>1, <1>4 DEF StaticInv, StopsHonoured, StopHit, TargetHit
  <2> QED BY <1>1, <1>2, <1>3, <2>4, <2>5, <2>6 DEF StaticInv
<1> QED BY <1>5, <1>6

(* A step of a phase keeps its invariant and never overdraws the account.  *)
LEMMA StepStatic ==
  ASSUME StaticInv, [Next]_vars
  PROVE  StaticInv' /\ (positions' \subseteq positions \/ cash' >= 0)
<1>1. CASE NextBar BY <1>1, NextBarKeeps
<1>2. CASE CheckStops BY <1>2, CheckStopsKeeps
<1>3. CASE Finish BY <1>3, FinishKeeps
<1>4. CASE Decide \/ EmptyStream \/ Cancel \/ UNCHANGED vars BY <1>4, QuietStepsKeep
<1> QED BY <1>1, <1>2, <1>3, <1>4 DEF Next

-----------------------------------------------------------------------------
(* The phases of a run.                                                    *)

allVars == <<runVars, staticVars, tickVars>>

(* A step of a run is a step of the phase, or leaves it alone, or begins   *)
(* a phase with a new engine and a new exchange.                           *)
LEMMA PhaseSteps ==
  ASSUME config \in Configs, [RunsNext]_allVars
  PROVE  [Next]_vars \/ Init'
<1>1. ASSUME NEW phase, BeginPhase(phase) PROVE Init'
  BY <1>1 DEF BeginPhase, Init, ExchangeInit
<1>2. CASE BeginFirstPhase \/ BeginNextPhase
  BY <1>1, <1>2 DEF BeginFirstPhase, BeginNextPhase
<1>3. CASE Replay
  BY <1>3 DEF Replay, Next
<1>4. CASE UNCHANGED staticVars
  BY <1>4 DEF staticVars, vars
<1>5. CASE CountRows \/ ReplayTicks \/ RewriteRows \/ (\E r \in 1 .. MaxRow : AppendRow(r))
  BY <1>4, <1>5 DEF CountRows, ReplayTicks, RewriteRows, AppendRow
<1> QED BY <1>2, <1>3, <1>4, <1>5 DEF RunsNext, allVars

(* So does a phase that is about to begin.                                 *)
LEMMA InitStaticNext == Init' => StaticInv'
BY InitStatic, PTL

(* A step of a run keeps what holds of a phase and overdraws no account.   *)
LEMMA StepPhases ==
  ASSUME StaticInv, [RunsNext]_allVars
  PROVE  StaticInv' /\ [positions' \subseteq positions \/ cash' >= 0]_vars
<1>1. config \in Configs
  BY StaticFacts
<1>2. CASE [Next]_vars
  BY <1>2, StepStatic
<1>3. CASE Init'
  BY <1>3, InitStaticNext DEF Init, ExchangeInit
<1> QED BY <1>1, <1>2, <1>3, PhaseSteps

-----------------------------------------------------------------------------
(* The risk of an entry.                                                   *)

(* What RiskPerEntryHonoured asks of a step.                               *)
NewRisksBounded ==
  \A pos \in positions' \ positions :
    config.sizing = "risk_percent" =>
      -PriceGain(pos, pos.stop)
        <= Percent(config.size, Equity(candle'.open)) + StopRounding(pos)

(* The entry of a signal is sized by the equity at the bar's open.         *)
LEMMA FillBoundsRisk ==
  ASSUME StaticInv, NEW action, NEW at, NEW decided,
         candle'.open \in Nat, Fill(action, candle'.open, at, decided)
  PROVE  NewRisksBounded
<1>1. AccountTyped(bar, bar)
  BY StaticFacts DEF Account
<1>2. ASSUME NEW side \in Sides, Open(side, candle'.open, at, decided)
      PROVE  NewRisksBounded
  <2>1. CASE MayOpen(side) /\ Fundable(side, candle'.open)
    <3>1. positions' = positions \cup {Entry(side, candle'.open, at, decided)}
      BY <1>2, <2>1 DEF Open
    <3>2. ASSUME config.sizing = "risk_percent", NEW pos,
                 pos = Entry(side, candle'.open, at, decided)
          PROVE  -PriceGain(pos, pos.stop)
                   <= Percent(config.size, Equity(candle'.open)) + StopRounding(pos)
      BY <1>1, <2>1, <3>2, RiskAtStop
    <3> QED BY <3>1, <3>2 DEF NewRisksBounded
  <2>2. CASE ~(MayOpen(side) /\ Fundable(side, candle'.open))
    BY <1>2, <2>2 DEF Open, brokerVars, NewRisksBounded
  <2> QED BY <2>1, <2>2
<1>3. ASSUME NEW side, Close(side, candle'.open, at)
      PROVE  NewRisksBounded
  BY <1>3 DEF Close, CloseEach, NewRisksBounded
<1> QED BY <1>2, <1>3 DEF Fill, Sides

(* No step of a run adds a position that risks more, or any other than the *)
(* entry of a signal.                                                      *)
LEMMA StepBoundsRisk ==
  ASSUME StaticInv, [RunsNext]_allVars
  PROVE  [NewRisksBounded]_vars
<1>1. ASSUME positions' \subseteq positions PROVE NewRisksBounded
  BY <1>1 DEF NewRisksBounded
<1>2. CASE NextBar
  <2>1. candle'.open \in Nat
    BY <1>2, CandlePrices DEF NextBar
  <2>2. CASE pending = NoSignal
    BY <1>1, <1>2, <2>2 DEF NextBar, brokerVars
  <2>3. CASE pending # NoSignal
    <3>1. Fill(pending.action, candle'.open, bar', pending.bar)
      BY <1>2, <2>3 DEF NextBar
    <3> QED BY <2>1, <3>1, FillBoundsRisk
  <2> QED BY <2>2, <2>3
<1>3. CASE CheckStops
  BY <1>1, <1>3, CheckStopsKeeps
<1>4. CASE Finish
  BY <1>1, <1>4, FinishKeeps
<1>5. CASE Decide \/ EmptyStream \/ Cancel \/ UNCHANGED vars
  BY <1>1, <1>5, QuietStepsKeep
<1>6. CASE Init'
  <2>1. positions' = {}
    BY <1>6 DEF Init, ExchangeInit
  <2> QED BY <1>1, <2>1
<1>7. config \in Configs
  BY StaticFacts
<1>8. [Next]_vars => NextBar \/ CheckStops \/ Finish
                     \/ (Decide \/ EmptyStream \/ Cancel \/ UNCHANGED vars)
  BY DEF Next
<1> QED BY <1>2, <1>3, <1>4, <1>5, <1>6, <1>7, <1>8, PhaseSteps

-----------------------------------------------------------------------------
(* The rows a run reads.                                                   *)

RowsTyped ==
  /\ run \in {"start", "no_data", "counted", "realtime"} \cup Phases
  /\ rows \subseteq 1 .. MaxRow
  /\ count \in 0 .. MaxRow
  /\ read \in [Phases -> SUBSET (1 .. MaxRow)]
  /\ disturbed \in BOOLEAN

(* As long as no row was written or deleted before the newest, the rows    *)
(* that were counted are still the first ones, and every phase has read    *)
(* what its offset and its limit select today.                             *)
ReadsAsCounted ==
  /\ run \in {"in_sample", "out_of_sample"} => HasOutOfSample
  /\ ~disturbed =>
       /\ count <= Cardinality(rows)
       /\ (run \in Phases /\ HasOutOfSample) =>
            read["in_sample"] = Streamed(Slice("in_sample"))
       /\ (run \in {"out_of_sample", "full"} /\ HasOutOfSample) =>
            read["out_of_sample"] = Streamed(Slice("out_of_sample"))
       /\ run = "full" => read["full"] = Streamed(Slice("full"))

RowsInv == RowsTyped /\ ReadsAsCounted

(* The rows before a row are numbers of their own.                         *)
Before(r) == {s \in rows : s < r}

(* Rows are finitely many.                                                 *)
LEMMA SomeRows ==
  ASSUME NEW S \in SUBSET (1 .. MaxRow)
  PROVE  IsFiniteSet(S) /\ Cardinality(S) \in 0 .. MaxRow
<1>1. MaxRow \in Nat
  BY RowsAssumption, BacktestAssumption
<1>2. IsFiniteSet(1 .. MaxRow) /\ Cardinality(1 .. MaxRow) = MaxRow
  BY <1>1, FS_Interval
<1>3. IsFiniteSet(S) /\ Cardinality(S) <= Cardinality(1 .. MaxRow)
  BY <1>2, FS_Subset
<1>4. Cardinality(S) \in Nat
  BY <1>3, FS_CardinalityType
<1> QED BY <1>1, <1>2, <1>3, <1>4

(* A row is ranked by the number of rows before it.                        *)
LEMMA Ranks ==
  ASSUME rows \subseteq 1 .. MaxRow, NEW r \in rows, NEW s \in rows, r < s
  PROVE  Cardinality(Before(r)) \in Nat /\ Cardinality(Before(s)) \in Nat
         /\ Cardinality(Before(r)) < Cardinality(Before(s))
<1>1. Before(r) \in SUBSET (1 .. MaxRow) /\ Before(s) \in SUBSET (1 .. MaxRow)
  BY DEF Before
<1>2. IsFiniteSet(Before(s)) /\ Before(r) \subseteq Before(s)
      /\ r \in Before(s) /\ r \notin Before(r)
  <2>1. IsFiniteSet(Before(s))
    BY <1>1, SomeRows
  <2>2. \A x \in rows : x \in Int
    OBVIOUS
  <2>3. r \in Before(s) /\ r \notin Before(r)
    BY <2>2 DEF Before
  <2>4. ASSUME NEW x \in rows, x < r
        PROVE  x < s
    BY <2>2, <2>4
  <2> QED BY <2>1, <2>3, <2>4 DEF Before
<1>3. Cardinality(Before(r)) \in Nat /\ Cardinality(Before(s)) \in Nat
  BY <1>1, SomeRows
<1>4. Before(r) # Before(s)
  BY <1>2
<1> QED BY <1>2, <1>3, <1>4, FS_Subset

(* The rank of a row is less than the number of rows.                      *)
LEMMA RankBelow ==
  ASSUME rows \subseteq 1 .. MaxRow, NEW r \in rows
  PROVE  Cardinality(Before(r)) \in Nat /\ Cardinality(Before(r)) < Cardinality(rows)
<1>1. Before(r) \in SUBSET (1 .. MaxRow) /\ rows \in SUBSET (1 .. MaxRow)
  BY DEF Before
<1>2. IsFiniteSet(rows) /\ Before(r) \subseteq rows /\ r \notin Before(r)
  BY <1>1, SomeRows DEF Before
<1>3. Cardinality(Before(r)) \in Nat /\ Cardinality(rows) \in Nat
  BY <1>1, SomeRows
<1> QED BY <1>2, <1>3, FS_Subset

(* The rows of a limit are as many as the limit: ranks are the numbers     *)
(* from zero on, each taken once.                                          *)
LEMMA FirstRows ==
  ASSUME rows \subseteq 1 .. MaxRow, NEW k \in Nat, k <= Cardinality(rows),
         NEW S, S = {r \in rows : Cardinality(Before(r)) < k}
  PROVE  Cardinality(S) = k
<1>1. rows \in SUBSET (1 .. MaxRow)
  OBVIOUS
<1>2. PICK n \in Nat : n = Cardinality(rows) /\ IsFiniteSet(rows) /\ k <= n
  BY <1>1, SomeRows
<1>3. IsFiniteSet(0 .. (n-1)) /\ Cardinality(0 .. (n-1)) = n
      /\ IsFiniteSet(0 .. (k-1)) /\ Cardinality(0 .. (k-1)) = k
  <2>1. ASSUME NEW m \in Nat
        PROVE  IsFiniteSet(0 .. (m-1)) /\ Cardinality(0 .. (m-1)) = m
    <3>1. PICK b \in Int : b = m - 1
      OBVIOUS
    <3>2. IsFiniteSet(0 .. b) /\ Cardinality(0 .. b) = IF 0 > b THEN 0 ELSE b - 0 + 1
      BY FS_Interval
    <3> QED BY <3>1, <3>2
  <2> QED BY <2>1
<1> DEFINE rank == [r \in rows |-> Cardinality(Before(r))]
<1>4. rank \in Injection(rows, 0 .. (n-1))
  <2>1. ASSUME NEW r \in rows PROVE Cardinality(Before(r)) \in 0 .. (n-1)
    BY <1>2, RankBelow
  <2>2. ASSUME NEW r \in rows, NEW s \in rows, Cardinality(Before(r)) = Cardinality(Before(s))
        PROVE  r = s
    <3>1. r < s \/ s < r \/ r = s
      BY <1>1
    <3> QED BY <2>2, <3>1, Ranks
  <2>3. rank \in [rows -> 0 .. (n-1)]
    BY <2>1
  <2>4. \A r, s \in rows : rank[r] = rank[s] => r = s
    BY <2>2
  <2> HIDE DEF rank
  <2> QED BY <2>3, <2>4 DEF Injection, IsInjective
<1>5. rank \in Surjection(rows, 0 .. (n-1))
  <2> HIDE DEF rank
  <2> QED BY <1>2, <1>3, <1>4, FS_Injection
<1> DEFINE first == [r \in S |-> Cardinality(Before(r))]
<1>6. first \in Surjection(S, 0 .. (k-1))
  <2>1. ASSUME NEW r \in S PROVE first[r] \in 0 .. (k-1)
    BY <1>2, RankBelow
  <2>2. ASSUME NEW j \in 0 .. (k-1) PROVE \E r \in S : first[r] = j
    <3>1. j \in 0 .. (n-1)
      BY <1>2
    <3>2. PICK r \in rows : rank[r] = j
      BY <1>5, <3>1 DEF Surjection
    <3>3. r \in S /\ first[r] = j
      BY <3>2
    <3> QED BY <3>3
  <2>3. first \in [S -> 0 .. (k-1)]
    BY <2>1
  <2> HIDE DEF first
  <2> QED BY <2>2, <2>3 DEF Surjection
<1>7. first \in Injection(S, 0 .. (k-1))
  <2>1. \A r, s \in rows : rank[r] = rank[s] => r = s
    BY <1>4 DEF Injection, IsInjective
  <2>2. \A r, s \in S : first[r] = first[s] => r = s
    BY <2>1
  <2>3. first \in [S -> 0 .. (k-1)]
    BY <1>6 DEF Surjection
  <2> HIDE DEF first
  <2> QED BY <2>2, <2>3 DEF Injection, IsInjective
<1>8. IsFiniteSet(S)
  BY <1>2, FS_Subset
<1> HIDE DEF first
<1> QED BY <1>3, <1>6, <1>7, <1>8, FS_Surjection

(* What a phase selects is what it selected before a row was appended.     *)
LEMMA AppendKeepsSlices ==
  ASSUME rows \subseteq 1 .. MaxRow, NEW row \in 1 .. MaxRow, \A s \in rows : s < row,
         rows' = rows \cup {row},
         NEW slice, slice.offset \in Nat, slice.limit \in Nat,
         slice.offset + slice.limit <= Cardinality(rows)
  PROVE  Streamed(slice)' = Streamed(slice)
<1>1. rows \in SUBSET (1 .. MaxRow) /\ row \notin rows /\ Cardinality(rows) \in Nat
  <2>1. rows \in SUBSET (1 .. MaxRow)
    OBVIOUS
  <2> QED BY <2>1, SomeRows
<1>2. ASSUME NEW r \in rows
      PROVE  {s \in rows' : s < r} = {s \in rows : s < r}
  <2>1. r < row /\ ~(row < r)
    BY <1>1
  <2> QED BY <2>1
<1>3. {s \in rows' : s < row} = rows
  <2>1. ~(row < row)
    OBVIOUS
  <2> QED BY <2>1
<1>4. ASSUME NEW r \in rows'
      PROVE  LET before == Cardinality({s \in rows' : s < r})
             IN  (slice.offset <= before /\ before < slice.offset + slice.limit)
                 <=> r \in Streamed(slice)
  <2>1. CASE r \in rows
    <3>1. {s \in rows' : s < r} = {s \in rows : s < r}
      BY <1>2, <2>1
    <3> QED BY <2>1, <3>1 DEF Streamed
  <2>2. CASE r = row
    <3>1. Cardinality({s \in rows' : s < r}) = Cardinality(rows)
      BY <1>3, <2>2
    <3>2. ~(Cardinality(rows) < slice.offset + slice.limit)
      BY <1>1
    <3>3. r \notin Streamed(slice)
      BY <1>1, <2>2 DEF Streamed
    <3> QED BY <3>1, <3>2, <3>3
  <2> QED BY <2>1, <2>2
<1>5. Streamed(slice) \subseteq rows'
  BY DEF Streamed
<1> QED BY <1>4, <1>5 DEF Streamed

(* The slices lie within the rows that were counted.                       *)
LEMMA SlicesWithinCount ==
  ASSUME RowsTyped, NEW phase \in Phases, phase = "full" \/ HasOutOfSample
  PROVE  /\ Slice(phase).offset \in Nat /\ Slice(phase).limit \in Nat
         /\ Slice(phase).offset + Slice(phase).limit <= count
<1>1. count \in Nat
  BY RowsAssumption, BacktestAssumption DEF RowsTyped
<1>2. InSampleCount \in Int
  BY <1>1 DEF InSampleCount
<1>3. HasOutOfSample => InSampleCount \in Nat /\ count - InSampleCount \in Nat
  BY <1>1, <1>2 DEF HasOutOfSample
<1>4. CASE phase = "full"
  BY <1>1, <1>4 DEF Slice
<1>5. CASE phase = "in_sample" /\ HasOutOfSample
  BY <1>1, <1>3, <1>5 DEF Slice, HasOutOfSample
<1>6. CASE phase = "out_of_sample" /\ HasOutOfSample
  BY <1>1, <1>3, <1>6 DEF Slice
<1> QED BY <1>4, <1>5, <1>6 DEF Phases

(* Before the rows are counted nothing was read.                           *)
LEMMA InitRows ==
  ASSUME RunsInit
  PROVE  RowsInv
<1>1. rows \in SUBSET (1 .. MaxRow) /\ MaxRow \in Nat
  BY RowsAssumption, BacktestAssumption DEF RunsInit
<1>2. Cardinality(rows) \in Nat
  BY <1>1, SomeRows
<1>3. RowsTyped
  <2>1. read \in [Phases -> SUBSET (1 .. MaxRow)]
    BY DEF RunsInit
  <2>2. count \in 0 .. MaxRow
    BY <1>1 DEF RunsInit
  <2> QED BY <1>1, <2>1, <2>2 DEF RunsInit, RowsTyped
<1>4. ReadsAsCounted
  BY <1>2 DEF RunsInit, ReadsAsCounted, Phases
<1> QED BY <1>3, <1>4 DEF RowsInv

(* Counting makes the count the number of rows.                            *)
LEMMA CountRowsKeeps ==
  ASSUME RowsInv, CountRows
  PROVE  RowsInv'
<1>1. rows \in SUBSET (1 .. MaxRow)
  BY DEF RowsInv, RowsTyped
<1>2. Cardinality(rows) \in 0 .. MaxRow /\ Cardinality(rows) \in Nat
  BY <1>1, SomeRows
<1>3. RowsTyped'
  BY <1>2 DEF RowsInv, RowsTyped, CountRows
<1>4. run' \in {"no_data", "counted", "realtime"} /\ count' = Cardinality(rows')
  BY DEF CountRows
<1>5. ReadsAsCounted'
  BY <1>2, <1>4 DEF ReadsAsCounted, CountRows, Phases
<1> QED BY <1>3, <1>5 DEF RowsInv

(* Beginning a phase reads its rows as they are now.                       *)
LEMMA BeginPhaseKeeps ==
  ASSUME RowsInv, NEW phase \in Phases, BeginPhase(phase),
         \/ run = "counted" /\ phase = (IF HasOutOfSample THEN "in_sample" ELSE "full")
         \/ run = "in_sample" /\ phase = "out_of_sample"
         \/ run = "out_of_sample" /\ phase = "full"
  PROVE  RowsInv'
<1>1. /\ run' = phase /\ rows' = rows /\ count' = count /\ disturbed' = disturbed
      /\ read' = [read EXCEPT ![phase] = Streamed(Slice(phase))]
      /\ read \in [Phases -> SUBSET (1 .. MaxRow)]
  BY DEF BeginPhase, RowsInv, RowsTyped
<1>2. Streamed(Slice(phase)) \in SUBSET (1 .. MaxRow)
  BY DEF Streamed, RowsInv, RowsTyped
<1>3. read'[phase] = Streamed(Slice(phase))
      /\ \A other \in Phases : other # phase => read'[other] = read[other]
  BY <1>1
<1>4. RowsTyped'
  <2>1. read' \in [Phases -> SUBSET (1 .. MaxRow)]
    BY <1>1, <1>2
  <2> QED BY <1>1, <2>1 DEF RowsInv, RowsTyped
<1>5. /\ HasOutOfSample' = HasOutOfSample
      /\ Cardinality(rows)' = Cardinality(rows)
      /\ Streamed(Slice("in_sample"))' = Streamed(Slice("in_sample"))
      /\ Streamed(Slice("out_of_sample"))' = Streamed(Slice("out_of_sample"))
      /\ Streamed(Slice("full"))' = Streamed(Slice("full"))
  BY <1>1 DEF HasOutOfSample, InSampleCount, Streamed, Slice
<1>6. ReadsAsCounted'
  BY <1>1, <1>3, <1>5 DEF RowsInv, ReadsAsCounted, Phases
<1> QED BY <1>4, <1>6 DEF RowsInv

(* An appended row comes after every row that was counted.                 *)
LEMMA AppendRowKeeps ==
  ASSUME RowsInv, NEW row \in 1 .. MaxRow, AppendRow(row)
  PROVE  RowsInv'
<1>1. /\ run' = run /\ count' = count /\ read' = read /\ disturbed' = disturbed
      /\ rows' = rows \cup {row} /\ \A s \in rows : s < row
      /\ rows \subseteq 1 .. MaxRow /\ run \notin {"full"}
  BY DEF AppendRow, RowsInv, RowsTyped, BetweenQueries
<1>2. rows \in SUBSET (1 .. MaxRow) /\ rows' \in SUBSET (1 .. MaxRow)
  BY <1>1
<1>3. RowsTyped'
  BY <1>1, <1>2 DEF RowsInv, RowsTyped
<1>4. Cardinality(rows) \in Nat /\ Cardinality(rows') \in Nat
      /\ Cardinality(rows) <= Cardinality(rows')
  <2>1. IsFiniteSet(rows') /\ Cardinality(rows') \in 0 .. MaxRow
    BY <1>2, SomeRows
  <2>2. Cardinality(rows) \in 0 .. MaxRow
    BY <1>2, SomeRows
  <2>3. Cardinality(rows) <= Cardinality(rows')
    BY <1>1, <2>1, FS_Subset
  <2> QED BY <2>1, <2>2, <2>3
<1>5. HasOutOfSample' = HasOutOfSample /\ \A phase \in Phases : Slice(phase)' = Slice(phase)
  BY <1>1 DEF HasOutOfSample, InSampleCount, Slice
<1>6. ASSUME ~disturbed, HasOutOfSample, NEW phase \in Phases
      PROVE  Streamed(Slice(phase))' = Streamed(Slice(phase))
  <2>1. count <= Cardinality(rows) /\ count \in Int
    BY <1>6 DEF RowsInv, ReadsAsCounted, RowsTyped
  <2>2. /\ Slice(phase).offset \in Nat /\ Slice(phase).limit \in Nat
        /\ Slice(phase).offset + Slice(phase).limit <= count
    BY <1>6, SlicesWithinCount DEF RowsInv
  <2>3. PICK slice : slice = Slice(phase)
    OBVIOUS
  <2>4. slice.offset + slice.limit <= Cardinality(rows)
    BY <1>4, <2>1, <2>2, <2>3
  <2>5. Streamed(slice)' = Streamed(slice)
    BY <1>1, <2>2, <2>3, <2>4, AppendKeepsSlices
  <2>6. Slice(phase)' = slice
    BY <1>5, <2>3
  <2> QED BY <2>3, <2>5, <2>6 DEF Streamed
<1>7. ReadsAsCounted'
  <2>1. count \in Int
    BY DEF RowsInv, RowsTyped
  <2>2. ~disturbed => count' <= Cardinality(rows')
    BY <1>1, <1>4, <2>1 DEF RowsInv, ReadsAsCounted
  <2> QED BY <1>1, <1>5, <1>6, <2>2 DEF RowsInv, ReadsAsCounted, Phases
<1> QED BY <1>3, <1>7 DEF RowsInv

(* Every step of a run keeps what holds of its rows.                       *)
LEMMA StepRows ==
  ASSUME RowsInv, [RunsNext]_allVars
  PROVE  RowsInv'
<1>1. CASE CountRows
  BY <1>1, CountRowsKeeps
<1>2. CASE BeginFirstPhase
  <2>1. PICK phase \in Phases : phase = (IF HasOutOfSample THEN "in_sample" ELSE "full")
    BY DEF Phases
  <2> QED BY <1>2, <2>1, BeginPhaseKeeps DEF BeginFirstPhase
<1>3. CASE BeginNextPhase
  BY <1>3, BeginPhaseKeeps DEF BeginNextPhase, Phases
<1>4. ASSUME NEW row \in 1 .. MaxRow, AppendRow(row)
      PROVE  RowsInv'
  BY <1>4, AppendRowKeeps
<1>5. CASE RewriteRows
  <2>1. /\ run' = run /\ count' = count /\ read' = read /\ disturbed' = TRUE
        /\ rows' \subseteq 1 .. MaxRow
    BY <1>5 DEF RewriteRows, RowsInv, RowsTyped
  <2>2. RowsTyped'
    BY <2>1 DEF RowsInv, RowsTyped
  <2>3. HasOutOfSample' = HasOutOfSample
    BY <2>1 DEF HasOutOfSample, InSampleCount
  <2> QED BY <2>1, <2>2, <2>3 DEF RowsInv, ReadsAsCounted
<1>6. CASE UNCHANGED runVars
  <2>1. run' = run /\ rows' = rows /\ count' = count /\ read' = read
        /\ disturbed' = disturbed
    BY <1>6 DEF runVars
  <2>2. RowsTyped'
    BY <2>1 DEF RowsInv, RowsTyped
  <2>3. /\ HasOutOfSample' = HasOutOfSample
        /\ Cardinality(rows)' = Cardinality(rows)
        /\ Streamed(Slice("in_sample"))' = Streamed(Slice("in_sample"))
        /\ Streamed(Slice("out_of_sample"))' = Streamed(Slice("out_of_sample"))
        /\ Streamed(Slice("full"))' = Streamed(Slice("full"))
    BY <2>1 DEF HasOutOfSample, InSampleCount, Streamed, Slice
  <2> QED BY <2>1, <2>2, <2>3 DEF RowsInv, ReadsAsCounted
<1> QED BY <1>1, <1>2, <1>3, <1>4, <1>5, <1>6 DEF RunsNext, Replay, ReplayTicks, allVars

(* The rows of two samples, split by rank, make up all of them.            *)
LEMMA SamplesFromRanks ==
  ASSUME RowsInv
  PROVE  SamplesMakeUpTheRun
<1> SUFFICES ASSUME run = "full", ~disturbed
             PROVE  /\ Cardinality(read["full"]) = count
                    /\ HasOutOfSample =>
                         /\ read["in_sample"] \cup read["out_of_sample"] = read["full"]
                         /\ \A r \in read["in_sample"], s \in read["out_of_sample"] : r < s
  BY DEF SamplesMakeUpTheRun
<1>1. /\ count \in Nat /\ count <= Cardinality(rows) /\ rows \subseteq 1 .. MaxRow
      /\ read["full"] = Streamed(Slice("full"))
  BY RowsAssumption, BacktestAssumption DEF RowsInv, RowsTyped, ReadsAsCounted
<1>2. \A r \in rows : Cardinality(Before(r)) \in Nat
  BY <1>1, RankBelow
<1>3. read["full"] = {r \in rows : Cardinality(Before(r)) < count}
  BY <1>1, <1>2 DEF Streamed, Slice, Before
<1>4. Cardinality(read["full"]) = count
  BY <1>1, <1>3, FirstRows
<1>5. ASSUME HasOutOfSample
      PROVE  /\ read["in_sample"] \cup read["out_of_sample"] = read["full"]
             /\ \A r \in read["in_sample"], s \in read["out_of_sample"] : r < s
  <2>1. PICK k \in Nat : k = InSampleCount /\ k < count
    BY <1>1, <1>5 DEF HasOutOfSample, InSampleCount
  <2>2. read["in_sample"] = {r \in rows : Cardinality(Before(r)) < k}
    BY <1>1, <1>2, <1>5, <2>1 DEF RowsInv, ReadsAsCounted, Streamed, Slice, Before, Phases
  <2>3. read["out_of_sample"]
          = {r \in rows : k <= Cardinality(Before(r)) /\ Cardinality(Before(r)) < count}
    BY <1>1, <1>2, <1>5, <2>1 DEF RowsInv, ReadsAsCounted, Streamed, Slice, Before, Phases
  <2>4. read["in_sample"] \cup read["out_of_sample"] = read["full"]
    <3>1. ASSUME NEW r \in rows
          PROVE  LET rank == Cardinality(Before(r))
                 IN  rank < k \/ (k <= rank /\ rank < count) <=> rank < count
      <4>1. PICK rank \in Nat : rank = Cardinality(Before(r))
        BY <1>2
      <4>2. rank < k \/ (k <= rank /\ rank < count) <=> rank < count
        BY <1>1, <2>1
      <4> QED BY <4>1, <4>2
    <3> HIDE DEF Before
    <3> QED BY <1>3, <2>2, <2>3, <3>1
  <2>5. ASSUME NEW r \in rows, NEW s \in rows,
               Cardinality(Before(r)) < k, k <= Cardinality(Before(s))
        PROVE  r < s
    <3>1. r < s \/ s < r \/ r = s
      BY <1>1
    <3>2. s < r => Cardinality(Before(s)) < Cardinality(Before(r))
      BY <1>1, Ranks
    <3> QED BY <1>2, <2>1, <2>5, <3>1, <3>2
  <2> QED BY <2>2, <2>3, <2>4, <2>5
<1> QED BY <1>4, <1>5

-----------------------------------------------------------------------------
(* The replay of ticks: what is proved of TickBacktest, of this engine.    *)

Replayed == INSTANCE TickBacktestProofs
  WITH step <- tickStep, cash <- tickCash, positions <- tickPositions, trades <- tickTrades

(* Realtime and Replayed instantiate the same definitions, the second with *)
(* what is proved of them.  The provers do not know that the two are the   *)
(* same, so each operation is expanded on both sides, once.                *)
LEMMA SameEquity == ASSUME NEW price PROVE Realtime!Equity(price) = Replayed!Equity(price)
BY DEF Realtime!Equity, Replayed!Equity, Realtime!Worth, Replayed!Worth,
      Realtime!MarkToMarket, Replayed!MarkToMarket, Realtime!Spot, Replayed!Spot,
      Realtime!PriceGain, Replayed!PriceGain, Realtime!Direction, Replayed!Direction,
      Realtime!MapThenSumSet, Replayed!MapThenSumSet,
      Realtime!MapThenFoldSet, Replayed!MapThenFoldSet

LEMMA SamePrices ==
  ASSUME NEW side, NEW price
  PROVE  Realtime!EntryPrice(side, price) = Replayed!EntryPrice(side, price)
BY DEF Realtime!EntryPrice, Replayed!EntryPrice, Realtime!BuyPrice, Replayed!BuyPrice,
      Realtime!SellPrice, Replayed!SellPrice, Realtime!Max, Replayed!Max

LEMMA SameLevel ==
  ASSUME NEW entry, NEW percent, NEW sign
  PROVE  Realtime!Level(entry, percent, sign) = Replayed!Level(entry, percent, sign)
BY DEF Realtime!Level, Replayed!Level, Realtime!Percent, Replayed!Percent

LEMMA SameWanted ==
  ASSUME NEW price, NEW equity, NEW leverage
  PROVE  Realtime!Wanted(price, equity, leverage) = Replayed!Wanted(price, equity, leverage)
BY DEF Realtime!Wanted, Replayed!Wanted, Realtime!Percent, Replayed!Percent

LEMMA SameAffordable ==
  ASSUME NEW wanted
  PROVE  Realtime!Affordable(wanted) = Replayed!Affordable(wanted)
BY DEF Realtime!Affordable, Replayed!Affordable

LEMMA SameQuantity ==
  ASSUME NEW notional, NEW price
  PROVE  Realtime!Quantity(notional, price) = Replayed!Quantity(notional, price)
BY DEF Realtime!Quantity, Replayed!Quantity, Realtime!Percent, Replayed!Percent

LEMMA SameFee ==
  ASSUME NEW notional, NEW quantity
  PROVE  Realtime!EntryFee(notional, quantity) = Replayed!EntryFee(notional, quantity)
BY DEF Realtime!EntryFee, Replayed!EntryFee, Realtime!Percent, Replayed!Percent

LEMMA SameEntry ==
  ASSUME NEW side, NEW price, NEW at, NEW decided
  PROVE  Realtime!Entry(side, price, at, decided) = Replayed!Entry(side, price, at, decided)
BY SameEquity, SamePrices, SameLevel, SameWanted, SameAffordable, SameQuantity, SameFee
   DEF Realtime!Entry, Replayed!Entry, Realtime!Direction, Replayed!Direction

LEMMA SameFundable ==
  ASSUME NEW side, NEW price
  PROVE  Realtime!Fundable(side, price) <=> Replayed!Fundable(side, price)
BY SameEquity, SamePrices, SameWanted, SameAffordable, SameQuantity
   DEF Realtime!Fundable, Replayed!Fundable

LEMMA SameMayOpen ==
  ASSUME NEW side
  PROVE  Realtime!MayOpen(side) <=> Replayed!MayOpen(side)
BY DEF Realtime!MayOpen, Replayed!MayOpen, Realtime!Opposite, Replayed!Opposite,
      Realtime!Cardinality, Replayed!Cardinality

LEMMA SameOpen ==
  ASSUME NEW side, NEW price, NEW at, NEW decided
  PROVE  Realtime!Open(side, price, at, decided) => Replayed!Open(side, price, at, decided)
BY SameEntry, SameFundable, SameMayOpen
  DEF Realtime!Open, Replayed!Open, Realtime!brokerVars, Replayed!brokerVars

LEMMA SameCloseEach ==
  ASSUME NEW exits, NEW at
  PROVE  Realtime!CloseEach(exits, at) => Replayed!CloseEach(exits, at)
BY DEF Realtime!CloseEach, Replayed!CloseEach, Realtime!Released,
      Replayed!Released, Realtime!Closed, Replayed!Closed,
      Realtime!MapThenSumSet, Replayed!MapThenSumSet, Realtime!MapThenFoldSet,
      Replayed!MapThenFoldSet, Realtime!ExitPrice, Replayed!ExitPrice,
      Realtime!Pnl, Replayed!Pnl, Realtime!ExitFee, Replayed!ExitFee,
      Realtime!Release, Replayed!Release, Realtime!EntryFee, Replayed!EntryFee,
      Realtime!Percent, Replayed!Percent, Realtime!Spot, Replayed!Spot,
      Realtime!PriceGain, Replayed!PriceGain, Realtime!Direction,
      Replayed!Direction

LEMMA SameExitsAtMarket ==
  ASSUME NEW sides, NEW price, NEW reason
  PROVE  Realtime!ExitsAtMarket(sides, price, reason) = Replayed!ExitsAtMarket(sides, price, reason)
BY DEF Realtime!ExitsAtMarket, Replayed!ExitsAtMarket, Realtime!ExitPrice,
      Replayed!ExitPrice, Realtime!BuyPrice, Replayed!BuyPrice,
      Realtime!SellPrice, Replayed!SellPrice, Realtime!Max, Replayed!Max

LEMMA SameFill ==
  ASSUME NEW action, NEW price, NEW at, NEW decided
  PROVE  Realtime!Fill(action, price, at, decided) => Replayed!Fill(action, price, at, decided)
BY SameOpen, SameCloseEach, SameExitsAtMarket
  DEF Realtime!Fill, Replayed!Fill, Realtime!Close, Replayed!Close

LEMMA SameEvaluate ==
  ASSUME NEW state
  PROVE  Realtime!Evaluate(state) => Replayed!Evaluate(state)
BY SameFill
  DEF Realtime!Evaluate, Replayed!Evaluate, Realtime!SignalActions,
      Replayed!SignalActions, Realtime!brokerVars, Replayed!brokerVars

LEMMA SameArrivals == Realtime!Arrivals = Replayed!Arrivals
BY DEF Realtime!Arrivals, Replayed!Arrivals

LEMMA SameJoinBar == \A t : Realtime!JoinBar(t) => Replayed!JoinBar(t)
BY DEF Realtime!JoinBar, Replayed!JoinBar, Realtime!Contains, Replayed!Contains,
      Realtime!End, Replayed!End, Realtime!brokerVars, Replayed!brokerVars

LEMMA SameStartBar == \A t : Realtime!StartBar(t) => Replayed!StartBar(t)
BY DEF Realtime!StartBar, Replayed!StartBar, Realtime!StartedBy,
      Replayed!StartedBy, Realtime!BarStart, Replayed!BarStart,
      Realtime!brokerVars, Replayed!brokerVars

LEMMA SameCommitUnclosed == \A t : Realtime!CommitUnclosed(t) => Replayed!CommitUnclosed(t)
BY SameEvaluate
  DEF Realtime!CommitUnclosed, Replayed!CommitUnclosed, Realtime!StartedBy,
      Replayed!StartedBy, Realtime!BarStart, Replayed!BarStart,
      Realtime!Contains, Replayed!Contains, Realtime!End, Replayed!End,
      Realtime!Commit, Replayed!Commit

LEMMA SameCloseBar == Realtime!CloseBar => Replayed!CloseBar
BY SameEvaluate
  DEF Realtime!CloseBar, Replayed!CloseBar, Realtime!Reaches, Replayed!Reaches,
      Realtime!End, Replayed!End, Realtime!Commit, Replayed!Commit

LEMMA SameEvaluateForming == Realtime!EvaluateForming => Replayed!EvaluateForming
BY SameEvaluate
  DEF Realtime!EvaluateForming, Replayed!EvaluateForming, Realtime!Reaches,
      Replayed!Reaches, Realtime!End, Replayed!End

LEMMA SameCommitPartial == Realtime!CommitPartial => Replayed!CommitPartial
BY SameEvaluate
  DEF Realtime!CommitPartial, Replayed!CommitPartial, Realtime!Commit,
      Replayed!Commit

LEMMA SameFinish == Realtime!Finish => Replayed!Finish
BY SameCloseEach, SameExitsAtMarket
  DEF Realtime!Finish, Replayed!Finish, Realtime!ForceClose,
      Replayed!ForceClose

LEMMA SameEmptyStream == Realtime!EmptyStream => Replayed!EmptyStream
BY DEF Realtime!EmptyStream, Replayed!EmptyStream, Realtime!brokerVars,
      Replayed!brokerVars

LEMMA SameCancel == Realtime!Cancel => Replayed!Cancel
BY DEF Realtime!Cancel, Replayed!Cancel, Realtime!Arrivals, Replayed!Arrivals,
      Realtime!brokerVars, Replayed!brokerVars

LEMMA SameNext == Realtime!Next => Replayed!Next
BY SameArrivals, SameJoinBar, SameStartBar, SameCommitUnclosed, SameCloseBar,
   SameEvaluateForming, SameCommitPartial, SameFinish, SameEmptyStream, SameCancel
   DEF Realtime!Next, Replayed!Next

(* The replay is one of the specification the proofs are about.            *)
LEMMA SameSpec == Realtime!Spec => Replayed!Spec
<1>1. Realtime!Init => Replayed!Init
  BY DEF Realtime!Init, Replayed!Init, Realtime!ExchangeInit, Replayed!ExchangeInit
<1>2. Realtime!vars = Replayed!vars
  BY DEF Realtime!vars, Replayed!vars, Realtime!brokerVars, Replayed!brokerVars
<1>3. [Realtime!Next]_(Realtime!vars) => [Replayed!Next]_(Replayed!vars)
  BY <1>2, SameNext DEF Realtime!vars, Replayed!vars, Realtime!brokerVars, Replayed!brokerVars
<1> QED BY <1>1, <1>3, PTL DEF Realtime!Spec, Replayed!Spec

(* No operation of an exchange changes its configuration.                  *)
LEMMA ConfigStays ==
  ASSUME [RunsNext]_allVars, UNCHANGED tickVars
  PROVE  config' = config
<1>1. ASSUME NEW action, NEW price, NEW at, NEW decided, Fill(action, price, at, decided)
      PROVE  config' = config
  BY <1>1, OpenEffect DEF Fill, Close, CloseEach
<1>2. CASE Replay
  <2>1. CASE NextBar BY <1>1, <2>1 DEF NextBar, brokerVars
  <2>2. CASE CheckStops BY <2>2 DEF CheckStops, CheckIntrabarStops, CloseEach
  <2>3. CASE Finish BY <2>3 DEF Finish, ForceClose, CloseEach
  <2> QED BY <1>2, <2>1, <2>2, <2>3 DEF Replay, Decide, EmptyStream, Cancel, brokerVars
<1>3. CASE UNCHANGED staticVars
  BY <1>3 DEF staticVars, brokerVars
<1> QED BY <1>2, <1>3 DEF RunsNext, CountRows, BeginFirstPhase, BeginNextPhase, BeginPhase,
                          ReplayTicks, AppendRow, RewriteRows, allVars

(* A run implements the replay of ticks: each of its steps is one of the   *)
(* realtime engine or leaves that engine, its exchange and the             *)
(* configuration alone (execute of the two handlers).                      *)
THEOREM RunReplaysTicks == RunsSpec => Realtime!Spec
<1>1. RunsInit => Realtime!Init
  BY DEF RunsInit
<1>2. [RunsNext]_allVars => [Realtime!Next]_(Realtime!vars)
  <2> SUFFICES ASSUME [RunsNext]_allVars
               PROVE  Realtime!Next \/ UNCHANGED Realtime!vars
    OBVIOUS
  <2>1. ReplayTicks \/ UNCHANGED tickVars
    BY DEF RunsNext, CountRows, BeginFirstPhase, BeginNextPhase, BeginPhase, Replay,
           AppendRow, RewriteRows, allVars
  <2>2. CASE UNCHANGED tickVars
    BY <2>2, ConfigStays DEF tickVars, Realtime!vars, Realtime!brokerVars
  <2> QED BY <2>1, <2>2 DEF ReplayTicks
<1> QED BY <1>1, <1>2, PTL DEF RunsSpec, Realtime!Spec, allVars

(* What the replay of ticks keeps, for every stream of ticks.              *)
LEMMA TicksReplayed == RunsSpec => []Replayed!TickInv
<1>1. Replayed!TicksFitBars
  BY TickAssumption
     DEF Realtime!TicksFitBars, Replayed!TicksFitBars, Realtime!Ticks, Replayed!Ticks,
         Realtime!Bars, Replayed!Bars
<1>2. Replayed!Spec => []Replayed!TickInv
  BY <1>1, Replayed!TickInvHolds, ConfigAssumption
     DEF Replayed!Commissions, Commissions, Sizings, Replayed!Sizings
<1> QED BY <1>2, RunReplaysTicks, SameSpec, PTL

-----------------------------------------------------------------------------
(* One phase by itself, and every phase of a run, keep StaticInv.          *)
THEOREM PhaseInvHolds == Spec => []StaticInv
<1>1. StaticInv /\ [Next]_vars => StaticInv'
  BY StepStatic
<1> QED BY <1>1, InitStatic, PTL DEF Spec

(* The phases of a run and its rows keep their invariants, whatever is     *)
(* written to the table between its queries (execute of the static         *)
(* handler).                                                               *)
THEOREM RunInvHolds == RunsSpec => [](StaticInv /\ RowsInv)
<1>1. RunsInit => StaticInv /\ RowsInv
  BY InitStatic, InitRows DEF RunsInit
<1>2. StaticInv /\ RowsInv /\ [RunsNext]_allVars => (StaticInv /\ RowsInv)'
  BY StepPhases, StepRows
<1> QED BY <1>1, <1>2, PTL DEF RunsSpec, allVars

(* Every variable of a run keeps its type (both handlers).                 *)
THEOREM RunsTypeOKHolds == RunsSpec => []RunsTypeOK
<1>1. StaticInv /\ RowsInv /\ Replayed!TickInv => RunsTypeOK
  <2>1. Replayed!TypeOK => Realtime!TypeOK
    BY DEF Realtime!TypeOK, Replayed!TypeOK, Realtime!Ticks, Replayed!Ticks,
           Realtime!Bars, Replayed!Bars
  <2> QED BY <2>1 DEF Replayed!TickInv, StaticInv, RowsInv, RowsTyped, RunsTypeOK
<1> QED BY <1>1, RunInvHolds, TicksReplayed, PTL

(* Not a cent appears or is lost in either engine, through any sequence of *)
(* entries, exits, stops and fees (MoneyConserved).                        *)
THEOREM AccountsBalanceHolds == RunsSpec => []AccountsBalance
<1>1. StaticInv => MoneyConserved
  BY DEF StaticInv, Account
<1>2. Replayed!TickInv => Realtime!MoneyConserved
  BY DEF Replayed!TickInv, Replayed!Account, Realtime!MoneyConserved, Replayed!MoneyConserved,
         Realtime!Margins, Replayed!Margins, Realtime!Profits, Replayed!Profits,
         Realtime!MapThenSumSet, Replayed!MapThenSumSet,
         Realtime!MapThenFoldSet, Replayed!MapThenFoldSet
<1>3. StaticInv /\ Replayed!TickInv => AccountsBalance
  BY <1>1, <1>2 DEF AccountsBalance
<1> QED BY <1>3, RunInvHolds, TicksReplayed, PTL

(* Never a long and a short position at once, and never more positions     *)
(* than the pyramiding limit (_open).                                      *)
THEOREM BookWithinLimitsHolds == RunsSpec => []BookWithinLimits
<1>1. StaticInv => BookWithinLimits
  BY DEF StaticInv
<1> QED BY <1>1, RunInvHolds, PTL

(* No position outlives a bar that reached its stop or its target          *)
(* (check_intrabar_stops after the fill in _simulate).                     *)
THEOREM StopsHonouredHolds == RunsSpec => []StopsHonoured
<1>1. StaticInv => StopsHonoured
  BY DEF StaticInv
<1> QED BY <1>1, RunInvHolds, PTL

(* A signal is filled at the open of the next bar, once (pending_signal).  *)
THEOREM FilledInTheNextBarHolds == RunsSpec => []FilledInTheNextBar
<1>1. StaticInv => FilledInTheNextBar
  BY DEF StaticInv
<1> QED BY <1>1, RunInvHolds, PTL

(* No entry overdraws the account (the clamp of                            *)
(* calculate_margin_and_notional), nor does the begin of a phase.          *)
THEOREM EntriesAreCoveredHolds == RunsSpec => EntriesAreCovered
<1>1. StaticInv /\ [RunsNext]_allVars => [positions' \subseteq positions \/ cash' >= 0]_vars
  BY StepPhases
<1>2. RunsSpec => [][RunsNext]_allVars
  BY DEF RunsSpec, allVars
<1> QED BY <1>1, <1>2, RunInvHolds, PTL DEF EntriesAreCovered

(* An entry sized by its risk loses at its stop no more than the share of  *)
(* the equity it was meant to risk, and a long what the rounding of its    *)
(* stop adds, under any leverage, slippage and fee                         *)
(* (calculate_margin_and_notional with RISK_PERCENT).                      *)
THEOREM RiskPerEntryHonouredHolds == RunsSpec => RiskPerEntryHonoured
<1>1. StaticInv /\ [RunsNext]_allVars => [NewRisksBounded]_vars
  BY StepBoundsRisk
<1>2. RunsSpec => [][RunsNext]_allVars
  BY DEF RunsSpec, allVars
<1>3. [NewRisksBounded]_vars
        => [\A pos \in positions' \ positions :
              config.sizing = "risk_percent" =>
                -PriceGain(pos, pos.stop)
                  <= Percent(config.size, Equity(candle'.open)) + StopRounding(pos)]_vars
  BY DEF NewRisksBounded
<1> QED BY <1>1, <1>2, <1>3, RunInvHolds, PTL DEF RiskPerEntryHonoured

(* The samples are disjoint, in order, and together what the full run      *)
(* replays, however often rows are appended between the queries            *)
(* (split_count_for_out_of_sample, and the slices made in execute).        *)
THEOREM SamplesMakeUpTheRunHolds == RunsSpec => []SamplesMakeUpTheRun
<1>1. RowsInv => SamplesMakeUpTheRun
  BY SamplesFromRanks
<1> QED BY <1>1, RunInvHolds, PTL

(* A realtime run builds the bars of the interval's grid, each tick in     *)
(* exactly one of them (the containment check that stands for bar_bounds). *)
THEOREM TicksInTheirBarsHolds == RunsSpec => []TicksInTheirBars
<1>1. Replayed!TickInv => TicksInTheirBars
  BY DEF Replayed!TickInv, TicksInTheirBars, Realtime!TicksInTheirBars,
         Replayed!TicksInTheirBars, Realtime!End, Replayed!End
<1> QED BY <1>1, TicksReplayed, PTL

(* Each tick of a bar is evaluated once, and only the last tick of a bar   *)
(* that was committed without its closing tick twice (_simulate).          *)
THEOREM EvaluatedOnceHolds == RunsSpec => []EvaluatedOnce
<1>1. Replayed!TickInv => EvaluatedOnce
  BY DEF Replayed!TickInv, EvaluatedOnce, Realtime!EvaluatedOnce, Replayed!EvaluatedOnce,
         Realtime!End, Replayed!End, Realtime!Cardinality, Replayed!Cardinality
<1> QED BY <1>1, TicksReplayed, PTL

=============================================================================
