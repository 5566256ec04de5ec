-------------------------- MODULE TickBacktestProofs --------------------------
(***************************************************************************)
(* What holds of the realtime engine for every configuration whose ticks   *)
(* fit its bars, every price and however many ticks are missing: the bars  *)
(* are those of the interval's grid, a bar is evaluated once for each of   *)
(* its ticks, and the account balances.                                    *)
(***************************************************************************)
EXTENDS TickBacktest, PaperExchangeProofs

-----------------------------------------------------------------------------
(* The grid of bars.                                                       *)

(* A number of ticks before another one is a whole tick before it.         *)
LEMMA Multiples ==
  ASSUME NEW k \in Nat \ {0}, NEW a \in Int, NEW b \in Int, a % k = 0, b % k = 0, a < b
  PROVE  a + k <= b
<1>1. PICK p \in Int, q \in Int : a = k * p /\ b = k * q
  <2>1. /\ a \div k \in Int /\ a = k * (a \div k) + (a % k) /\ k * (a \div k) \in Int
        /\ b \div k \in Int /\ b = k * (b \div k) + (b % k) /\ k * (b \div k) \in Int
    OBVIOUS
  <2>2. a = k * (a \div k) /\ b = k * (b \div k)
    BY <2>1
  <2> WITNESS a \div k \in Int, b \div k \in Int
  <2> QED BY <2>2
<1>2. p < q
  <2>1. ASSUME q <= p PROVE FALSE
    <3>1. k * (p - q) >= 0
      BY <2>1
    <3>2. k * (p - q) = a - b
      BY <1>1
    <3> QED BY <3>1, <3>2
  <2> QED BY <2>1
<1>3. k * (q - p) >= k
  <2>1. PICK d \in Nat : q = p + 1 + d
    <3>1. q - p - 1 \in Nat /\ q = p + 1 + (q - p - 1)
      BY <1>2
    <3> QED BY <3>1
  <2>2. k * (q - p) = k + k * d
    BY <2>1
  <2>3. k * d >= 0
    BY <2>1
  <2>4. k * d \in Int
    BY <2>1
  <2> QED BY <2>2, <2>3, <2>4
<1> QED BY <1>1, <1>3

(* A sum of whole bars is one.                                             *)
LEMMA NextMultiple ==
  ASSUME NEW k \in Nat \ {0}, NEW a \in Int, a % k = 0
  PROVE  (a + k) % k = 0
<1>1. /\ a \div k \in Int /\ a = k * (a \div k) + (a % k)
  OBVIOUS
<1>2. PICK q \in Int : a = k * q
  <2>1. a = k * (a \div k)
    BY <1>1
  <2> WITNESS a \div k \in Int
  <2> QED BY <2>1
<1>3. a + k = k * (q + 1)
  BY <1>2
<1>4. (k * (q + 1)) % k = 0
  OBVIOUS
<1> QED BY <1>3, <1>4

(* A bar starts at a multiple of its interval and reaches past its tick,   *)
(* and no other multiple lies between its start and the tick.              *)
LEMMA BarStarts ==
  ASSUME TicksFitBars, config \in Configs, NEW time \in Nat
  PROVE  /\ config.bar \in Nat \ {0} /\ config.tick \in Nat \ {0}
         /\ BarStart(time) \in Nat /\ BarStart(time) <= time
         /\ time < BarStart(time) + config.bar
         /\ BarStart(time) % config.bar = 0
         /\ \A e \in Int : e % config.bar = 0 /\ e <= time => e <= BarStart(time)
<1>1. config.bar \in Nat \ {0} /\ config.tick \in Nat \ {0}
  BY DEF TicksFitBars
<1>2. PICK k \in Nat \ {0} : k = config.bar
  BY <1>1
<1>3. time % k \in 0 .. k - 1 /\ time % k <= time
  BY <1>2
<1>4. (time - (time % k)) % k = 0
  <2>1. time \div k \in Int /\ time = k * (time \div k) + (time % k) /\ time % k \in Int
    OBVIOUS
  <2>2. PICK q \in Int : time - (time % k) = k * q
    BY <2>1
  <2>3. (k * q) % k = 0
    OBVIOUS
  <2> QED BY <2>2, <2>3
<1>5. BarStart(time) = time - (time % k)
  BY <1>2 DEF BarStart
<1>6. BarStart(time) \in Nat /\ BarStart(time) <= time /\ time < BarStart(time) + k
  BY <1>3, <1>5
<1>7. ASSUME NEW e \in Int, e % k = 0, e <= time, BarStart(time) < e
      PROVE  FALSE
  <2>1. PICK s \in Int : s = BarStart(time)
    BY <1>6
  <2>2. s % k = 0 /\ s < e
    BY <1>4, <1>5, <1>7, <2>1
  <2>3. s + k <= e
    BY <1>7, <2>2, Multiples
  <2> QED BY <1>6, <1>7, <2>1, <2>3
<1> QED BY <1>1, <1>2, <1>4, <1>5, <1>6, <1>7

-----------------------------------------------------------------------------
(* The invariant.                                                          *)

Built == committed \cup ({forming} \ {NoBar})

Evaluations(time) == Cardinality({i \in DOMAIN evaluated : evaluated[i] = time})

(* The ticks are multiples of their resolution and none is later than the  *)
(* last; the bars follow each other, and between two ticks a bar that was  *)
(* closed ends no later than the next tick can come.                       *)
InOrder ==
  /\ tick = NoTick => forming = NoBar /\ committed = {} /\ evaluated = <<>>
  /\ tick # NoTick =>
       /\ tick.time % config.tick = 0
       /\ \A bar \in Built : \A time \in bar.ticks : time <= tick.time
       /\ \A i \in DOMAIN evaluated : evaluated[i] <= tick.time
  /\ forming # NoBar =>
       /\ tick # NoTick /\ tick.time \in forming.ticks
       /\ \A bar \in committed : End(bar) <= forming.start
  /\ step = "next_tick" /\ tick # NoTick =>
       IF forming = NoBar
       THEN \A bar \in committed : End(bar) <= tick.time + config.tick
       ELSE tick.time + config.tick < End(forming)
  /\ step = "evaluate" => forming # NoBar
  /\ step = "ended" => tick # NoTick

(* The bar that is forming was evaluated once for each of its ticks, but   *)
(* for the one that has just arrived.                                      *)
FormingEvaluated ==
  forming # NoBar =>
    \A time \in forming.ticks :
      Evaluations(time) = IF step = "evaluate" /\ time = tick.time THEN 0 ELSE 1

TickInv ==
  /\ TypeOK
  /\ Account(Len(evaluated), Len(evaluated) + 1)
  /\ InOrder
  /\ TicksInTheirBars
  /\ EvaluatedOnce
  /\ FormingEvaluated

(* What TicksInTheirBars says of the bars a run has built.                 *)
OnGrid ==
  /\ \A bar \in Built :
       /\ bar.start % config.bar = 0
       /\ \A time \in bar.ticks : bar.start <= time /\ time < End(bar)
  /\ \A bar, other \in Built : bar = other \/ bar.start # other.start
  /\ \A i \in DOMAIN evaluated : \E bar \in Built : evaluated[i] \in bar.ticks

(* The grid, with the bars written as Built.                               *)
LEMMA GridIsTicksInTheirBars == TicksInTheirBars <=> OnGrid
BY DEF TicksInTheirBars, OnGrid, Built

(* And after a step.                                                       *)
LEMMA GridIsTicksInTheirBarsNext == TicksInTheirBars' <=> OnGrid'
BY DEF TicksInTheirBars, OnGrid, Built

(* The facts about the present tick and bar that the steps start from.     *)
LEMMA TickFacts ==
  ASSUME TicksFitBars, TickInv
  PROVE  /\ config \in Configs /\ config.bar \in Nat \ {0} /\ config.tick \in Nat \ {0}
         /\ tick # NoTick => tick \in Ticks /\ tick.time \in Nat /\ tick.price \in Nat
         /\ forming # NoBar => forming \in Bars /\ tick # NoTick
         /\ \A bar \in Built : /\ bar \in Bars /\ bar.start \in Nat /\ bar.close \in Nat
                               /\ End(bar) \in Nat
                               /\ \A time \in bar.ticks : time \in Nat
         /\ Len(evaluated) \in Nat /\ evaluated \in Seq(0 .. MaxTickTime)
         /\ \A i \in DOMAIN evaluated : evaluated[i] \in Nat
         /\ OnGrid
<1>1. config \in Configs
  BY DEF TickInv, Account, AccountTyped
<1>2. config.bar \in Nat \ {0} /\ config.tick \in Nat \ {0}
  BY <1>1 DEF TicksFitBars
<1>0. TickPrices \subseteq Nat /\ MaxTickTime \in Nat /\ 0 .. MaxTickTime \subseteq Nat
  BY DEF TicksFitBars
<1>3. tick # NoTick => tick \in Ticks /\ tick.time \in Nat /\ tick.price \in Nat
  <2>1. tick # NoTick => tick \in Ticks
    BY DEF TickInv, TypeOK
  <2> QED BY <1>0, <2>1 DEF Ticks
<1>4. forming # NoBar => forming \in Bars /\ tick # NoTick
  BY DEF TickInv, TypeOK, InOrder
<1>5. ASSUME NEW bar \in Bars
      PROVE  /\ bar.start \in Nat /\ bar.close \in Nat /\ End(bar) \in Nat
             /\ \A time \in bar.ticks : time \in Nat
  <2>1. bar.start \in 0 .. MaxTickTime /\ bar.close \in TickPrices
        /\ bar.ticks \subseteq 0 .. MaxTickTime
    BY <1>5 DEF Bars
  <2>2. bar.start \in Nat /\ bar.close \in Nat /\ \A time \in bar.ticks : time \in Nat
    BY <1>0, <2>1
  <2> QED BY <1>2, <2>2 DEF End
<1>6. Built \subseteq Bars
  BY DEF TickInv, TypeOK, Built
<1>7. evaluated \in Seq(0 .. MaxTickTime)
  BY DEF TickInv, TypeOK
<1>8. Len(evaluated) \in Nat /\ \A i \in DOMAIN evaluated : evaluated[i] \in Nat
  <2>1. Len(evaluated) \in Nat /\ \A i \in DOMAIN evaluated : evaluated[i] \in 0 .. MaxTickTime
    <3>1. DOMAIN evaluated = 1 .. Len(evaluated) /\ Len(evaluated) \in Nat
      BY <1>7
    <3>2. PICK T : T = 0 .. MaxTickTime
      OBVIOUS
    <3>3. ASSUME NEW i \in DOMAIN evaluated PROVE evaluated[i] \in T
      <4>1. evaluated \in Seq(T)
        BY <1>7, <3>2
      <4> QED BY <3>3, <4>1
    <3> QED BY <3>1, <3>2, <3>3
  <2> QED BY <1>0, <2>1
<1>9. OnGrid
  BY GridIsTicksInTheirBars DEF TickInv
<1> QED BY <1>1, <1>2, <1>3, <1>4, <1>5, <1>6, <1>7, <1>8, <1>9

(* A tick that arrives is a whole tick after the last.                     *)
LEMMA ArrivalFacts ==
  ASSUME TicksFitBars, TickInv, NEW t \in Arrivals
  PROVE  /\ t \in Ticks /\ t # NoTick /\ t.time \in Nat /\ t.price \in TickPrices
         /\ t.time \in 0 .. MaxTickTime
         /\ t.time % config.tick = 0
         /\ tick # NoTick => tick.time + config.tick <= t.time
<1>1. /\ t \in Ticks /\ t # NoTick /\ t.time \in 0 .. MaxTickTime /\ t.price \in TickPrices
      /\ t.time % config.tick = 0
      /\ tick = NoTick \/ t.time > tick.time
  BY DEF Arrivals, Ticks, TicksFitBars
<1>2. t.time \in Nat
  BY <1>1
<1>3. ASSUME tick # NoTick
      PROVE  tick.time + config.tick <= t.time
  <2>1. tick.time \in Nat /\ config.tick \in Nat \ {0} /\ tick.time % config.tick = 0
    BY <1>3, TickFacts DEF TickInv, InOrder
  <2>2. PICK a \in Int, b \in Int, k \in Nat \ {0} :
          a = tick.time /\ b = t.time /\ k = config.tick
    BY <1>2, <2>1
  <2>3. a % k = 0 /\ b % k = 0 /\ a < b
    BY <1>1, <1>3, <2>1, <2>2
  <2>4. a + k <= b
    BY <2>3, Multiples
  <2> QED BY <2>2, <2>4
<1> QED BY <1>1, <1>2, <1>3

-----------------------------------------------------------------------------
(* Counting the evaluations.                                               *)

(* A time was evaluated a finite number of times.                          *)
LEMMA EvaluationsType ==
  ASSUME evaluated \in Seq(0 .. MaxTickTime), NEW time
  PROVE  /\ IsFiniteSet({i \in DOMAIN evaluated : evaluated[i] = time})
         /\ Evaluations(time) \in Nat
<1>1. DOMAIN evaluated = 1 .. Len(evaluated) /\ Len(evaluated) \in Nat
  OBVIOUS
<1>2. IsFiniteSet(DOMAIN evaluated)
  BY <1>1, FS_Interval
<1>3. IsFiniteSet({i \in DOMAIN evaluated : evaluated[i] = time})
  BY <1>2, FS_Subset
<1> QED BY <1>3, FS_CardinalityType DEF Evaluations

(* A time that was never evaluated has no evaluations.                     *)
LEMMA NoEvaluations ==
  ASSUME NEW time, \A i \in DOMAIN evaluated : evaluated[i] # time
  PROVE  Evaluations(time) = 0
<1>1. {i \in DOMAIN evaluated : evaluated[i] = time} = {}
  OBVIOUS
<1> QED BY <1>1, FS_EmptySet DEF Evaluations

(* One more evaluation counts for its tick only.                           *)
LEMMA EvaluationsAppend ==
  ASSUME evaluated \in Seq(0 .. MaxTickTime), NEW x \in 0 .. MaxTickTime,
         evaluated' = Append(evaluated, x), NEW time
  PROVE  /\ Evaluations(time)' = Evaluations(time) + (IF time = x THEN 1 ELSE 0)
         /\ Evaluations(time) \in Nat
<1> DEFINE I == {i \in DOMAIN evaluated : evaluated[i] = time}
           J == {i \in DOMAIN evaluated' : evaluated'[i] = time}
           n == Len(evaluated) + 1
<1>1. IsFiniteSet(I) /\ Cardinality(I) \in Nat /\ Evaluations(time) = Cardinality(I)
  BY EvaluationsType DEF Evaluations
<1>2. /\ DOMAIN evaluated = 1 .. Len(evaluated) /\ Len(evaluated) \in Nat
      /\ DOMAIN evaluated' = 1 .. n
      /\ evaluated'[n] = x
      /\ \A i \in DOMAIN evaluated : evaluated'[i] = evaluated[i]
  OBVIOUS
<1>3. n \notin I
  BY <1>2
<1>4. Evaluations(time)' = Cardinality(J)
  BY DEF Evaluations
<1>5. ASSUME time = x PROVE Evaluations(time)' = Evaluations(time) + 1
  <2>1. J = I \cup {n}
    BY <1>2, <1>5
  <2>2. Cardinality(I \cup {n}) = Cardinality(I) + 1
    BY <1>1, <1>3, FS_AddElement
  <2> QED BY <1>1, <1>4, <1>5, <2>1, <2>2
<1>6. ASSUME time # x PROVE Evaluations(time)' = Evaluations(time)
  <2>1. J = I
    BY <1>2, <1>6
  <2> QED BY <1>1, <1>4, <1>6, <2>1
<1>7. Evaluations(time) \in Nat
  BY <1>1
<1> HIDE DEF I, J, n
<1> QED BY <1>5, <1>6, <1>7

-----------------------------------------------------------------------------
(* Evaluating the bar that is forming: its last tick counts once more, and *)
(* whatever the strategy signals keeps the account in balance.             *)
LEMMA FillKeepsConfig ==
  ASSUME NEW action, NEW price, NEW at, NEW decided, Fill(action, price, at, decided)
  PROVE  config' = config
BY DEF Fill, Open, Close, CloseEach, brokerVars

(* The account of a number of evaluations, once that number is known.      *)
LEMMA NextTickAccount ==
  ASSUME NEW n \in Nat, Len(evaluated') = n, Account(n, n + 1)'
  PROVE  Account(Len(evaluated), Len(evaluated) + 1)'
BY DEF Account, AccountTyped, PositionRecords, TradeRecords

(* What one evaluation of the forming bar does.                            *)
LEMMA EvaluateEffect ==
  ASSUME TicksFitBars, TickInv, forming # NoBar, Evaluate(forming)
  PROVE  /\ config' = config
         /\ evaluated' = Append(evaluated, tick.time)
         /\ evaluated' \in Seq(0 .. MaxTickTime)
         /\ \A i \in DOMAIN evaluated' :
              \/ evaluated'[i] = tick.time
              \/ i \in DOMAIN evaluated /\ evaluated'[i] = evaluated[i]
         /\ Account(Len(evaluated), Len(evaluated) + 1)'
         /\ \A time : /\ Evaluations(time)' = Evaluations(time)
                                                + (IF time = tick.time THEN 1 ELSE 0)
                      /\ Evaluations(time) \in Nat
<1>1. /\ tick \in Ticks /\ forming \in Built
      /\ forming.close \in Nat /\ Len(evaluated) \in Nat
      /\ evaluated \in Seq(0 .. MaxTickTime)
  BY TickFacts DEF Built
<1>2. tick.time \in 0 .. MaxTickTime
  BY <1>1 DEF Ticks
<1>3. evaluated' = Append(evaluated, tick.time)
  BY DEF Evaluate
<1>4. PICK S : S = 0 .. MaxTickTime
  OBVIOUS
<1>5. /\ evaluated' \in Seq(S) /\ Len(evaluated') = Len(evaluated) + 1
      /\ \A i \in DOMAIN evaluated' :
           \/ evaluated'[i] = tick.time
           \/ i \in DOMAIN evaluated /\ evaluated'[i] = evaluated[i]
  <2>1. evaluated \in Seq(S) /\ tick.time \in S
    BY <1>1, <1>2, <1>4
  <2> QED BY <1>3, <2>1
<1>6. ASSUME NEW time
      PROVE  /\ Evaluations(time)' = Evaluations(time) + (IF time = tick.time THEN 1 ELSE 0)
             /\ Evaluations(time) \in Nat
  BY <1>1, <1>2, <1>3, EvaluationsAppend
<1>7. PICK n \in Nat : n = Len(evaluated) + 1
  BY <1>1
<1>8. Account(n, n + 1)' /\ config' = config
  <2>0. PICK m \in Nat, o \in Nat, p \in Nat :
          m = Len(evaluated) /\ o = Len(evaluated) + 1 /\ p = n + 1
    BY <1>1, <1>7
  <2>1. Account(m, o) /\ m < n /\ o <= p /\ n <= p /\ n \in 1 .. n
    BY <1>7, <2>0 DEF TickInv
  <2>2. CASE UNCHANGED brokerVars
    <3>1. config' = config /\ cash' = cash /\ positions' = positions /\ trades' = trades
      BY <2>2 DEF brokerVars
    <3>2. Account(m, o)'
      BY <2>1, <3>1 DEF Account, AccountTyped, OpenedOnce, MoneyConserved
    <3>3. PositionRecords(m) \subseteq PositionRecords(n)
          /\ TradeRecords(m, o) \subseteq TradeRecords(n, p)
      BY <2>1 DEF PositionRecords, TradeRecords
    <3>4. Account(n, p)'
      BY <3>2, <3>3 DEF Account, AccountTyped
    <3> QED BY <2>0, <3>1, <3>4
  <2>3. ASSUME NEW action \in SignalActions, Fill(action, forming.close, n, n)
        PROVE  Account(n, n + 1)' /\ config' = config
    <3>1. PICK price \in Nat : price = forming.close
      BY <1>1
    <3>2. Account(n, p)'
      BY <2>1, <2>3, <3>1, FillBalances
    <3> QED BY <2>0, <2>3, <3>2, FillKeepsConfig
  <2>4. UNCHANGED brokerVars
        \/ \E action \in SignalActions : Fill(action, forming.close, n, n)
    BY <1>5, <1>7 DEF Evaluate
  <2> QED BY <2>2, <2>3, <2>4
<1>9. Account(Len(evaluated), Len(evaluated) + 1)'
  BY <1>5, <1>7, <1>8, NextTickAccount
<1> QED BY <1>3, <1>4, <1>5, <1>6, <1>8, <1>9

-----------------------------------------------------------------------------
(* The bars of the grid.                                                   *)

(* A step that builds no bar stays on the grid.                            *)
LEMMA SameBarsOnGrid ==
  ASSUME TicksFitBars, TickInv, config' = config, Built' = Built,
         \A i \in DOMAIN evaluated' : \E bar \in Built : evaluated'[i] \in bar.ticks
  PROVE  OnGrid'
<1>1. OnGrid
  BY TickFacts
<1> QED BY <1>1 DEF OnGrid, End

(* The bar a tick starts lies after every bar that ends before the tick.   *)
LEMMA BarsBefore ==
  ASSUME TicksFitBars, TickInv, NEW t \in Arrivals,
         \A bar \in Built : End(bar) <= t.time
  PROVE  /\ StartedBy(t) \in Bars
         /\ StartedBy(t).start % config.bar = 0
         /\ StartedBy(t).start <= t.time /\ t.time < StartedBy(t).start + config.bar
         /\ \A bar \in Built : End(bar) <= StartedBy(t).start /\ bar.start # StartedBy(t).start
<1> DEFINE new == StartedBy(t)
<1>0. OnGrid /\ config \in Configs
  BY TickFacts
<1>1. /\ t.time \in Nat /\ t.time \in 0 .. MaxTickTime /\ t.price \in TickPrices
  BY ArrivalFacts
<1>2. /\ config.bar \in Nat \ {0}
      /\ BarStart(t.time) \in Nat /\ BarStart(t.time) <= t.time
      /\ t.time < BarStart(t.time) + config.bar
      /\ BarStart(t.time) % config.bar = 0
      /\ \A e \in Int : e % config.bar = 0 /\ e <= t.time => e <= BarStart(t.time)
  BY <1>0, <1>1, BarStarts
<1>3. new.start = BarStart(t.time)
  BY DEF StartedBy
<1>4. new \in Bars
  <2>1. BarStart(t.time) \in 0 .. MaxTickTime
    BY <1>1, <1>2 DEF TicksFitBars
  <2>2. {t.time} \in (SUBSET (0 .. MaxTickTime)) \ {{}}
    BY <1>1
  <2> QED BY <1>1, <2>1, <2>2 DEF StartedBy, Bars
<1>5. ASSUME NEW bar \in Built
      PROVE  End(bar) <= new.start /\ bar.start # new.start
  <2>1. bar.start \in Nat /\ bar.start % config.bar = 0
    BY <1>0, TickFacts DEF OnGrid
  <2>2. PICK s \in Int, k \in Nat \ {0} : s = bar.start /\ k = config.bar
    BY <1>2, <2>1
  <2>3. (s + k) % k = 0
    BY <2>1, <2>2, NextMultiple
  <2>4. End(bar) = s + k
    BY <2>2 DEF End
  <2>5. s + k \in Int /\ (s + k) % config.bar = 0 /\ s + k <= t.time
    BY <2>2, <2>3, <2>4
  <2>6. s + k <= BarStart(t.time)
    BY <1>2, <2>5
  <2> QED BY <1>2, <1>3, <2>1, <2>2, <2>4, <2>6
<1> QED BY <1>2, <1>3, <1>4, <1>5

(* A bar that begins after the end of all others is a new bar of the       *)
(* grid.                                                                   *)
LEMMA NewBarOnGrid ==
  ASSUME TicksFitBars, TickInv, NEW t \in Arrivals, config' = config,
         Built' = Built \cup {StartedBy(t)},
         \A bar \in Built : End(bar) <= t.time,
         \A i \in DOMAIN evaluated' : \E bar \in Built : evaluated'[i] \in bar.ticks
  PROVE  OnGrid'
<1> DEFINE new == StartedBy(t)
<1>1. OnGrid
  BY TickFacts
<1>2. /\ new.start % config.bar = 0
      /\ new.start <= t.time /\ t.time < new.start + config.bar
      /\ \A bar \in Built : bar.start # new.start
  BY BarsBefore
<1>3. new.ticks = {t.time}
  BY DEF StartedBy
<1>4. ASSUME NEW bar \in Built'
      PROVE  /\ bar.start % config.bar = 0
             /\ \A time \in bar.ticks : bar.start <= time /\ time < bar.start + config.bar
  <2>1. CASE bar \in Built
    BY <1>1, <2>1 DEF OnGrid, End
  <2>2. CASE bar = new
    BY <1>2, <1>3, <2>2
  <2> QED BY <2>1, <2>2
<1>5. \A bar, other \in Built' : bar = other \/ bar.start # other.start
  <2> HIDE DEF new
  <2> QED BY <1>1, <1>2 DEF OnGrid, new
<1>6. \A i \in DOMAIN evaluated' : \E bar \in Built' : evaluated'[i] \in bar.ticks
  OBVIOUS
<1> QED BY <1>4, <1>5, <1>6 DEF OnGrid, End

-----------------------------------------------------------------------------
(* A replay begins with a new account and no bar.                          *)
LEMMA InitTickInv ==
  ASSUME TicksFitBars, Init
  PROVE  TickInv
<1>1. /\ config \in Configs /\ cash = InitialBalance /\ positions = {} /\ trades = {}
      /\ step = "next_tick" /\ tick = NoTick /\ forming = NoBar /\ committed = {}
      /\ evaluated = <<>>
  BY DEF Init, ExchangeInit
<1>2. Account(Len(evaluated), Len(evaluated) + 1)
  BY <1>1, NewAccount
<1>3. evaluated \in Seq(0 .. MaxTickTime) /\ DOMAIN evaluated = {}
  BY <1>1
<1>4. TypeOK
  BY <1>1, <1>3 DEF TypeOK
<1>5. InOrder /\ EvaluatedOnce /\ FormingEvaluated
  BY <1>1 DEF InOrder, EvaluatedOnce, FormingEvaluated
<1>6. TicksInTheirBars
  <2>1. OnGrid
    BY <1>1, <1>3 DEF OnGrid, Built
  <2> QED BY <2>1, GridIsTicksInTheirBars
<1> QED BY <1>2, <1>4, <1>5, <1>6 DEF TickInv

(* The account between two evaluations.                                    *)
LEMMA QuietAccount ==
  ASSUME TickInv, UNCHANGED <<evaluated, brokerVars>>
  PROVE  Account(Len(evaluated), Len(evaluated) + 1)'
BY DEF TickInv, Account, AccountTyped, OpenedOnce, MoneyConserved, brokerVars

(* The evaluations do not change while nothing is evaluated.               *)
LEMMA QuietEvaluations ==
  ASSUME evaluated' = evaluated, NEW time
  PROVE  Evaluations(time)' = Evaluations(time)
BY DEF Evaluations

(* A tick within the bar joins it.                                         *)
LEMMA JoinBarKeeps ==
  ASSUME TicksFitBars, TickInv, NEW t \in Arrivals, JoinBar(t)
  PROVE  TickInv'
<1> DEFINE new == [forming EXCEPT !.ticks = @ \cup {t.time}, !.close = t.price]
<1>1. /\ step = "next_tick" /\ step' = "evaluate" /\ forming # NoBar /\ Contains(forming, t)
      /\ tick' = t /\ forming' = new
      /\ committed' = committed /\ evaluated' = evaluated /\ UNCHANGED brokerVars
      /\ config' = config
  BY DEF JoinBar, brokerVars
<1>2. /\ forming \in Bars /\ forming \in Built /\ tick # NoTick /\ tick.time \in Nat
      /\ config \in Configs /\ config.bar \in Nat \ {0} /\ config.tick \in Nat \ {0}
      /\ OnGrid
  BY <1>1, TickFacts DEF Built
<1>3. /\ t \in Ticks /\ t # NoTick /\ t.time \in Nat /\ t.price \in TickPrices
      /\ t.time \in 0 .. MaxTickTime /\ t.time % config.tick = 0
      /\ tick.time < t.time
  BY <1>2, ArrivalFacts
<1>4. /\ new.start = forming.start /\ new.ticks = forming.ticks \cup {t.time}
      /\ new.close = t.price /\ new \in Bars /\ new # NoBar
  <2>1. /\ new.start = forming.start /\ new.ticks = forming.ticks \cup {t.time}
        /\ new.close = t.price
    BY <1>2 DEF Bars
  <2>2. new \in Bars
    BY <1>2, <1>3 DEF Bars
  <2> QED BY <2>1, <2>2 DEF TicksFitBars
<1>5. /\ forming.start <= t.time /\ t.time < End(forming)
  BY <1>1 DEF Contains
<1> HIDE DEF new
<1>6. Built' = committed \cup {new} /\ Built = committed \cup {forming}
  BY <1>1, <1>4 DEF Built
<1>7. TypeOK'
  BY <1>1, <1>3, <1>4 DEF TickInv, TypeOK
<1>8. Account(Len(evaluated), Len(evaluated) + 1)'
  BY <1>1, QuietAccount
<1>9. InOrder'
  <2>1. \A bar \in Built' : \A time \in bar.ticks : time <= t.time
    <3>1. ASSUME NEW bar \in Built, NEW time \in bar.ticks PROVE time <= t.time
      <4>1. time <= tick.time /\ time \in Nat
        BY <1>2, <3>1, TickFacts DEF TickInv, InOrder
      <4> QED BY <1>2, <1>3, <4>1
    <3> QED BY <1>3, <1>4, <1>6, <3>1
  <2>2. \A i \in DOMAIN evaluated : evaluated[i] <= t.time
    <3>1. ASSUME NEW i \in DOMAIN evaluated PROVE evaluated[i] <= t.time
      <4>1. evaluated[i] <= tick.time /\ evaluated[i] \in Nat
        BY <1>2, TickFacts DEF TickInv, InOrder
      <4> QED BY <1>2, <1>3, <4>1
    <3> QED BY <3>1
  <2>3. \A bar \in committed : End(bar)' <= new.start
    BY <1>1, <1>4 DEF TickInv, InOrder, End
  <2> QED BY <1>1, <1>3, <1>4, <2>1, <2>2, <2>3 DEF InOrder
<1>10. TicksInTheirBars'
  <2>1. ASSUME NEW bar \in Built'
        PROVE  /\ bar.start % config.bar = 0
               /\ \A time \in bar.ticks : bar.start <= time /\ time < bar.start + config.bar
    <3>1. CASE bar \in committed
      BY <1>2, <1>6, <3>1 DEF OnGrid, End
    <3>2. CASE bar = new
      BY <1>2, <1>4, <1>5, <1>6, <3>2 DEF OnGrid, End
    <3> QED BY <1>6, <2>1, <3>1, <3>2
  <2>2. ASSUME NEW bar \in committed
        PROVE  bar.start # new.start
    <3>1. End(bar) <= forming.start /\ bar.start \in Nat
      BY <1>1, <1>6, TickFacts DEF TickInv, InOrder
    <3> QED BY <1>2, <1>4, <3>1 DEF End
  <2>3. \A bar, other \in Built' : bar = other \/ bar.start # other.start
    BY <1>2, <1>6, <2>2 DEF OnGrid
  <2>4. \A i \in DOMAIN evaluated : \E bar \in Built' : evaluated[i] \in bar.ticks
    BY <1>2, <1>4, <1>6 DEF OnGrid
  <2>5. OnGrid'
    BY <1>1, <2>1, <2>3, <2>4 DEF OnGrid, End
  <2> QED BY <2>5, GridIsTicksInTheirBarsNext
<1>11. EvaluatedOnce'
  BY <1>1 DEF TickInv, EvaluatedOnce, End
<1>12. FormingEvaluated'
  <2>1. ASSUME NEW time \in new.ticks
        PROVE  Evaluations(time)' = IF time = t.time THEN 0 ELSE 1
    <3>1. CASE time = t.time
      <4>1. \A i \in DOMAIN evaluated : evaluated[i] # time
        BY <1>2, <1>3, <3>1, TickFacts DEF TickInv, InOrder
      <4> QED BY <1>1, <3>1, <4>1, NoEvaluations, QuietEvaluations
    <3>2. CASE time # t.time
      <4>1. time \in forming.ticks
        BY <1>4, <3>2
      <4>2. Evaluations(time) = 1
        BY <1>1, <4>1 DEF TickInv, FormingEvaluated
      <4> QED BY <1>1, <3>2, <4>2, QuietEvaluations
    <3> QED BY <3>1, <3>2
  <2> QED BY <1>1, <2>1 DEF FormingEvaluated
<1> QED BY <1>7, <1>8, <1>9, <1>10, <1>11, <1>12 DEF TickInv

(* A bar that begins with a tick, when those before it end no later.       *)
LEMMA NewBarKeeps ==
  ASSUME TicksFitBars, TickInv, NEW t \in Arrivals,
         config' = config, tick' = t, step' = "evaluate",
         forming' = StartedBy(t), committed' = Built,
         \A bar \in Built : End(bar) <= t.time,
         evaluated' \in Seq(0 .. MaxTickTime),
         \A i \in DOMAIN evaluated' :
           /\ evaluated'[i] < t.time /\ evaluated'[i] \in Nat
           /\ \E bar \in Built : evaluated'[i] \in bar.ticks
  PROVE  TypeOK' /\ InOrder' /\ TicksInTheirBars' /\ FormingEvaluated'
<1> DEFINE new == StartedBy(t)
<1>1. /\ t \in Ticks /\ t # NoTick /\ t.time \in Nat /\ t.time % config.tick = 0
      /\ tick # NoTick => tick.time < t.time /\ tick.time \in Nat
  <2>1. config.tick \in Nat \ {0} /\ (tick # NoTick => tick.time \in Nat)
    BY TickFacts
  <2>2. /\ t \in Ticks /\ t # NoTick /\ t.time \in Nat /\ t.time % config.tick = 0
        /\ tick # NoTick => tick.time + config.tick <= t.time
    BY ArrivalFacts
  <2> QED BY <2>1, <2>2
<1>2. /\ new.start = BarStart(t.time) /\ new.ticks = {t.time}
  BY DEF StartedBy
<1>3. Built \subseteq Bars
  BY TickFacts
<1>4. NoBar \notin Built /\ committed \subseteq Built
  BY <1>3 DEF TicksFitBars, Built, TickInv, TypeOK
<1>5. \A bar \in Built : \A time \in bar.ticks : time <= t.time
  <2>1. ASSUME NEW bar \in Built, NEW time \in bar.ticks PROVE time <= t.time
    <3>1. tick # NoTick
      BY <2>1 DEF TickInv, InOrder, Built
    <3>2. time <= tick.time /\ time \in Nat
      BY <2>1, <3>1, TickFacts DEF TickInv, InOrder
    <3> QED BY <1>1, <3>1, <3>2
  <2> QED BY <2>1
<1>6. Built' = Built \cup {new} \/ Built' = Built
  BY DEF Built
<1>7. new # NoBar => Built' = Built \cup {new}
  BY DEF Built
<1>8. new \in Bars /\ \A bar \in Built : End(bar) <= new.start
  BY BarsBefore
<1>9. new # NoBar
  BY <1>8 DEF TicksFitBars
<1>10. Built' = Built \cup {new} /\ committed' = Built /\ forming' = new
  BY <1>7, <1>9
<1>11. OnGrid'
  BY <1>10, NewBarOnGrid
<1>12. TicksInTheirBars'
  BY <1>11, GridIsTicksInTheirBarsNext
<1> HIDE DEF new
<1>13. TypeOK'
  BY <1>1, <1>3, <1>8, <1>10 DEF TypeOK
<1>14. InOrder'
  <2>1. \A bar \in Built' : \A time \in bar.ticks : time <= t.time
    BY <1>1, <1>2, <1>5, <1>10
  <2>2. \A bar \in committed' : End(bar)' <= new.start
    BY <1>8, <1>10 DEF End
  <2>3. \A i \in DOMAIN evaluated' : evaluated'[i] <= t.time
    BY <1>1
  <2> QED BY <1>1, <1>2, <1>9, <1>10, <2>1, <2>2, <2>3 DEF InOrder
<1>15. FormingEvaluated'
  <2>1. {i \in DOMAIN evaluated' : evaluated'[i] = t.time} = {}
    BY <1>1
  <2>2. Evaluations(t.time)' = 0
    BY <2>1, FS_EmptySet DEF Evaluations
  <2> QED BY <1>2, <1>10, <2>2 DEF FormingEvaluated
<1> QED BY <1>12, <1>13, <1>14, <1>15

(* With no bar forming, the tick begins one after all that were closed.    *)
LEMMA StartBarKeeps ==
  ASSUME TicksFitBars, TickInv, NEW t \in Arrivals, StartBar(t)
  PROVE  TickInv'
<1>1. /\ step = "next_tick" /\ step' = "evaluate" /\ forming = NoBar
      /\ tick' = t /\ forming' = StartedBy(t)
      /\ committed' = committed /\ evaluated' = evaluated /\ UNCHANGED brokerVars
      /\ config' = config
  BY DEF StartBar, brokerVars
<1>2. Built = committed
  BY <1>1 DEF Built
<1>3. ASSUME NEW bar \in Built PROVE End(bar) <= t.time
  <2>1. tick # NoTick /\ tick.time \in Nat /\ config.tick \in Nat /\ End(bar) \in Nat
    BY <1>2, <1>3, TickFacts DEF TickInv, InOrder
  <2>2. End(bar) <= tick.time + config.tick
    BY <1>1, <1>2, <2>1 DEF TickInv, InOrder
  <2>3. tick.time + config.tick <= t.time /\ t.time \in Nat
    BY <2>1, ArrivalFacts
  <2> QED BY <2>1, <2>2, <2>3
<1>4. ASSUME NEW i \in DOMAIN evaluated
      PROVE  /\ evaluated[i] < t.time /\ evaluated[i] \in Nat
             /\ \E bar \in Built : evaluated[i] \in bar.ticks
  <2>1. /\ evaluated[i] \in Nat /\ \E bar \in Built : evaluated[i] \in bar.ticks
    BY TickFacts DEF OnGrid
  <2>2. tick # NoTick /\ tick.time \in Nat /\ config.tick \in Nat \ {0}
    BY <1>2, <2>1, TickFacts DEF TickInv, InOrder
  <2>3. evaluated[i] <= tick.time
    BY <2>2 DEF TickInv, InOrder
  <2>4. tick.time + config.tick <= t.time /\ t.time \in Nat
    BY <2>2, ArrivalFacts
  <2> QED BY <2>1, <2>2, <2>3, <2>4
<1>5. evaluated' \in Seq(0 .. MaxTickTime)
  BY <1>1, TickFacts
<1>6. TypeOK' /\ InOrder' /\ TicksInTheirBars' /\ FormingEvaluated'
  BY <1>1, <1>2, <1>3, <1>4, <1>5, NewBarKeeps
<1>7. Account(Len(evaluated), Len(evaluated) + 1)'
  BY <1>1, QuietAccount
<1>8. EvaluatedOnce'
  BY <1>1 DEF TickInv, EvaluatedOnce, End
<1> QED BY <1>6, <1>7, <1>8 DEF TickInv

-----------------------------------------------------------------------------
(* Committing the bar: a tick that reached its end was not evaluated yet,  *)
(* and without such a tick the last one was, and is evaluated again.       *)
LEMMA CommitCounts ==
  ASSUME TicksFitBars, TickInv, forming # NoBar, Commit(forming),
         \/ step = "evaluate" /\ Reaches(forming, tick)
         \/ step = "next_tick"
  PROVE  EvaluatedOnce'
<1>1. /\ config' = config /\ committed' = committed \cup {forming}
      /\ \A time : /\ Evaluations(time)' = Evaluations(time)
                                             + (IF time = tick.time THEN 1 ELSE 0)
                   /\ Evaluations(time) \in Nat
  BY EvaluateEffect DEF Commit
<1>2. /\ forming \in Built
      /\ tick # NoTick /\ tick.time \in Nat /\ tick.time \in forming.ticks
      /\ config.bar \in Nat \ {0} /\ config.tick \in Nat \ {0} /\ OnGrid
  BY TickFacts DEF Built, TickInv, InOrder
<1>3. /\ \A time \in forming.ticks : time <= tick.time /\ time \in Nat
      /\ forming.start \in Nat /\ forming.start <= tick.time /\ End(forming) \in Nat
  BY <1>2, TickFacts DEF TickInv, InOrder, OnGrid, Built
<1>4. ASSUME NEW bar \in committed, NEW time \in bar.ticks
      PROVE  Evaluations(time)' = IF time + config.tick < End(bar)
                                     /\ \A other \in bar.ticks : other <= time
                                  THEN 2 ELSE 1
  <2>1. bar \in Built
    BY <1>4 DEF Built
  <2>2. time < End(bar) /\ End(bar) <= forming.start /\ time \in Nat /\ End(bar) \in Nat
    BY <1>4, <2>1, TickFacts DEF TickInv, InOrder, OnGrid
  <2>3. time # tick.time
    BY <1>2, <1>3, <2>2
  <2>4. Evaluations(time)' = Evaluations(time)
    BY <1>1, <2>3
  <2>5. Evaluations(time) = IF time + config.tick < End(bar)
                               /\ \A other \in bar.ticks : other <= time
                            THEN 2 ELSE 1
    BY <1>4 DEF TickInv, EvaluatedOnce, Evaluations
  <2> QED BY <2>4, <2>5
<1>5. ASSUME NEW time \in forming.ticks
      PROVE  Evaluations(time)' = IF time + config.tick < End(forming)
                                     /\ \A other \in forming.ticks : other <= time
                                  THEN 2 ELSE 1
  <2>1. CASE time # tick.time
    <3>1. Evaluations(time) = 1
      BY <1>5, <2>1 DEF TickInv, FormingEvaluated
    <3>2. Evaluations(time)' = 1
      BY <1>1, <2>1, <3>1
    <3>3. time < tick.time
      BY <1>2, <1>3, <1>5, <2>1
    <3>4. ~ \A other \in forming.ticks : other <= time
      BY <1>2, <1>3, <1>5, <3>3
    <3> QED BY <3>2, <3>4
  <2>2. CASE time = tick.time /\ step = "evaluate"
    <3>1. Evaluations(time) = 0
      BY <1>5, <2>2 DEF TickInv, FormingEvaluated
    <3>2. Evaluations(time)' = 1
      BY <1>1, <2>2, <3>1
    <3>3. ~(time + config.tick < End(forming))
      BY <1>2, <1>3, <2>2 DEF Reaches
    <3> QED BY <3>2, <3>3
  <2>3. CASE time = tick.time /\ step = "next_tick"
    <3>1. Evaluations(time) = 1
      BY <1>5, <2>3 DEF TickInv, FormingEvaluated
    <3>2. Evaluations(time)' = 2
      BY <1>1, <2>3, <3>1
    <3>3. time + config.tick < End(forming)
      BY <1>2, <2>3 DEF TickInv, InOrder
    <3>4. \A other \in forming.ticks : other <= time
      BY <1>3, <2>3
    <3> QED BY <3>2, <3>3, <3>4
  <2> QED BY <2>1, <2>2, <2>3
<1>6. \A bar \in committed' : \A time \in bar.ticks :
        Evaluations(time)' = IF time + config'.tick < End(bar)'
                                /\ \A other \in bar.ticks : other <= time
                             THEN 2 ELSE 1
  BY <1>1, <1>4, <1>5 DEF End
<1> QED BY <1>6 DEF EvaluatedOnce, Evaluations

(* The evaluated ticks are still within the bars that were built.          *)
LEMMA EvaluatedWithin ==
  ASSUME TicksFitBars, TickInv, forming # NoBar, Evaluate(forming)
  PROVE  \A i \in DOMAIN evaluated' :
           /\ evaluated'[i] <= tick.time /\ evaluated'[i] \in Nat
           /\ \E bar \in Built : evaluated'[i] \in bar.ticks
<1>1. /\ forming \in Built /\ tick # NoTick /\ tick.time \in Nat
      /\ tick.time \in forming.ticks /\ OnGrid
  BY TickFacts DEF Built, TickInv, InOrder
<1>2. ASSUME NEW i \in DOMAIN evaluated'
      PROVE  /\ evaluated'[i] <= tick.time /\ evaluated'[i] \in Nat
             /\ \E bar \in Built : evaluated'[i] \in bar.ticks
  <2>1. CASE evaluated'[i] = tick.time
    BY <1>1, <2>1
  <2>2. CASE i \in DOMAIN evaluated /\ evaluated'[i] = evaluated[i]
    BY <1>1, <2>2, TickFacts DEF OnGrid, TickInv, InOrder
  <2> QED BY <1>2, <2>1, <2>2, EvaluateEffect
<1> QED BY <1>2

(* The tick that reaches the end of the bar commits it.                    *)
LEMMA CloseBarKeeps ==
  ASSUME TicksFitBars, TickInv, CloseBar
  PROVE  TickInv'
<1>1. /\ step = "evaluate" /\ forming # NoBar /\ Reaches(forming, tick) /\ Commit(forming)
      /\ committed' = committed \cup {forming} /\ Evaluate(forming)
      /\ forming' = NoBar /\ step' = "next_tick" /\ tick' = tick
  BY DEF CloseBar, Commit, TickInv, InOrder
<1>2. /\ config' = config /\ evaluated' \in Seq(0 .. MaxTickTime)
      /\ Account(Len(evaluated), Len(evaluated) + 1)'
  BY <1>1, EvaluateEffect
<1>3. EvaluatedOnce'
  BY <1>1, CommitCounts
<1>4. TypeOK'
  BY <1>1, <1>2 DEF TickInv, TypeOK
<1>5. Built' = Built /\ committed' = Built
  <2>1. NoBar \notin committed
    BY DEF TickInv, TypeOK, TicksFitBars
  <2> QED BY <1>1, <2>1 DEF Built
<1>6. TicksInTheirBars'
  BY <1>1, <1>2, <1>5, EvaluatedWithin, SameBarsOnGrid, GridIsTicksInTheirBarsNext
<1>7. InOrder'
  <2>1. /\ tick # NoTick /\ tick.time \in Nat /\ config.tick \in Nat \ {0}
        /\ tick.time % config.tick = 0
        /\ \A bar \in Built : \A time \in bar.ticks : time <= tick.time
    BY <1>1, TickFacts DEF TickInv, InOrder
  <2>2. ASSUME NEW bar \in Built PROVE End(bar) <= tick.time + config.tick
    <3>0. End(bar) \in Nat /\ End(forming) \in Nat /\ forming.start \in Nat
          /\ config.bar \in Nat /\ End(forming) = forming.start + config.bar
      BY <1>1, TickFacts DEF Built, End
    <3>1. End(forming) <= tick.time + config.tick
      BY <1>1, <2>1, <3>0 DEF Reaches
    <3>2. bar = forming \/ End(bar) <= forming.start
      BY <1>1 DEF TickInv, InOrder, Built
    <3> QED BY <2>1, <3>0, <3>1, <3>2
  <2>3. \A i \in DOMAIN evaluated' : evaluated'[i] <= tick.time
    BY <1>1, EvaluatedWithin
  <2> QED BY <1>1, <1>2, <1>5, <2>1, <2>2, <2>3 DEF InOrder, End
<1>8. FormingEvaluated'
  BY <1>1 DEF FormingEvaluated
<1> QED BY <1>2, <1>3, <1>4, <1>6, <1>7, <1>8 DEF TickInv

(* The stream ends inside a bar.                                           *)
LEMMA CommitPartialKeeps ==
  ASSUME TicksFitBars, TickInv, CommitPartial
  PROVE  TickInv'
<1>1. /\ step = "next_tick" /\ forming # NoBar /\ Commit(forming)
      /\ committed' = committed \cup {forming} /\ Evaluate(forming)
      /\ forming' = NoBar /\ step' = "ended" /\ tick' = tick
  BY DEF CommitPartial, Commit
<1>2. /\ config' = config /\ evaluated' \in Seq(0 .. MaxTickTime)
      /\ Account(Len(evaluated), Len(evaluated) + 1)'
  BY <1>1, EvaluateEffect
<1>3. EvaluatedOnce'
  BY <1>1, CommitCounts
<1>4. TypeOK'
  BY <1>1, <1>2 DEF TickInv, TypeOK
<1>5. Built' = Built
  <2>1. NoBar \notin committed
    BY DEF TickInv, TypeOK, TicksFitBars
  <2> QED BY <1>1, <2>1 DEF Built
<1>6. TicksInTheirBars'
  BY <1>1, <1>2, <1>5, EvaluatedWithin, SameBarsOnGrid, GridIsTicksInTheirBarsNext
<1>7. InOrder'
  <2>1. /\ tick # NoTick /\ tick.time % config.tick = 0
        /\ \A bar \in Built : \A time \in bar.ticks : time <= tick.time
    BY <1>1, TickFacts DEF TickInv, InOrder
  <2>2. \A i \in DOMAIN evaluated' : evaluated'[i] <= tick.time
    BY <1>1, EvaluatedWithin
  <2> QED BY <1>1, <1>2, <1>5, <2>1, <2>2 DEF InOrder
<1>8. FormingEvaluated'
  BY <1>1 DEF FormingEvaluated
<1> QED BY <1>2, <1>3, <1>4, <1>6, <1>7, <1>8 DEF TickInv

(* The bar is committed as it is, and the tick begins the next one.        *)
LEMMA CommitUnclosedKeeps ==
  ASSUME TicksFitBars, TickInv, NEW t \in Arrivals, CommitUnclosed(t)
  PROVE  TickInv'
<1>1. /\ step = "next_tick" /\ forming # NoBar /\ ~Contains(forming, t) /\ Commit(forming)
      /\ committed' = committed \cup {forming} /\ Evaluate(forming)
      /\ forming' = StartedBy(t) /\ step' = "evaluate" /\ tick' = t
  BY DEF CommitUnclosed, Commit
<1>2. /\ config' = config /\ evaluated' \in Seq(0 .. MaxTickTime)
      /\ Account(Len(evaluated), Len(evaluated) + 1)'
  BY <1>1, EvaluateEffect
<1>3. EvaluatedOnce'
  BY <1>1, CommitCounts
<1>4. committed' = Built
  BY <1>1 DEF Built
<1>5. /\ tick # NoTick /\ tick.time \in Nat /\ config.tick \in Nat \ {0}
      /\ t.time \in Nat /\ tick.time < t.time
      /\ forming \in Built /\ forming.start \in Nat /\ End(forming) \in Nat
      /\ config.bar \in Nat /\ forming.start <= tick.time
      /\ End(forming) = forming.start + config.bar
  <2>1. /\ tick # NoTick /\ tick.time \in Nat /\ config.tick \in Nat \ {0} /\ OnGrid
        /\ forming \in Built /\ config.bar \in Nat /\ tick.time \in forming.ticks
    BY <1>1, TickFacts DEF Built, TickInv, InOrder
  <2>2. tick.time + config.tick <= t.time /\ t.time \in Nat
    BY <2>1, ArrivalFacts
  <2>3. forming.start \in Nat /\ End(forming) \in Nat /\ forming.start <= tick.time
    BY <2>1, TickFacts DEF OnGrid
  <2>4. tick.time < t.time
    BY <2>1, <2>2
  <2>5. End(forming) = forming.start + config.bar
    BY DEF End
  <2> QED BY <2>1, <2>2, <2>3, <2>4, <2>5
<1>6. End(forming) <= t.time
  BY <1>1, <1>5 DEF Contains
<1>7. ASSUME NEW bar \in Built PROVE End(bar) <= t.time
  <2>1. bar = forming \/ End(bar) <= forming.start
    BY <1>1 DEF TickInv, InOrder, Built
  <2>2. End(bar) \in Nat
    BY TickFacts
  <2> QED BY <1>5, <1>6, <2>1, <2>2
<1>8. ASSUME NEW i \in DOMAIN evaluated'
      PROVE  /\ evaluated'[i] < t.time /\ evaluated'[i] \in Nat
             /\ \E bar \in Built : evaluated'[i] \in bar.ticks
  BY <1>1, <1>5, EvaluatedWithin
<1>9. TypeOK' /\ InOrder' /\ TicksInTheirBars' /\ FormingEvaluated'
  BY <1>1, <1>2, <1>4, <1>7, <1>8, NewBarKeeps
<1> QED BY <1>2, <1>3, <1>9 DEF TickInv

(* A provisional evaluation changes nothing but the counts and the account.*)
LEMMA EvaluateFormingKeeps ==
  ASSUME TicksFitBars, TickInv, EvaluateForming
  PROVE  TickInv'
<1>1. /\ step = "evaluate" /\ forming # NoBar /\ ~Reaches(forming, tick)
      /\ Evaluate(forming) /\ step' = "next_tick"
      /\ tick' = tick /\ forming' = forming /\ committed' = committed
  BY DEF EvaluateForming, TickInv, InOrder
<1>2. /\ config' = config /\ evaluated' \in Seq(0 .. MaxTickTime)
      /\ Account(Len(evaluated), Len(evaluated) + 1)'
      /\ \A time : /\ Evaluations(time)' = Evaluations(time)
                                             + (IF time = tick.time THEN 1 ELSE 0)
                   /\ Evaluations(time) \in Nat
  BY <1>1, EvaluateEffect
<1>3. TypeOK'
  BY <1>1, <1>2 DEF TickInv, TypeOK
<1>4. Built' = Built
  BY <1>1 DEF Built
<1>5. TicksInTheirBars'
  BY <1>1, <1>2, <1>4, EvaluatedWithin, SameBarsOnGrid, GridIsTicksInTheirBarsNext
<1>6. /\ tick # NoTick /\ tick.time \in Nat /\ tick.time \in forming.ticks
      /\ config.tick \in Nat \ {0} /\ End(forming) \in Nat /\ forming \in Built
  BY <1>1, TickFacts DEF TickInv, InOrder, Built
<1>7. InOrder'
  <2>1. tick.time + config.tick < End(forming)
    BY <1>1, <1>6 DEF Reaches
  <2>2. \A i \in DOMAIN evaluated' : evaluated'[i] <= tick.time
    BY <1>1, EvaluatedWithin
  <2> QED BY <1>1, <1>2, <1>4, <1>6, <2>1, <2>2 DEF TickInv, InOrder, End
<1>8. EvaluatedOnce'
  <2>1. ASSUME NEW bar \in committed, NEW time \in bar.ticks
        PROVE  Evaluations(time)' = IF time + config.tick < End(bar)
                                       /\ \A other \in bar.ticks : other <= time
                                    THEN 2 ELSE 1
    <3>1. bar \in Built /\ OnGrid
      BY TickFacts DEF Built
    <3>2. time < End(bar) /\ End(bar) <= forming.start /\ time \in Nat /\ End(bar) \in Nat
          /\ forming.start \in Nat /\ forming.start <= tick.time
      BY <1>1, <1>6, <2>1, <3>1, TickFacts DEF TickInv, InOrder, OnGrid
    <3>3. time # tick.time
      BY <1>6, <3>2
    <3>4. Evaluations(time)' = Evaluations(time)
      BY <1>2, <3>3
    <3>5. Evaluations(time) = IF time + config.tick < End(bar)
                                 /\ \A other \in bar.ticks : other <= time
                              THEN 2 ELSE 1
      BY <2>1 DEF TickInv, EvaluatedOnce, Evaluations
    <3> QED BY <3>4, <3>5
  <2>2. \A bar \in committed' : \A time \in bar.ticks :
          Evaluations(time)' = IF time + config'.tick < End(bar)'
                                  /\ \A other \in bar.ticks : other <= time
                               THEN 2 ELSE 1
    BY <1>1, <1>2, <2>1 DEF End
  <2> QED BY <2>2 DEF EvaluatedOnce, Evaluations
<1>9. FormingEvaluated'
  <2>1. ASSUME NEW time \in forming.ticks PROVE Evaluations(time)' = 1
    <3>1. Evaluations(time) = IF time = tick.time THEN 0 ELSE 1
      BY <1>1, <2>1 DEF TickInv, FormingEvaluated
    <3> QED BY <1>2, <3>1
  <2> QED BY <1>1, <2>1 DEF FormingEvaluated
<1> QED BY <1>2, <1>3, <1>5, <1>7, <1>8, <1>9 DEF TickInv

(* The loop has ended, and nothing of the bars changes any more.           *)
LEMMA AtRest ==
  ASSUME TickInv, config' = config, tick' = tick, forming' = forming,
         committed' = committed, evaluated' = evaluated,
         step' \in {"finished", "failed", "cancelled"},
         step \in {"next_tick", "ended"}
  PROVE  TypeOK' /\ InOrder' /\ TicksInTheirBars' /\ EvaluatedOnce' /\ FormingEvaluated'
<1>1. TypeOK'
  BY DEF TickInv, TypeOK
<1>2. InOrder'
  BY DEF TickInv, InOrder, Built, End
<1>3. TicksInTheirBars' /\ EvaluatedOnce'
  <2>1. TicksInTheirBars'
    BY DEF TickInv, TicksInTheirBars, End
  <2>2. EvaluatedOnce'
    BY DEF TickInv, EvaluatedOnce, End
  <2> QED BY <2>1, <2>2
<1>4. FormingEvaluated'
  BY DEF TickInv, FormingEvaluated, Evaluations
<1> QED BY <1>1, <1>2, <1>3, <1>4

(* Whatever is open at the end is closed at the last price.                *)
LEMMA FinishKeepsTicks ==
  ASSUME TicksFitBars, TickInv, Finish
  PROVE  TickInv'
<1>1. /\ ForceClose(tick.price, Len(evaluated) + 1) /\ step' = "finished"
      /\ tick' = tick /\ forming' = forming /\ committed' = committed /\ evaluated' = evaluated
      /\ tick # NoTick /\ step \in {"next_tick", "ended"}
  BY DEF Finish, TickInv, InOrder
<1>2. tick.price \in Nat /\ Len(evaluated) \in Nat
  BY <1>1, TickFacts
<1>3. PICK n \in Nat, m \in Nat, price \in Nat :
        n = Len(evaluated) /\ m = Len(evaluated) + 1 /\ price = tick.price
  BY <1>2
<1>4. /\ CloseEach(ExitsAtMarket({"LONG", "SHORT"}, price, "end_of_backtest"), m)
      /\ Account(n, m) /\ m \in 1 .. m /\ n <= n /\ m <= m /\ m = n + 1
  BY <1>1, <1>3 DEF ForceClose, TickInv
<1>5. ExitsOf(ExitsAtMarket({"LONG", "SHORT"}, price, "end_of_backtest"))
  BY <1>4, MarketExits DEF Account, Reasons
<1>6. Account(n, m)'
  BY <1>4, <1>5, CloseBalances
<1>7. config' = config
  BY <1>4 DEF CloseEach
<1>8. Account(Len(evaluated), Len(evaluated) + 1)'
  BY <1>1, <1>3, <1>4, <1>6, NextTickAccount
<1>9. TypeOK' /\ InOrder' /\ TicksInTheirBars' /\ EvaluatedOnce' /\ FormingEvaluated'
  BY <1>1, <1>7, AtRest
<1> QED BY <1>8, <1>9 DEF TickInv

(* The steps that end the loop early, and those of others.                 *)
LEMMA QuietTicksKeep ==
  ASSUME TicksFitBars, TickInv, EmptyStream \/ Cancel \/ UNCHANGED vars
  PROVE  TickInv'
<1>1. /\ config' = config /\ tick' = tick /\ forming' = forming /\ committed' = committed
      /\ evaluated' = evaluated /\ UNCHANGED brokerVars
      /\ step' = step \/ (step' \in {"failed", "cancelled"} /\ step = "next_tick")
  BY DEF EmptyStream, Cancel, vars, brokerVars
<1>2. Account(Len(evaluated), Len(evaluated) + 1)'
  BY <1>1, QuietAccount
<1>3. CASE step' = step
  <2>1. TypeOK'
    BY <1>1, <1>3 DEF TickInv, TypeOK
  <2>2. InOrder'
    BY <1>1, <1>3 DEF TickInv, InOrder, Built, End
  <2>3. TicksInTheirBars' /\ EvaluatedOnce'
    <3>1. TicksInTheirBars'
      BY <1>1 DEF TickInv, TicksInTheirBars, End
    <3>2. EvaluatedOnce'
      BY <1>1 DEF TickInv, EvaluatedOnce, End
    <3> QED BY <3>1, <3>2
  <2>4. FormingEvaluated'
    BY <1>1, <1>3 DEF TickInv, FormingEvaluated, Evaluations
  <2> QED BY <1>2, <2>1, <2>2, <2>3, <2>4 DEF TickInv
<1>4. CASE step' \in {"failed", "cancelled"} /\ step = "next_tick"
  <2>1. TypeOK' /\ InOrder' /\ TicksInTheirBars' /\ EvaluatedOnce' /\ FormingEvaluated'
    BY <1>1, <1>4, AtRest
  <2> QED BY <1>2, <2>1 DEF TickInv
<1> QED BY <1>1, <1>3, <1>4

(* Every step of the replay keeps the invariant.                           *)
LEMMA StepTicks ==
  ASSUME TicksFitBars, TickInv, [Next]_vars
  PROVE  TickInv'
<1>1. ASSUME NEW t \in Arrivals, JoinBar(t) PROVE TickInv' BY <1>1, JoinBarKeeps
<1>2. ASSUME NEW t \in Arrivals, StartBar(t) PROVE TickInv' BY <1>2, StartBarKeeps
<1>3. ASSUME NEW t \in Arrivals, CommitUnclosed(t) PROVE TickInv' BY <1>3, CommitUnclosedKeeps
<1>4. CASE CloseBar BY <1>4, CloseBarKeeps
<1>5. CASE EvaluateForming BY <1>5, EvaluateFormingKeeps
<1>6. CASE CommitPartial BY <1>6, CommitPartialKeeps
<1>7. CASE Finish BY <1>7, FinishKeepsTicks
<1>8. CASE EmptyStream \/ Cancel \/ UNCHANGED vars BY <1>8, QuietTicksKeep
<1> QED BY <1>1, <1>2, <1>3, <1>4, <1>5, <1>6, <1>7, <1>8 DEF Next

-----------------------------------------------------------------------------
(* A replay of ticks keeps to the grid, counts each evaluation once and    *)
(* balances its account, for every stream of ticks.                        *)
THEOREM TickInvHolds ==
  ASSUME TicksFitBars
  PROVE  Spec => []TickInv
<1>1. Init => TickInv
  BY InitTickInv
<1>2. TickInv /\ [Next]_vars => TickInv'
  BY StepTicks
<1> QED BY <1>1, <1>2, PTL DEF Spec

=============================================================================
