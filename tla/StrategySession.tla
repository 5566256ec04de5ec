--------------------------- MODULE StrategySession ---------------------------
(***************************************************************************)
(* Which strategy a live candle reaches, and whose order comes of it:      *)
(* LiveStrategySession, the handlers that arm and disarm it on the thread  *)
(* pool, and the websocket thread that feeds it one kline update at a time.*)
(*                                                                         *)
(* An arming is one engine with the coordinator built for it; a market is  *)
(* a symbol with an interval.  What the engine decides is nondeterministic *)
(* and ExecuteOrder is reduced to its gate and its network call (its whole *)
(* is modelled in LiveTrading).                                            *)
(***************************************************************************)
EXTENDS Integers, Sequences

CONSTANTS
  Workers,         \* threads of the pool
  Markets,         \* the markets the websocket service streams
  NoArming, NoMarket, NoCandle,    \* None
  MaxGeneration,   \* bound: arms and disarms
  MaxOrders        \* bound: orders sent

ASSUME NoneAssumption ==
  /\ NoArming \notin [id : Nat, market : Markets]
  /\ NoMarket \notin Markets
  /\ NoCandle \notin [market : Markets, closed : BOOLEAN]
  /\ MaxGeneration \in Nat /\ MaxOrders \in Nat

VARIABLES
  enabled,      \* TradingSessionState.enabled
  generation,   \* LiveStrategySession.generation
  armed,        \* _config, _engine and _coordinator, which change together
  job,          \* job[w]: what the handler run by worker w is about to do
  target,       \* target[w]: the market of an ArmStrategyCommand
  stage,        \* how far the websocket thread is with its kline update
  candle,       \* that update
  held          \* the snapshot dispatch_tick took

(* History. *)
VARIABLES
  fed,          \* the candles each engine was given
  orders        \* the orders sent: whose signal, through whose coordinator

sessionVars == <<generation, armed>>
workerVars  == <<job, target>>
tickVars    == <<stage, candle, held>>
historyVars == <<fed, orders>>
vars == <<enabled, sessionVars, workerVars, tickVars, historyVars>>

(* A kline update of a market: its bar has closed or is still forming.     *)
Candles == [market : Markets, closed : BOOLEAN]

Armings == [id : Nat, market : Markets]

Init ==
  /\ enabled = FALSE
  /\ generation = 0
  /\ armed = NoArming
  /\ job = [w \in Workers |-> "none"]
  /\ target = [w \in Workers |-> NoMarket]
  /\ stage = "waiting"
  /\ candle = NoCandle
  /\ held = NoArming
  /\ fed = {}
  /\ orders = << >>

-----------------------------------------------------------------------------
(* The trading switch, as these handlers read it. *)

TurnOn ==
  /\ ~enabled
  /\ enabled' = TRUE
  /\ UNCHANGED <<sessionVars, workerVars, tickVars, historyVars>>

TurnOff ==
  /\ enabled
  /\ enabled' = FALSE
  /\ UNCHANGED <<sessionVars, workerVars, tickVars, historyVars>>

-----------------------------------------------------------------------------
(* ArmStrategyCommandHandler and DisarmStrategyCommandHandler: the switch  *)
(* is read first, without a lock over what follows.  A command refused     *)
(* there changes nothing.                                                  *)

BeginArm(w, m) ==
  /\ job[w] = "none"
  /\ ~enabled
  /\ job' = [job EXCEPT ![w] = "arm"]
  /\ target' = [target EXCEPT ![w] = m]
  /\ UNCHANGED <<enabled, sessionVars, tickVars, historyVars>>

BeginDisarm(w) ==
  /\ job[w] = "none"
  /\ ~enabled
  /\ job' = [job EXCEPT ![w] = "disarm"]
  /\ UNCHANGED <<enabled, sessionVars, target, tickVars, historyVars>>

EndJob(w) ==
  /\ job' = [job EXCEPT ![w] = "none"]
  /\ target' = [target EXCEPT ![w] = NoMarket]

(* LiveStrategySession.arm: a freshly built pair replaces what was armed.  *)
Arm(w) ==
  /\ job[w] = "arm"
  /\ generation < MaxGeneration
  /\ armed' = [id |-> generation + 1, market |-> target[w]]
  /\ generation' = generation + 1
  /\ EndJob(w)
  /\ UNCHANGED <<enabled, tickVars, historyVars>>

(* An incomplete configuration, an unknown key, or parameters the strategy *)
(* refuses: nothing is swapped.                                            *)
ArmRefused(w) ==
  /\ job[w] = "arm"
  /\ EndJob(w)
  /\ UNCHANGED <<enabled, sessionVars, tickVars, historyVars>>

(* LiveStrategySession.disarm *)
Disarm(w) ==
  /\ job[w] = "disarm"
  /\ generation < MaxGeneration
  /\ armed' = NoArming
  /\ generation' = generation + 1
  /\ EndJob(w)
  /\ UNCHANGED <<enabled, tickVars, historyVars>>

Worker(w) ==
  \/ \E m \in Markets : BeginArm(w, m)
  \/ BeginDisarm(w) \/ Arm(w) \/ ArmRefused(w) \/ Disarm(w)

-----------------------------------------------------------------------------
(* One kline update, from the socket to the order. *)

(* Mutant: the snapshot outlives its tick.                                 *)
EndTickKeepsSnapshot ==
  /\ stage' = "waiting"
  /\ candle' = NoCandle
  /\ held' = held

EndTick ==
  /\ stage' = "waiting"
  /\ candle' = NoCandle
  /\ held' = NoArming

(* BinanceWebsocketService emits every update of the stream, and           *)
(* MarketTickEventHandler passes each on.                                  *)
Receive(c) ==
  /\ stage = "waiting"
  /\ stage' = "received"
  /\ candle' = c
  /\ UNCHANGED <<enabled, sessionVars, workerVars, held, historyVars>>

(* Mutant: the handler runs the engine it was first given.                 *)
CachedSnapshot == IF fed = {} THEN armed ELSE (CHOOSE f \in fed : TRUE).arming

(* dispatch_tick: what is armed, read once under the lock.                 *)
Snapshot == armed

(* Mutant: updates of every market reach the engine (BUG-085).             *)
TakeSnapshotUnfiltered ==
  /\ stage = "received"
  /\ Snapshot # NoArming
  /\ held' = Snapshot
  /\ stage' = "engine"
  /\ UNCHANGED <<enabled, sessionVars, workerVars, candle, historyVars>>

TakeSnapshot ==
  /\ stage = "received"
  /\ Snapshot # NoArming
  /\ Snapshot.market = candle.market
  /\ held' = Snapshot
  /\ stage' = "engine"
  /\ UNCHANGED <<enabled, sessionVars, workerVars, candle, historyVars>>

IgnoreTick ==
  /\ stage = "received"
  /\ \/ Snapshot = NoArming
     \/ Snapshot # NoArming /\ Snapshot.market # candle.market
  /\ EndTick
  /\ UNCHANGED <<enabled, sessionVars, workerVars, historyVars>>

(* StrategyEngine.on_tick commits the candle to the indicators; while they *)
(* warm up, and on HOLD, there is no signal.                               *)
RunEngine ==
  /\ stage = "engine"
  /\ fed' = fed \cup {[arming |-> held, candle |-> candle]}
  /\ \/ EndTick
     \/ stage' = "signal" /\ UNCHANGED <<candle, held>>
  /\ UNCHANGED <<enabled, sessionVars, workerVars, orders>>

(* Mutant: the coordinator is read again once the engine has run.          *)
CoordinatorReadAgain == armed

(* The coordinator a signal is handed to is that of the same snapshot.     *)
Coordinator == held

(* LiveTradingCoordinator.handle sizes the order, and ExecuteOrder's gate  *)
(* finds trading on: from here to the order lie network calls.             *)
PassGate ==
  /\ stage = "signal"
  /\ enabled
  /\ stage' = "gated"
  /\ UNCHANGED <<enabled, sessionVars, workerVars, candle, held, historyVars>>

(* The order is sent. *)
SendOrder ==
  /\ stage = "gated"
  /\ Len(orders) < MaxOrders
  /\ Coordinator # NoArming
  /\ orders' = Append(orders, [ engine      |-> held,
                                coordinator |-> Coordinator,
                                stale       |-> held # armed ])
  /\ EndTick
  /\ UNCHANGED <<enabled, sessionVars, workerVars, fed>>

(* No metadata, balance or quantity, the gate or a limit refuses, or the   *)
(* exchange does: handle() logs it and returns.                            *)
NoOrderSent ==
  /\ stage \in {"signal", "gated"}
  /\ EndTick
  /\ UNCHANGED <<enabled, sessionVars, workerVars, historyVars>>

WebsocketThread ==
  \/ \E c \in Candles : Receive(c)
  \/ TakeSnapshot \/ IgnoreTick \/ RunEngine \/ PassGate \/ SendOrder \/ NoOrderSent

Next == TurnOn \/ TurnOff \/ (\E w \in Workers : Worker(w)) \/ WebsocketThread

Spec == Init /\ [][Next]_vars

-----------------------------------------------------------------------------
(* Properties. *)

Stages == {"waiting", "received", "engine", "signal", "gated"}
HoldingStages == {"engine", "signal", "gated"}

(* The types; a snapshot is held from TakeSnapshot to the end of the tick. *)
TypeOK ==
  /\ enabled \in BOOLEAN
  /\ generation \in Nat
  /\ armed \in Armings \cup {NoArming}
  /\ job \in [Workers -> {"none", "arm", "disarm"}]
  /\ target \in [Workers -> Markets \cup {NoMarket}]
  /\ \A w \in Workers : job[w] = "arm" => target[w] \in Markets
  /\ stage \in Stages
  /\ candle \in Candles \cup {NoCandle}
  /\ stage # "waiting" => candle \in Candles
  /\ held \in Armings \cup {NoArming}
  /\ held # NoArming <=> stage \in HoldingStages
  /\ fed \subseteq [arming : Armings, candle : Candles]
  /\ orders \in Seq([engine : Armings, coordinator : Armings, stale : BOOLEAN])

(* A signal only ever becomes an order through the coordinator it was      *)
(* armed with, whatever is armed while the candle is being processed       *)
(* (live_strategy_session.py:16-23).                                       *)
SignalStaysWithItsArming ==
  \A i \in DOMAIN orders : orders[i].engine = orders[i].coordinator

(* An engine is only ever given candles of the market it was armed on,     *)
(* even when another market is armed while the candle is on its way.       *)
EngineSeesItsMarketOnly ==
  \A f \in fed : f.arming.market = f.candle.market

(* Once something else is armed, or nothing is, an arming sends at most    *)
(* one more order: that of the tick which was in flight.  (One it can      *)
(* send: live_strategy_session.py:30-33 argues that none is possible, as   *)
(* trading is off then, but trading may be on again when the tick arrives.)*)
OneOrderAfterReplacement ==
  \A i, j \in DOMAIN orders :
    orders[i].stale /\ i < j => orders[j].engine # orders[i].engine

-----------------------------------------------------------------------------
(* What the repository says and the code does not do. *)

(* strategy_engine.py:36-38: on_tick only ever receives a closed candle.   *)
OnlyClosedCandles == \A f \in fed : f.candle.closed
=============================================================================
