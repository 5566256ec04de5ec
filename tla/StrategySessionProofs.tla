------------------------ MODULE StrategySessionProofs ------------------------
(***************************************************************************)
(* A candle, its engine and its coordinator belong together, and a         *)
(* strategy that was replaced sends one more order at most: proved for     *)
(* every number of pool threads and markets.                               *)
(***************************************************************************)
EXTENDS StrategySession, SequenceTheorems, TLAPS

SentOrders == [engine : Armings, coordinator : Armings, stale : BOOLEAN]

(* The type of the sequence the properties index. *)
LEMMA OrdersType ==
  ASSUME TypeOK
  PROVE  /\ Len(orders) \in Nat /\ DOMAIN orders = 1 .. Len(orders)
         /\ \A i \in DOMAIN orders : orders[i] \in SentOrders
<1>1. orders \in Seq(SentOrders)
  BY DEF TypeOK, SentOrders
<1>2. Len(orders) \in Nat /\ DOMAIN orders = 1 .. Len(orders)
  BY <1>1, LenProperties
<1>3. \A i \in DOMAIN orders : orders[i] \in SentOrders
  BY <1>1, <1>2, ElementOfSeq
<1> QED BY <1>2, <1>3

(* Sending an order appends the order of the tick in flight. *)
LEMMA SendOrderFacts ==
  ASSUME TypeOK, SendOrder
  PROVE  /\ held \in Armings
         /\ orders' \in Seq(SentOrders)
         /\ Len(orders') = Len(orders) + 1 /\ DOMAIN orders' = 1 .. Len(orders) + 1
         /\ \A i \in 1 .. Len(orders) : orders'[i] = orders[i]
         /\ orders'[Len(orders) + 1].engine = held
         /\ orders'[Len(orders) + 1].coordinator = held
         /\ orders'[Len(orders) + 1].stale = (held # armed)
<1> DEFINE sent == [engine |-> held, coordinator |-> held, stale |-> held # armed]
<1>1. held \in Armings /\ orders \in Seq(SentOrders)
  BY DEF TypeOK, SendOrder, HoldingStages, SentOrders
<1>2. sent \in SentOrders
  BY <1>1 DEF SentOrders
<1>3. orders' = Append(orders, sent)
  BY DEF SendOrder, Coordinator
<1> HIDE DEF sent
<1>4. /\ orders' \in Seq(SentOrders)
      /\ Len(orders') = Len(orders) + 1 /\ DOMAIN orders' = 1 .. Len(orders) + 1
      /\ \A i \in 1 .. Len(orders) : orders'[i] = orders[i]
      /\ orders'[Len(orders) + 1] = sent
  BY <1>1, <1>2, <1>3, AppendProperties, LenProperties
<1> QED BY <1>1, <1>4 DEF sent

-----------------------------------------------------------------------------
(* Types. *)

(* The handlers that arm and disarm preserve the types. *)
LEMMA WorkerTypes ==
  ASSUME TypeOK, NEW w \in Workers, Worker(w)
  PROVE  TypeOK'
<1> USE DEF TypeOK, sessionVars, workerVars, tickVars, historyVars
<1>1. CASE \E m \in Markets : BeginArm(w, m)
  BY <1>1 DEF BeginArm
<1>2. CASE BeginDisarm(w)
  BY <1>2 DEF BeginDisarm
<1>3. CASE Arm(w)
  <2>1. armed' \in Armings
    BY <1>3 DEF Arm, Armings
  <2> QED BY <1>3, <2>1 DEF Arm, EndJob
<1>4. CASE ArmRefused(w)
  BY <1>4 DEF ArmRefused, EndJob
<1>5. CASE Disarm(w)
  BY <1>5 DEF Disarm, EndJob
<1> QED BY <1>1, <1>2, <1>3, <1>4, <1>5 DEF Worker

(* The websocket thread preserves the types. *)
LEMMA WebsocketTypes ==
  ASSUME TypeOK, WebsocketThread
  PROVE  TypeOK'
<1> USE DEF TypeOK, sessionVars, workerVars, tickVars, historyVars, Stages, HoldingStages
<1>1. CASE \E c \in Candles : Receive(c)
  BY <1>1 DEF Receive
<1>2. CASE TakeSnapshot
  BY <1>2 DEF TakeSnapshot, Snapshot
<1>3. CASE IgnoreTick
  BY <1>3 DEF IgnoreTick, EndTick
<1>4. CASE RunEngine
  <2>1. [arming |-> held, candle |-> candle] \in [arming : Armings, candle : Candles]
    BY <1>4 DEF RunEngine
  <2>2. fed' \subseteq [arming : Armings, candle : Candles]
    BY <1>4, <2>1 DEF RunEngine
  <2>3. CASE EndTick
    BY <1>4, <2>2, <2>3 DEF RunEngine, EndTick
  <2>4. CASE stage' = "signal" /\ UNCHANGED <<candle, held>>
    BY <1>4, <2>2, <2>4 DEF RunEngine
  <2> QED BY <1>4, <2>3, <2>4 DEF RunEngine
<1>5. CASE PassGate
  BY <1>5 DEF PassGate
<1>6. CASE SendOrder
  <2>1. orders' \in Seq(SentOrders)
    BY <1>6, SendOrderFacts
  <2> QED BY <1>6, <2>1 DEF SendOrder, EndTick, SentOrders
<1>7. CASE NoOrderSent
  BY <1>7 DEF NoOrderSent, EndTick
<1> QED BY <1>1, <1>2, <1>3, <1>4, <1>5, <1>6, <1>7 DEF WebsocketThread

(* Every step preserves the types. *)
LEMMA StepTypes == TypeOK /\ [Next]_vars => TypeOK'
<1> SUFFICES ASSUME TypeOK, [Next]_vars PROVE TypeOK'
  OBVIOUS
<1> USE DEF vars, sessionVars, workerVars, tickVars, historyVars
<1>1. CASE TurnOn
  BY <1>1 DEF TurnOn, TypeOK
<1>2. CASE TurnOff
  BY <1>2 DEF TurnOff, TypeOK
<1>3. CASE \E w \in Workers : Worker(w)
  BY <1>3, WorkerTypes
<1>4. CASE WebsocketThread
  BY <1>4, WebsocketTypes
<1>5. CASE UNCHANGED vars
  BY <1>5 DEF TypeOK
<1> QED BY <1>1, <1>2, <1>3, <1>4, <1>5 DEF Next

(* The program starts disarmed, with its types right. *)
LEMMA InitTypes == Init => TypeOK
<1> SUFFICES ASSUME Init PROVE TypeOK
  OBVIOUS
<1>1. orders \in Seq(SentOrders)
  BY DEF Init
<1>2. \A w \in Workers : job[w] # "arm"
  BY DEF Init
<1>3. held = NoArming /\ armed = NoArming /\ stage \in Stages \ HoldingStages
  BY DEF Init, Stages, HoldingStages
<1> QED BY <1>1, <1>2, <1>3 DEF Init, TypeOK, SentOrders

(* The arming, the handlers' locals and the tick in flight stay well       *)
(* formed; a snapshot is held exactly while its tick is processed.         *)
THEOREM TypeCorrect == Spec => []TypeOK
<1> QED BY InitTypes, StepTypes, PTL DEF Spec

-----------------------------------------------------------------------------
(* The inductive invariant: ids are never used again, the candle being     *)
(* processed belongs to the market of the snapshot, and an arming that has *)
(* sent a stale order is neither armed nor held.                           *)

FreshIds ==
  /\ armed # NoArming => armed.id <= generation
  /\ held # NoArming => held.id <= generation
  /\ \A i \in DOMAIN orders : orders[i].engine.id <= generation

HeldMatches == stage = "engine" => held.market = candle.market

StaleIsGone ==
  \A i \in DOMAIN orders :
    orders[i].stale => orders[i].engine \notin {armed, held}

ArmingInv ==
  /\ FreshIds
  /\ HeldMatches
  /\ StaleIsGone
  /\ SignalStaysWithItsArming
  /\ EngineSeesItsMarketOnly
  /\ OneOrderAfterReplacement

(* Arming and disarming preserve the invariant: a new arming is one no     *)
(* order was ever sent for.                                                *)
LEMMA WorkerPreserves ==
  ASSUME TypeOK, ArmingInv, NEW w \in Workers, Worker(w)
  PROVE  ArmingInv'
<1> USE DEF sessionVars, workerVars, tickVars, historyVars
<1>1. UNCHANGED <<tickVars, historyVars>>
  BY DEF Worker, BeginArm, BeginDisarm, Arm, ArmRefused, Disarm
<1>2. \/ UNCHANGED sessionVars
      \/ armed' = NoArming /\ generation' = generation + 1
      \/ armed' = [id |-> generation + 1, market |-> target[w]] /\ generation' = generation + 1
  BY DEF Worker, BeginArm, BeginDisarm, Arm, ArmRefused, Disarm
<1>3. FreshIds'
  BY <1>1, <1>2, OrdersType DEF ArmingInv, FreshIds, TypeOK, Armings, SentOrders
<1>4. \A i \in DOMAIN orders : orders[i].engine \in Armings /\ orders[i].engine.id \in Nat
  BY OrdersType DEF SentOrders, Armings
<1>5. StaleIsGone'
  <2>1. ASSUME NEW i \in DOMAIN orders, orders[i].stale
        PROVE  orders[i].engine # armed'
    <3>1. CASE UNCHANGED sessionVars
      BY <2>1, <3>1 DEF ArmingInv, StaleIsGone
    <3>2. CASE armed' = NoArming
      BY <1>4, <3>2, NoneAssumption DEF Armings
    <3>3. CASE armed' = [id |-> generation + 1, market |-> target[w]]
      BY <1>4, <3>3 DEF ArmingInv, FreshIds, TypeOK
    <3> QED BY <1>2, <3>1, <3>2, <3>3
  <2> QED BY <1>1, <2>1 DEF ArmingInv, StaleIsGone
<1> QED BY <1>1, <1>3, <1>5 DEF ArmingInv, HeldMatches, SignalStaysWithItsArming,
                                EngineSeesItsMarketOnly, OneOrderAfterReplacement

(* The order of the tick in flight: its arming has sent no stale order     *)
(* before, and is held no longer.                                          *)
LEMMA SendOrderPreserves ==
  ASSUME TypeOK, ArmingInv, SendOrder
  PROVE  ArmingInv'
<1>1. /\ held' = NoArming /\ stage' = "waiting" /\ armed' = armed
      /\ generation' = generation /\ fed' = fed
  BY DEF SendOrder, EndTick, sessionVars
<1> DEFINE n == Len(orders) + 1
<1>2. /\ n \in Nat /\ DOMAIN orders = 1 .. Len(orders) /\ DOMAIN orders' = 1 .. n
      /\ \A i \in DOMAIN orders : i < n /\ orders'[i] = orders[i] /\ orders[i] \in SentOrders
      /\ \A i \in DOMAIN orders' : i \in DOMAIN orders \/ i = n
      /\ held \in Armings
  BY OrdersType, SendOrderFacts
<1>3. /\ orders'[n].engine = held /\ orders'[n].coordinator = held
      /\ orders'[n].stale = (held # armed)
  BY SendOrderFacts
<1>4. \A i \in DOMAIN orders' : orders'[i].engine # NoArming
  BY <1>2, <1>3, NoneAssumption DEF SentOrders, Armings
<1> HIDE DEF n
<1>5. FreshIds'
  BY <1>1, <1>2, <1>3, NoneAssumption DEF ArmingInv, FreshIds, Armings
<1>6. StaleIsGone'
  BY <1>1, <1>2, <1>3, <1>4 DEF ArmingInv, StaleIsGone
<1>7. SignalStaysWithItsArming'
  BY <1>2, <1>3 DEF ArmingInv, SignalStaysWithItsArming
<1>8. OneOrderAfterReplacement'
  <2>1. ASSUME NEW i \in DOMAIN orders', NEW j \in DOMAIN orders', orders'[i].stale, i < j
        PROVE  orders'[j].engine # orders'[i].engine
    <3>1. i \in DOMAIN orders
      BY <1>2, <2>1
    <3>2. CASE j \in DOMAIN orders
      BY <1>2, <2>1, <3>1, <3>2 DEF ArmingInv, OneOrderAfterReplacement
    <3>3. CASE j = n
      BY <1>2, <1>3, <2>1, <3>1, <3>3 DEF ArmingInv, StaleIsGone
    <3> QED BY <1>2, <3>2, <3>3
  <2> QED BY <2>1 DEF OneOrderAfterReplacement
<1>9. HeldMatches' /\ EngineSeesItsMarketOnly'
  BY <1>1 DEF ArmingInv, HeldMatches, EngineSeesItsMarketOnly
<1> QED BY <1>5, <1>6, <1>7, <1>8, <1>9 DEF ArmingInv

(* The other steps of the websocket thread send nothing; what they hold is *)
(* what is armed, what they held, or nothing.                              *)
LEMMA WebsocketPreserves ==
  ASSUME TypeOK, ArmingInv, WebsocketThread, ~SendOrder
  PROVE  ArmingInv'
<1>1. UNCHANGED <<generation, armed, orders>>
  BY DEF WebsocketThread, Receive, TakeSnapshot, IgnoreTick, RunEngine, PassGate,
         NoOrderSent, sessionVars, historyVars
<1>2. held' \in {held, armed, NoArming}
  BY DEF WebsocketThread, Receive, TakeSnapshot, IgnoreTick, RunEngine, PassGate,
         NoOrderSent, EndTick, Snapshot
<1>3. FreshIds'
  BY <1>1, <1>2 DEF ArmingInv, FreshIds
<1>4. StaleIsGone'
  BY <1>1, <1>2, OrdersType, NoneAssumption DEF ArmingInv, StaleIsGone, SentOrders, Armings
<1>5. HeldMatches'
  BY DEF WebsocketThread, Receive, TakeSnapshot, IgnoreTick, RunEngine, PassGate,
         NoOrderSent, EndTick, Snapshot, HeldMatches
<1>6. EngineSeesItsMarketOnly'
  <2>1. CASE RunEngine
    BY <2>1 DEF RunEngine, ArmingInv, HeldMatches, EngineSeesItsMarketOnly
  <2>2. CASE ~RunEngine
    <3>1. fed' = fed
      BY <2>2 DEF WebsocketThread, Receive, TakeSnapshot, IgnoreTick, PassGate,
                  NoOrderSent, historyVars
    <3> QED BY <3>1 DEF ArmingInv, EngineSeesItsMarketOnly
  <2> QED BY <2>1, <2>2
<1> QED BY <1>1, <1>3, <1>4, <1>5, <1>6
        DEF ArmingInv, SignalStaysWithItsArming, OneOrderAfterReplacement

(* Every step preserves the invariant. *)
LEMMA StepArming == TypeOK /\ ArmingInv /\ [Next]_vars => ArmingInv'
<1> SUFFICES ASSUME TypeOK, ArmingInv, [Next]_vars PROVE ArmingInv'
  OBVIOUS
<1>1. CASE \E w \in Workers : Worker(w)
  BY <1>1, WorkerPreserves
<1>2. CASE SendOrder
  BY <1>2, SendOrderPreserves
<1>3. CASE WebsocketThread /\ ~SendOrder
  BY <1>3, WebsocketPreserves
<1>4. CASE TurnOn \/ TurnOff \/ UNCHANGED vars
  BY <1>4 DEF TurnOn, TurnOff, vars, sessionVars, tickVars, historyVars, ArmingInv, FreshIds,
              HeldMatches, StaleIsGone, SignalStaysWithItsArming, EngineSeesItsMarketOnly,
              OneOrderAfterReplacement
<1> QED BY <1>1, <1>2, <1>3, <1>4 DEF Next, WebsocketThread

(* The inductive invariant holds of the specification. *)
THEOREM ArmingInvariant == Spec => [](TypeOK /\ ArmingInv)
<1>1. Init => ArmingInv
  BY DEF Init, ArmingInv, FreshIds, HeldMatches, StaleIsGone, SignalStaysWithItsArming,
         EngineSeesItsMarketOnly, OneOrderAfterReplacement
<1> QED BY <1>1, InitTypes, StepTypes, StepArming, PTL DEF Spec

(* dispatch_tick's single snapshot does what its comment promises, however *)
(* arms and disarms interleave with it: a signal never runs through the    *)
(* coordinator of another arming.                                          *)
THEOREM SignalStaysWithItsArmingHolds == Spec => []SignalStaysWithItsArming
<1>1. ArmingInv => SignalStaysWithItsArming
  BY DEF ArmingInv
<1> QED BY <1>1, ArmingInvariant, PTL

(* No engine's indicators mix two markets, for every number of markets.    *)
THEOREM EngineSeesItsMarketOnlyHolds == Spec => []EngineSeesItsMarketOnly
<1>1. ArmingInv => EngineSeesItsMarketOnly
  BY DEF ArmingInv
<1> QED BY <1>1, ArmingInvariant, PTL

(* A replaced strategy is worth one order at most, however long its tick   *)
(* stays in flight and however often others are armed meanwhile.           *)
THEOREM OneOrderAfterReplacementHolds == Spec => []OneOrderAfterReplacement
<1>1. ArmingInv => OneOrderAfterReplacement
  BY DEF ArmingInv
<1> QED BY <1>1, ArmingInvariant, PTL
=============================================================================
