--------------------------- MODULE LiveTradingProofs ---------------------------
(***************************************************************************)
(* What holds of LiveTrading for every value of its constants: its type    *)
(* invariant; from the inductive invariant SwitchInv, what turning trading *)
(* off promises; from StopInv, what an emergency stop reports; and from    *)
(* SubmissionInv, that concurrent submission is safe: the session cap, the *)
(* one order per flat reading and the interval between orders hold of the  *)
(* exchange's ledger, for every number of workers and symbols.             *)
(***************************************************************************)
EXTENDS LiveTrading, SequenceTheorems, FiniteSetTheorems, TLAPS

-----------------------------------------------------------------------------
(* The session's methods return sessions. *)

(* Every method of TradingSessionState leaves a well-formed session.       *)
LEMMA SessionMethodTypes ==
  ASSUME NEW S \in Sessions
  PROVE  /\ \A open \in SUBSET Symbols : AfterEnable(S, open) \in Sessions
         /\ AfterDisable(S) \in Sessions
         /\ \A s \in Symbols, t \in Nat : AfterOrderSent(S, s, t) \in Sessions
         /\ \A s \in Symbols, b \in BOOLEAN : AfterReconcile(S, s, b) \in Sessions
<1>1. S.generation + 1 \in Nat /\ S.ordersSent + 1 \in Nat
  BY DEF Sessions
<1>2. ASSUME NEW open \in SUBSET Symbols
      PROVE  AfterEnable(S, open) \in Sessions
  BY <1>1 DEF Sessions, AfterEnable
<1>3. AfterDisable(S) \in Sessions
  BY <1>1 DEF Sessions, AfterDisable
<1>4. ASSUME NEW s \in Symbols, NEW t \in Nat
      PROVE  AfterOrderSent(S, s, t) \in Sessions
  <2>1. [S.lastOrderTime EXCEPT ![s] = t] \in [Symbols -> Nat \cup {Never}]
    BY DEF Sessions
  <2>2. S.knownOpen \cup {s} \in SUBSET Symbols
    BY DEF Sessions
  <2>3. AfterOrderSent(S, s, t) =
          [S EXCEPT !.ordersSent = S.ordersSent + 1,
                    !.lastOrderTime = [S.lastOrderTime EXCEPT ![s] = t],
                    !.knownOpen = S.knownOpen \cup {s},
                    !.generation = S.generation + 1]
    BY DEF AfterOrderSent, Sessions
  <2> QED BY <1>1, <2>1, <2>2, <2>3 DEF Sessions
<1>5. ASSUME NEW s \in Symbols, NEW b \in BOOLEAN
      PROVE  AfterReconcile(S, s, b) \in Sessions
  <2>1. (IF b THEN S.knownOpen \cup {s} ELSE S.knownOpen \ {s}) \in SUBSET Symbols
    BY DEF Sessions
  <2> QED BY <1>1, <2>1 DEF Sessions, AfterReconcile
<1> QED BY <1>2, <1>3, <1>4, <1>5

(* TradingSessionState starts well formed.                                 *)
LEMMA NewSessionType == NewSession \in Sessions
  BY DEF NewSession, Sessions, Never

(* The exchange's moves keep the account well typed. *)

(* An accepted order becomes the last entry of the ledger.                 *)
LEMMA AppendType ==
  ASSUME NEW l \in Seq(Entries), NEW e \in Entries
  PROVE  Append(l, e) \in Seq(Entries)
  OBVIOUS

(* Cancelling an entry keeps it an entry.                                  *)
LEMMA CancelledEntryType ==
  ASSUME NEW e \in Entries, NEW status \in OrderStates
  PROVE  [e EXCEPT !.status = status] \in Entries
  BY DEF Entries

(* Replacing one entry of the ledger by another keeps it a ledger.         *)
LEMMA LedgerExceptType ==
  ASSUME NEW l \in Seq(Entries), NEW i \in DOMAIN l, NEW e \in Entries
  PROVE  [l EXCEPT ![i] = e] \in Seq(Entries)
  BY ExceptSeq, LenProperties

(* A resting order that fills or expires leaves the account well formed.   *)
LEMMA FillOrderType ==
  ASSUME AccountTypeOK, NEW i, FillOrder(i)
  PROVE  AccountTypeOK'
<1>1. i \in DOMAIN ledger /\ ledger[i] \in Entries
  BY ElementOfSeq, LenProperties DEF AccountTypeOK, FillOrder
<1>2. ledger' \in Seq(Entries)
  <2>1. \E status \in OrderStates :
           ledger' = [ledger EXCEPT ![i] = [ledger[i] EXCEPT !.status = status]]
    BY DEF FillOrder, OrderStates
  <2> QED BY <1>1, <2>1, CancelledEntryType, LedgerExceptType DEF AccountTypeOK
<1>3. position' \in [Symbols -> Int]
  BY <1>1 DEF AccountTypeOK, FillOrder, AfterFill, Unit
<1> QED BY <1>2, <1>3 DEF AccountTypeOK

(* cancel_order() leaves the account well formed.                          *)
LEMMA CancelOneType ==
  ASSUME AccountTypeOK, NEW i \in DOMAIN ledger, CancelOne(i)
  PROVE  AccountTypeOK'
<1>1. ledger[i] \in Entries
  BY ElementOfSeq, LenProperties DEF AccountTypeOK
<1>2. \E status \in OrderStates :
         ledger' = [ledger EXCEPT ![i] = [ledger[i] EXCEPT !.status = status]]
  <2>1. ledger[i].status \in OrderStates
    BY <1>1 DEF Entries
  <2> QED BY <2>1 DEF CancelOne, OrderStates
<1> QED BY <1>1, <1>2, CancelledEntryType, LedgerExceptType DEF AccountTypeOK, CancelOne

(* cancel_all_orders(symbol) leaves the account well formed.               *)
LEMMA CancelAllType ==
  ASSUME AccountTypeOK, NEW s, CancelAll(s)
  PROVE  AccountTypeOK'
<1>1. ledger \in [1 .. Len(ledger) -> Entries] /\ Len(ledger) \in Nat
  BY LenProperties, SeqDef DEF AccountTypeOK
<1>2. \A i \in DOMAIN ledger : [ledger[i] EXCEPT !.status = "cancelled"] \in Entries
  BY <1>1, CancelledEntryType DEF OrderStates
<1>3. ledger' \in [1 .. Len(ledger) -> Entries]
  BY <1>1, <1>2 DEF CancelAll
<1>4. ledger' \in Seq(Entries)
  BY <1>1, <1>3, SeqDef
<1> QED BY <1>4 DEF AccountTypeOK, CancelAll

(* A reduce-only MARKET order leaves the account well formed.              *)
LEMMA ReduceType ==
  ASSUME AccountTypeOK, NEW p \in Symbols \X Int,
         ReduceAtMarket(p[1], ClosingSide(p[2]), Magnitude(p[2]))
  PROVE  AccountTypeOK'
  BY DEF AccountTypeOK, ReduceAtMarket, Magnitude

(* An order the exchange accepts leaves the account well formed.           *)
LEMMA AcceptType ==
  ASSUME AccountTypeOK, NEW e \in Entries, Accept(e)
  PROVE  AccountTypeOK'
<1>1. ledger' \in Seq(Entries)
  BY AppendType DEF AccountTypeOK, Accept
<1>2. position' \in [Symbols -> Int]
  <2>1. AfterFill(e) \in [Symbols -> Int]
    BY DEF AccountTypeOK, AfterFill, Unit, Entries
  <2> QED BY <2>1 DEF AccountTypeOK, Accept
<1> QED BY <1>1, <1>2 DEF AccountTypeOK

(* Moving on and returning keep the workers' locals well typed. *)

(* A worker that goes on to a step of a handler is at a step.              *)
LEMMA GotoType ==
  ASSUME pc \in [Workers -> Steps], NEW w, NEW label \in Steps, Goto(w, label)
  PROVE  pc' \in [Workers -> Steps]
  BY DEF Goto

(* A handler that returns leaves well-formed (empty) locals behind.        *)
LEMMA ReturnType ==
  ASSUME WorkerTypeOK, NEW w, Return(w)
  PROVE  WorkerTypeOK'
<1>1. NoReport \in Reports
  BY DEF NoReport, Reports
<1>2. "idle" \in Steps
  BY DEF Steps
<1> QED BY <1>1, <1>2 DEF WorkerTypeOK, Return

(* What moving on or returning does to OrderInHand. *)

(* An order in hand stays in hand while no worker reaches the order steps. *)
LEMMA HandLemma ==
  ASSUME WorkerTypeOK, OrderInHand, NEW w \in Workers,
         \/ Return(w)
         \/ UNCHANGED <<pc, order>>
         \/ /\ UNCHANGED order
            /\ \E label \in Steps :
                  /\ Goto(w, label)
                  /\ \/ label \notin GuardSteps \cup {"gated", "refused"}
                     \/ pc[w] \in GuardSteps \cup {"gated", "refused"}
  PROVE  OrderInHand'
  BY DEF WorkerTypeOK, OrderInHand, Return, Goto, GuardSteps

(* What is written down of an order in hand is an entry of the ledger.     *)
LEMMA EntryType ==
  ASSUME TypeOK, NEW w \in Workers, pc[w] \in GuardSteps,
         NEW status \in OrderStates, NEW lost \in BOOLEAN
  PROVE  Entry(w, status, lost) \in Entries
  BY DEF TypeOK, SharedTypeOK, WorkerTypeOK, OrderInHand, Sessions, OrderRequests,
         Entry, Entries, Sides

-----------------------------------------------------------------------------
(* Every handler keeps TypeOK. *)

(* Every step of ExecuteOrder preserves the types.                         *)
LEMMA ExecuteOrderTypes ==
  ASSUME TypeOK, NEW w \in Workers, ExecuteOrder(w)
  PROVE  TypeOK'
<1> USE DEF TypeOK
<1>1. CASE BeginExecute(w)
  <2>1. PICK o \in OrderRequests : order' = [order EXCEPT ![w] = o]
    <3>1. PICK s \in Symbols, action \in Actions, notional \in Notionals :
            order' = [order EXCEPT ![w] = OrderRequest(s, action, notional)]
      BY <1>1 DEF BeginExecute
    <3>2. OrderRequest(s, action, notional) \in OrderRequests
      BY DEF OrderRequest, OrderRequests, OrderIntent, Sides
    <3> QED BY <3>1, <3>2
  <2>2. Goto(w, "gated") /\ "gated" \in Steps
    BY <1>1 DEF BeginExecute, Steps
  <2>3. pc' \in [Workers -> Steps]
    BY <2>2, GotoType DEF WorkerTypeOK
  <2>4. OrderInHand'
    BY <2>1, <2>2 DEF Goto, OrderInHand, WorkerTypeOK
  <2>5. WorkerTypeOK'
    BY <1>1, <2>1, <2>3 DEF BeginExecute, WorkerTypeOK, SharedTypeOK, stopVars
  <2> QED BY <1>1, <2>4, <2>5
          DEF BeginExecute, sessionVars, accountVars, feedVars,
              SharedTypeOK, AccountTypeOK, FeedTypeOK
<1>2. CASE ExecuteNotReady(w) \/ PublishBlocked(w)
  BY <1>2, ReturnType, HandLemma
     DEF ExecuteNotReady, PublishBlocked, sessionVars, accountVars, feedVars,
         SharedTypeOK, AccountTypeOK, FeedTypeOK
<1>3. CASE RefuseOrder(w)
  <2>1. Goto(w, "refused") /\ pc[w] = "gated" /\ "refused" \in Steps
    BY <1>3 DEF RefuseOrder, Steps
  <2>2. OrderInHand'
    BY <1>3, <2>1, HandLemma DEF RefuseOrder
  <2> QED BY <1>3, <2>1, <2>2, GotoType
          DEF RefuseOrder, sessionVars, accountVars, feedVars, stopVars, historyVars,
              SharedTypeOK, AccountTypeOK, WorkerTypeOK, FeedTypeOK
<1>4. CASE PassLimits(w)
  <2>1. Goto(w, "placing") /\ pc[w] = "gated" /\ "placing" \in Steps
    BY <1>4 DEF PassLimits, Steps, GuardSteps
  <2>2. OrderInHand'
    BY <1>4, <2>1, HandLemma DEF PassLimits
  <2> QED BY <1>4, <2>1, <2>2, GotoType
          DEF PassLimits, accountVars, feedVars, stopVars, historyVars,
              SharedTypeOK, AccountTypeOK, WorkerTypeOK, FeedTypeOK
<1>5. CASE OrderAccepted(w)
  <2>1. Goto(w, "accepted") /\ pc[w] \in GuardSteps /\ "accepted" \in Steps
    BY <1>5 DEF OrderAccepted, Steps, GuardSteps
  <2>2. AccountTypeOK'
    BY <1>5, <2>1, EntryType, AcceptType DEF OrderAccepted, OrderStates
  <2>3. OrderInHand'
    BY <1>5, <2>1, HandLemma DEF OrderAccepted
  <2> QED BY <1>5, <2>1, <2>2, <2>3, GotoType
          DEF OrderAccepted, sessionVars, feedVars, stopVars, historyVars,
              SharedTypeOK, WorkerTypeOK, FeedTypeOK
<1>6. CASE AnswerLost(w)
  <2>1. AccountTypeOK'
    BY <1>6, EntryType, AcceptType DEF AnswerLost, OrderStates, GuardSteps
  <2> QED BY <1>6, <2>1, ReturnType, HandLemma
          DEF AnswerLost, feedVars, SharedTypeOK, FeedTypeOK
<1>7. CASE OrderRejected(w)
  BY <1>7, ReturnType, HandLemma
     DEF OrderRejected, accountVars, feedVars, SharedTypeOK, AccountTypeOK, FeedTypeOK
<1>8. CASE RecordOrder(w)
  <2>1. session' \in Sessions
    BY <1>8, SessionMethodTypes
       DEF RecordOrder, SharedTypeOK, WorkerTypeOK, OrderInHand, GuardSteps, OrderRequests
  <2> QED BY <1>8, <2>1, ReturnType, HandLemma
          DEF RecordOrder, accountVars, feedVars, SharedTypeOK, AccountTypeOK, FeedTypeOK
<1> QED BY <1>1, <1>2, <1>3, <1>4, <1>5, <1>6, <1>7, <1>8 DEF ExecuteOrder

(* Every step of CancelOrder preserves the types.                          *)
LEMMA CancelTypes ==
  ASSUME TypeOK, NEW w \in Workers, Cancel(w)
  PROVE  TypeOK'
<1> USE DEF TypeOK
<1>1. CASE BeginCancel(w)
  <2>1. Goto(w, "cancelGated") /\ "cancelGated" \in Steps \ (GuardSteps \cup {"gated", "refused"})
    BY <1>1 DEF BeginCancel, Steps, GuardSteps
  <2>2. OrderInHand'
    BY <1>1, <2>1, HandLemma DEF BeginCancel
  <2> QED BY <1>1, <2>1, <2>2, GotoType
          DEF BeginCancel, sessionVars, accountVars, feedVars, stopVars, historyVars,
              SharedTypeOK, AccountTypeOK, WorkerTypeOK, FeedTypeOK
<1>2. CASE CancelOrder(w)
  <2>1. AccountTypeOK'
    BY <1>2, CancelOneType DEF CancelOrder
  <2> QED BY <1>2, <2>1, ReturnType, HandLemma
          DEF CancelOrder, sessionVars, feedVars, SharedTypeOK, FeedTypeOK
<1>3. CASE CancelFails(w)
  BY <1>3, ReturnType, HandLemma
     DEF CancelFails, sessionVars, accountVars, feedVars,
         SharedTypeOK, AccountTypeOK, FeedTypeOK
<1> QED BY <1>1, <1>2, <1>3 DEF Cancel

(* Every step of EnableTrading preserves the types.                        *)
LEMMA EnableTradingTypes ==
  ASSUME TypeOK, NEW w \in Workers, EnableTrading(w)
  PROVE  TypeOK'
<1> USE DEF TypeOK
<1> DEFINE Away == Steps \ (GuardSteps \cup {"gated", "refused"})
<1>0. {"reconciling", "flatRead", "starting"} \subseteq Away
  BY DEF Steps, GuardSteps
<1>1. CASE BeginEnable(w)
  <2>1. OrderInHand'
    BY <1>0, <1>1, HandLemma DEF BeginEnable
  <2>2. session.generation \in Nat
    BY DEF SharedTypeOK, Sessions
  <2> QED BY <1>0, <1>1, <2>1, <2>2, GotoType
          DEF BeginEnable, sessionVars, accountVars, feedVars, stopVars,
              SharedTypeOK, AccountTypeOK, WorkerTypeOK, FeedTypeOK
<1>2. CASE ReadFlat(w)
  <2>1. OrderInHand'
    BY <1>0, <1>2, HandLemma DEF ReadFlat
  <2> QED BY <1>0, <1>2, <2>1, GotoType
          DEF ReadFlat, sessionVars, accountVars, feedVars, stopVars, historyVars,
              SharedTypeOK, AccountTypeOK, WorkerTypeOK, FeedTypeOK
<1>3. CASE EnableRefused(w) \/ EnableSuperseded(w)
  BY <1>3, ReturnType, HandLemma
     DEF EnableRefused, EnableSuperseded, sessionVars, accountVars, feedVars,
         SharedTypeOK, AccountTypeOK, FeedTypeOK
<1>4. CASE ApplyEnable(w)
  <2>1. OrderInHand'
    BY <1>0, <1>4, HandLemma DEF ApplyEnable
  <2>2. session' \in Sessions
    BY <1>4, SessionMethodTypes DEF ApplyEnable, SharedTypeOK
  <2>3. flatSince' \in [Symbols -> Nat]
    BY <1>4, LenProperties DEF ApplyEnable, AccountTypeOK
  <2> QED BY <1>0, <1>4, <2>1, <2>2, <2>3, GotoType
          DEF ApplyEnable, accountVars, feedVars, stopVars,
              SharedTypeOK, AccountTypeOK, WorkerTypeOK, FeedTypeOK
<1>5. CASE StartStream(w)
  BY <1>5, ReturnType, HandLemma
     DEF StartStream, sessionVars, accountVars, SharedTypeOK, AccountTypeOK, FeedTypeOK
<1> QED BY <1>1, <1>2, <1>3, <1>4, <1>5 DEF EnableTrading

(* Every step of DisableTrading preserves the types.                       *)
LEMMA DisableTradingTypes ==
  ASSUME TypeOK, NEW w \in Workers, DisableTrading(w)
  PROVE  TypeOK'
<1> USE DEF TypeOK
<1>1. CASE BeginDisable(w)
  <2>1. Goto(w, "disabled") /\ "disabled" \in Steps \ (GuardSteps \cup {"gated", "refused"})
    BY <1>1 DEF BeginDisable, Steps, GuardSteps
  <2>2. OrderInHand'
    BY <1>1, <2>1, HandLemma DEF BeginDisable
  <2>3. session' \in Sessions
    BY <1>1, SessionMethodTypes DEF BeginDisable, SharedTypeOK
  <2> QED BY <1>1, <2>1, <2>2, <2>3, GotoType
          DEF BeginDisable, accountVars, feedVars, stopVars,
              SharedTypeOK, AccountTypeOK, WorkerTypeOK, FeedTypeOK
<1>2. CASE StopStream(w)
  BY <1>2, ReturnType, HandLemma
     DEF StopStream, sessionVars, accountVars, SharedTypeOK, AccountTypeOK, FeedTypeOK
<1> QED BY <1>1, <1>2 DEF DisableTrading

(* What an emergency stop reads from the account. *)

(* The symbols with open orders are symbols.                               *)
LEMMA WorkingSymbolsType ==
  ASSUME AccountTypeOK
  PROVE  WorkingSymbols \in SUBSET Symbols
<1>1. \A i \in DOMAIN ledger : ledger[i] \in Entries
  BY ElementOfSeq, LenProperties DEF AccountTypeOK
<1> QED BY <1>1 DEF WorkingSymbols, Entries

(* The positions an emergency stop reads are symbols with amounts.         *)
LEMMA PositionsReadType ==
  ASSUME AccountTypeOK
  PROVE  {<<s, position[s]>> : s \in OpenSymbols} \in SUBSET (Symbols \X Int)
  BY DEF AccountTypeOK, OpenSymbols

(* Every step of EmergencyStop preserves the types.                        *)
LEMMA EmergencyStopTypes ==
  ASSUME TypeOK, NEW w \in Workers, EmergencyStop(w)
  PROVE  TypeOK'
<1> USE DEF TypeOK
<1>0. StopSteps \subseteq Steps \ (GuardSteps \cup {"gated", "refused"})
  BY DEF Steps, StopSteps, GuardSteps
<1>1. CASE BeginStop(w)
  <2>1. Goto(w, "stopping") /\ "stopping" \in StopSteps
    BY <1>1 DEF BeginStop, StopSteps
  <2>2. OrderInHand'
    BY <1>0, <1>1, <2>1, HandLemma DEF BeginStop
  <2>3. session' \in Sessions
    BY <1>1, SessionMethodTypes DEF BeginStop, SharedTypeOK
  <2>4. mark' \in [Workers -> Nat]
    BY <1>1, LenProperties DEF BeginStop, AccountTypeOK, WorkerTypeOK
  <2> QED BY <1>0, <1>1, <2>1, <2>2, <2>3, <2>4, GotoType
          DEF BeginStop, accountVars, feedVars, stopVars,
              SharedTypeOK, AccountTypeOK, WorkerTypeOK, FeedTypeOK
<1>2. CASE StopStopsStream(w)
  <2>1. Goto(w, "readOrders") /\ "readOrders" \in StopSteps
    BY <1>2 DEF StopStopsStream, StopSteps
  <2>2. OrderInHand'
    BY <1>0, <1>2, <2>1, HandLemma DEF StopStopsStream
  <2> QED BY <1>0, <1>2, <2>1, <2>2, GotoType
          DEF StopStopsStream, sessionVars, accountVars, stopVars, historyVars,
              SharedTypeOK, AccountTypeOK, WorkerTypeOK, FeedTypeOK
<1>3. ASSUME NEW symbols \in SUBSET Symbols, CancelRest(w, symbols),
             UNCHANGED <<sessionVars, order, sentAt, expected, toClose, feedVars, historyVars>>,
             AccountTypeOK', report' \in [Workers -> Reports]
      PROVE  TypeOK'
  <2>1. PICK label \in StopSteps : Goto(w, label)
    BY <1>3 DEF CancelRest, StopSteps
  <2>2. OrderInHand'
    BY <1>0, <1>3, <2>1, HandLemma
  <2>3. toCancel' \in [Workers -> SUBSET Symbols]
    BY <1>3 DEF CancelRest, WorkerTypeOK
  <2> QED BY <1>0, <1>3, <2>1, <2>2, <2>3, GotoType
          DEF sessionVars, feedVars, historyVars, SharedTypeOK, WorkerTypeOK, FeedTypeOK
<1>4. ASSUME NEW positions \in SUBSET (Symbols \X Int), CloseRest(w, positions),
             UNCHANGED <<sessionVars, order, sentAt, expected, toCancel, feedVars, historyVars>>,
             AccountTypeOK', report' \in [Workers -> Reports]
      PROVE  TypeOK'
  <2>1. PICK label \in StopSteps : Goto(w, label)
    BY <1>4 DEF CloseRest, StopSteps
  <2>2. OrderInHand'
    BY <1>0, <1>4, <2>1, HandLemma
  <2>3. toClose' \in [Workers -> SUBSET (Symbols \X Int)]
    BY <1>4 DEF CloseRest, WorkerTypeOK
  <2> QED BY <1>0, <1>4, <2>1, <2>2, <2>3, GotoType
          DEF sessionVars, feedVars, historyVars, SharedTypeOK, WorkerTypeOK, FeedTypeOK
<1>5. CASE ReadOpenOrders(w)
  <2>1. AccountTypeOK' /\ report' \in [Workers -> Reports]
    BY <1>5 DEF ReadOpenOrders, accountVars, AccountTypeOK, WorkerTypeOK
  <2> QED BY <1>3, <1>5, <2>1, WorkingSymbolsType DEF ReadOpenOrders
<1>6. CASE CancelSymbol(w)
  <2>1. PICK s \in toCancel[w] : CancelAll(s) /\ CancelRest(w, toCancel[w] \ {s})
    BY <1>6 DEF CancelSymbol
  <2>2. AccountTypeOK' /\ report' \in [Workers -> Reports]
    BY <1>6, <2>1, CancelAllType DEF CancelSymbol, WorkerTypeOK
  <2>3. toCancel[w] \ {s} \in SUBSET Symbols
    BY DEF WorkerTypeOK
  <2> QED BY <1>3, <1>6, <2>1, <2>2, <2>3 DEF CancelSymbol
<1>7. CASE CancelStepFails(w)
  <2>1. AccountTypeOK'
    BY <1>7, CancelAllType DEF CancelStepFails, accountVars, AccountTypeOK
  <2>2. report' \in [Workers -> Reports]
    BY <1>7 DEF CancelStepFails, WorkerTypeOK, Reports
  <2> QED BY <1>3, <1>7, <2>1, <2>2 DEF CancelStepFails
<1>8. CASE ReadPositions(w)
  <2>1. AccountTypeOK' /\ report' \in [Workers -> Reports]
    BY <1>8 DEF ReadPositions, accountVars, AccountTypeOK, WorkerTypeOK
  <2> QED BY <1>4, <1>8, <2>1, PositionsReadType DEF ReadPositions
<1>9. CASE ClosePosition(w)
  <2>1. PICK p \in toClose[w] :
          /\ ReduceAtMarket(p[1], ClosingSide(p[2]), Magnitude(p[2]))
          /\ CloseRest(w, toClose[w] \ {p})
    BY <1>9 DEF ClosePosition
  <2>2. p \in Symbols \X Int /\ toClose[w] \ {p} \in SUBSET (Symbols \X Int)
    BY DEF WorkerTypeOK
  <2>3. AccountTypeOK' /\ report' \in [Workers -> Reports]
    BY <1>9, <2>1, <2>2, ReduceType DEF ClosePosition, WorkerTypeOK
  <2> QED BY <1>4, <1>9, <2>1, <2>2, <2>3 DEF ClosePosition
<1>10. CASE CloseStepFails(w)
  <2>1. toClose[w] \in SUBSET (Symbols \X Int)
    BY DEF WorkerTypeOK
  <2>2. AccountTypeOK'
    BY <1>10, <2>1, ReduceType DEF CloseStepFails, accountVars, AccountTypeOK
  <2>3. report' \in [Workers -> Reports]
    BY <1>10 DEF CloseStepFails, WorkerTypeOK, Reports
  <2> QED BY <1>4, <1>10, <2>2, <2>3 DEF CloseStepFails
<1>11. CASE ReadFinal(w)
  <2>1. Goto(w, "stopped") /\ "stopped" \in StopSteps
    BY <1>11 DEF ReadFinal, StopSteps
  <2>2. OrderInHand'
    BY <1>0, <1>11, <2>1, HandLemma DEF ReadFinal
  <2>3. report' \in [Workers -> Reports]
    <3>1. PICK confirmed \in BOOLEAN :
            report' = [report EXCEPT ![w] =
                         [report[w] EXCEPT !.confirmed = confirmed,
                            !.positions = IF confirmed THEN OpenSymbols ELSE {}]]
      BY <1>11 DEF ReadFinal
    <3>2. OpenSymbols \in SUBSET Symbols /\ report[w] \in Reports
      BY DEF OpenSymbols, WorkerTypeOK
    <3>3. [report[w] EXCEPT !.confirmed = confirmed,
             !.positions = IF confirmed THEN OpenSymbols ELSE {}] \in Reports
      BY <3>2 DEF Reports
    <3> QED BY <3>1, <3>3 DEF WorkerTypeOK
  <2> QED BY <1>0, <1>11, <2>1, <2>2, <2>3, GotoType
          DEF ReadFinal, sessionVars, accountVars, feedVars, historyVars,
              SharedTypeOK, AccountTypeOK, WorkerTypeOK, FeedTypeOK
<1>12. CASE StopReturns(w)
  BY <1>12, ReturnType, HandLemma
     DEF StopReturns, sessionVars, accountVars, feedVars,
         SharedTypeOK, AccountTypeOK, FeedTypeOK
<1> QED BY <1>1, <1>2, <1>5, <1>6, <1>7, <1>8, <1>9, <1>10, <1>11, <1>12
        DEF EmergencyStop

(* Every step of the account feed preserves the types.                     *)
LEMMA AccountFeedTypes ==
  ASSUME TypeOK, AccountFeed
  PROVE  TypeOK'
<1> USE DEF TypeOK
<1>1. ASSUME UNCHANGED <<accountVars, workerVars, before, mark>>
      PROVE  AccountTypeOK' /\ WorkerTypeOK' /\ OrderInHand'
  BY <1>1 DEF accountVars, workerVars, stopVars, AccountTypeOK, WorkerTypeOK, OrderInHand
<1>2. CASE (\E s \in UpdatedSymbols : Notice(s)) \/ HearPosition \/ HearNothing
  <2>1. SharedTypeOK'
    BY <1>2 DEF Notice, HearPosition, HearNothing, SharedTypeOK, sessionVars, historyVars
  <2>2. FeedTypeOK'
    BY <1>2, NamesAssumption DEF Notice, HearPosition, HearNothing, FeedTypeOK
  <2> QED BY <1>1, <1>2, <2>1, <2>2 DEF Notice, HearPosition, HearNothing, historyVars
<1>3. CASE Reconcile
  <2>1. noticed \in Symbols
    BY <1>3 DEF Reconcile, FeedTypeOK
  <2>2. session' \in Sessions
    BY <1>3, <2>1, SessionMethodTypes DEF Reconcile, SharedTypeOK
  <2>3. Len(ledger) \in Nat
    BY LenProperties DEF AccountTypeOK
  <2>4. flatSince' \in [Symbols -> Nat]
    BY <1>3, <2>3 DEF Reconcile, SharedTypeOK
  <2> QED BY <1>1, <1>3, <2>2, <2>4 DEF Reconcile, SharedTypeOK, FeedTypeOK
<1> QED BY <1>2, <1>3 DEF AccountFeed

(* What the exchange does on its own preserves the types.                  *)
LEMMA ExchangeMovesTypes ==
  ASSUME TypeOK, ExchangeMoves
  PROVE  TypeOK'
<1>1. AccountTypeOK'
  <2>1. ASSUME NEW s \in Symbols, CloseElsewhere(s) PROVE AccountTypeOK'
    BY <2>1 DEF CloseElsewhere, TypeOK, AccountTypeOK
  <2> QED BY <2>1, FillOrderType DEF ExchangeMoves, TypeOK
<1> QED BY <1>1
    DEF ExchangeMoves, TypeOK, sessionVars, workerVars, stopVars, feedVars, historyVars,
        SharedTypeOK, WorkerTypeOK, FeedTypeOK, OrderInHand

(* Time passing preserves the types.                                       *)
LEMMA TickTypes ==
  ASSUME TypeOK, Tick
  PROVE  TypeOK'
  BY DEF Tick, TypeOK, accountVars, workerVars, stopVars, feedVars, historyVars,
         SharedTypeOK, AccountTypeOK, WorkerTypeOK, FeedTypeOK, OrderInHand

(* The program starts with its types right.                                *)
LEMMA InitTypes == Init => TypeOK
<1> SUFFICES ASSUME Init PROVE TypeOK
  OBVIOUS
<1>1. SharedTypeOK
  BY NewSessionType DEF Init, SharedTypeOK
<1>2. AccountTypeOK
  BY DEF Init, AccountTypeOK
<1>3. WorkerTypeOK
  BY DEF Init, WorkerTypeOK, Steps, Reports, NoReport
<1>4. FeedTypeOK /\ OrderInHand
  BY DEF Init, FeedTypeOK, OrderInHand, GuardSteps
<1> QED BY <1>1, <1>2, <1>3, <1>4 DEF TypeOK

(* Every step, of whichever actor, preserves the types.                    *)
LEMMA StepTypes == TypeOK /\ [Next]_vars => TypeOK'
<1> SUFFICES ASSUME TypeOK, [Next]_vars PROVE TypeOK'
  OBVIOUS
<1>1. CASE \E w \in Workers : Handler(w)
  BY <1>1, ExecuteOrderTypes, CancelTypes, EnableTradingTypes, DisableTradingTypes,
     EmergencyStopTypes DEF Handler
<1>2. CASE UNCHANGED vars
  BY <1>2 DEF vars, sessionVars, accountVars, workerVars, stopVars, feedVars, historyVars,
              TypeOK, SharedTypeOK, AccountTypeOK, WorkerTypeOK, FeedTypeOK, OrderInHand
<1> QED BY <1>1, <1>2, AccountFeedTypes, ExchangeMovesTypes, TickTypes DEF Next

(* However the handlers, the account feed and the exchange interleave, the *)
(* session, the account and every handler's locals stay well formed.       *)
THEOREM TypeCorrect == Spec => []TypeOK
  BY InitTypes, StepTypes, PTL DEF Spec


-----------------------------------------------------------------------------
(* Turning trading off is final for what came before it: an enable that    *)
(* was under way does not undo it, and a worker slips at most one order    *)
(* past it.                                                                *)

(* The generation an enable expects is still the session's only if nothing *)
(* has turned trading off since.                                           *)
EnableInv ==
  \A w \in Workers :
    pc[w] \in {"reconciling", "flatRead"} =>
      /\ expected[w] <= session.generation
      /\ expected[w] = session.generation => before[w] = disables

(* The orders a worker slipped past a disable() are older than its present *)
(* command, whose gate saw trading on.                                     *)
LateInv ==
  /\ \A w \in Workers :
       pc[w] \in {"gated", "placing"} =>
         /\ before[w] <= disables
         /\ ~session.enabled => before[w] < disables
         /\ \A i \in DOMAIN ledger : ledger[i].by = w => ledger[i].late <= before[w]
  /\ \A i \in DOMAIN ledger : ledger[i].late <= disables

SwitchInv == EnableInv /\ LateInv /\ OneLateOrderPerStop

-----------------------------------------------------------------------------
(* The types the proofs below need. *)
LEMMA SwitchTypes ==
  ASSUME TypeOK
  PROVE  /\ session.generation \in Nat /\ session.enabled \in BOOLEAN /\ disables \in Nat
         /\ \A w \in Workers : expected[w] \in Nat /\ before[w] \in Nat
         /\ Len(ledger) \in Nat /\ DOMAIN ledger = 1 .. Len(ledger)
         /\ \A i \in DOMAIN ledger : ledger[i] \in Entries /\ ledger[i].late \in Nat
         /\ pc \in [Workers -> Steps]
<1>1. Len(ledger) \in Nat /\ DOMAIN ledger = 1 .. Len(ledger)
  BY LenProperties DEF TypeOK, AccountTypeOK
<1>2. \A i \in DOMAIN ledger : ledger[i] \in Entries
  BY <1>1, ElementOfSeq DEF TypeOK, AccountTypeOK
<1>3. \A i \in DOMAIN ledger : ledger[i].late \in Nat
  BY <1>2 DEF Entries
<1> QED BY <1>1, <1>2, <1>3 DEF TypeOK, SharedTypeOK, WorkerTypeOK, Sessions

(* A step under which the invariant cannot break: it turns nothing off,    *)
(* accepts no order and starts no command that an enable or a late order   *)
(* is measured against.                                                    *)
SameEntries ==
  /\ DOMAIN ledger' = DOMAIN ledger
  /\ \A i \in DOMAIN ledger : ledger'[i].by = ledger[i].by /\ ledger'[i].late = ledger[i].late

Follows(w) ==
  \/ pc'[w] \notin {"reconciling", "flatRead", "gated", "placing"}
  \/ /\ before'[w] = before[w] /\ expected'[w] = expected[w]
     /\ pc'[w] \in {"reconciling", "flatRead"} => pc[w] \in {"reconciling", "flatRead"}
     /\ pc'[w] \in {"gated", "placing"} => pc[w] \in {"gated", "placing"}

NothingTurnedOff ==
  /\ session'.generation \in Nat /\ session.generation <= session'.generation
  /\ session'.enabled \in {session.enabled, TRUE}
  /\ disables' = disables

(* Such a step preserves the invariant.                                    *)
LEMMA CalmStep ==
  ASSUME TypeOK, SwitchInv, SameEntries, NothingTurnedOff, \A w \in Workers : Follows(w)
  PROVE  SwitchInv'
<1>1. EnableInv'
  BY SwitchTypes DEF SwitchInv, EnableInv, NothingTurnedOff, Follows
<1>2. LateInv'
  BY SwitchTypes DEF SwitchInv, LateInv, SameEntries, NothingTurnedOff, Follows
<1>3. OneLateOrderPerStop'
  BY DEF SwitchInv, OneLateOrderPerStop, SameEntries
<1> QED BY <1>1, <1>2, <1>3 DEF SwitchInv

(* disable(), by DisableTrading or by EmergencyStop. *)
LEMMA TurnedOffPreserves ==
  ASSUME TypeOK, SwitchInv, NEW w \in Workers, BeginDisable(w) \/ BeginStop(w)
  PROVE  SwitchInv'
<1>1. /\ session'.generation = session.generation + 1
      /\ disables' = disables + 1
      /\ UNCHANGED <<ledger, expected, before>>
  BY DEF BeginDisable, BeginStop, AfterDisable, TypeOK, SharedTypeOK, Sessions, accountVars
<1>2. \A v \in Workers :
         pc'[v] \in {"reconciling", "flatRead", "gated", "placing"} => pc'[v] = pc[v]
  BY SwitchTypes DEF BeginDisable, BeginStop, Goto
<1>3. EnableInv'
  BY <1>1, <1>2, SwitchTypes DEF SwitchInv, EnableInv
<1>4. LateInv'
  <2>1. ASSUME NEW v \in Workers, pc'[v] \in {"gated", "placing"}
        PROVE  /\ before[v] <= disables + 1 /\ before[v] < disables + 1
               /\ \A i \in DOMAIN ledger : ledger[i].by = v => ledger[i].late <= before[v]
    BY <1>2, <2>1, SwitchTypes DEF SwitchInv, LateInv
  <2>2. \A i \in DOMAIN ledger : ledger[i].late <= disables + 1
    BY SwitchTypes DEF SwitchInv, LateInv
  <2> QED BY <1>1, <2>1, <2>2 DEF LateInv
<1>5. OneLateOrderPerStop'
  BY <1>1 DEF SwitchInv, OneLateOrderPerStop
<1> QED BY <1>3, <1>4, <1>5 DEF SwitchInv

(* The gate lets a command in only while trading is on.                    *)
LEMMA BeginExecuteCalm ==
  ASSUME TypeOK, SwitchInv, NEW w \in Workers, BeginExecute(w)
  PROVE  SwitchInv'
<1>1. /\ pc' = [pc EXCEPT ![w] = "gated"] /\ before' = [before EXCEPT ![w] = disables]
      /\ session.enabled /\ UNCHANGED <<session, ledger, expected, disables>>
  BY DEF BeginExecute, Goto, sessionVars, accountVars
<1>2. before \in [Workers -> Nat] /\ pc \in [Workers -> Steps]
  BY DEF TypeOK, WorkerTypeOK
<1>3. EnableInv' /\ OneLateOrderPerStop'
  BY <1>1, <1>2 DEF SwitchInv, EnableInv, OneLateOrderPerStop
<1>4. LateInv'
  <2>1. ASSUME NEW v \in Workers, pc'[v] \in {"gated", "placing"}
        PROVE  /\ before'[v] <= disables
               /\ ~session.enabled => before'[v] < disables
               /\ \A i \in DOMAIN ledger : ledger[i].by = v => ledger[i].late <= before'[v]
    <3>1. CASE v = w
      BY <1>1, <1>2, <3>1, SwitchTypes DEF SwitchInv, LateInv
    <3>2. CASE v # w
      BY <1>1, <1>2, <2>1, <3>2 DEF SwitchInv, LateInv
    <3> QED BY <3>1, <3>2
  <2> QED BY <1>1, <2>1 DEF SwitchInv, LateInv
<1> QED BY <1>3, <1>4 DEF SwitchInv

(* An enable starts from the present generation.                           *)
LEMMA BeginEnableCalm ==
  ASSUME TypeOK, SwitchInv, NEW w \in Workers, BeginEnable(w)
  PROVE  SwitchInv'
<1>1. /\ pc' = [pc EXCEPT ![w] = "reconciling"]
      /\ before' = [before EXCEPT ![w] = disables]
      /\ expected' = [expected EXCEPT ![w] = session.generation]
      /\ UNCHANGED <<session, ledger, disables>>
  BY DEF BeginEnable, Goto, sessionVars, accountVars
<1>2. /\ before \in [Workers -> Nat] /\ expected \in [Workers -> Nat]
      /\ pc \in [Workers -> Steps]
  BY DEF TypeOK, WorkerTypeOK
<1>3. EnableInv'
  BY <1>1, <1>2, SwitchTypes DEF SwitchInv, EnableInv
<1>4. LateInv' /\ OneLateOrderPerStop'
  BY <1>1, <1>2 DEF SwitchInv, LateInv, OneLateOrderPerStop
<1> QED BY <1>3, <1>4 DEF SwitchInv

(* The exchange accepts the order of w: if trading is off by now, something *)
(* turned it off since w's command passed the gate.                        *)
LEMMA AcceptCalm ==
  ASSUME TypeOK, SwitchInv, NEW w \in Workers, OrderAccepted(w) \/ AnswerLost(w)
  PROVE  SwitchInv'
<1>n. PICK n \in Nat : n = Len(ledger) + 1
  BY SwitchTypes
<1>1. PICK status \in OrderStates, lost \in BOOLEAN : Accept(Entry(w, status, lost))
  BY DEF OrderAccepted, AnswerLost, OrderStates
<1>2. /\ ledger' = Append(ledger, Entry(w, status, lost))
      /\ ledger \in Seq(Entries) /\ pc[w] = "placing"
      /\ UNCHANGED <<session, disables>>
  BY <1>1 DEF Accept, TypeOK, AccountTypeOK, OrderAccepted, AnswerLost, sessionVars, historyVars
<1>3. /\ DOMAIN ledger' = DOMAIN ledger \cup {n} /\ n \notin DOMAIN ledger
      /\ \A i \in DOMAIN ledger : ledger'[i] = ledger[i]
      /\ ledger'[n] = Entry(w, status, lost)
  <2>1. /\ Len(ledger') = n /\ DOMAIN ledger' = 1 .. n
        /\ \A i \in 1 .. Len(ledger) : ledger'[i] = ledger[i]
        /\ ledger'[n] = Entry(w, status, lost)
    BY <1>n, <1>2, LenProperties
  <2> QED BY <1>n, <2>1, SwitchTypes
<1>4. /\ ledger'[n].by = w
      /\ ledger'[n].late = IF session.enabled THEN 0 ELSE disables
  BY <1>3 DEF Entry
<1>5. \A v \in Workers : Follows(v) /\ (v = w => pc'[v] \notin {"gated", "placing"})
  BY <1>2, SwitchTypes
     DEF OrderAccepted, AnswerLost, Goto, Return, Follows, TypeOK, WorkerTypeOK, historyVars
<1>6. EnableInv'
  BY <1>2, <1>5 DEF SwitchInv, EnableInv, Follows
<1>7. LateInv'
  BY <1>2, <1>3, <1>4, <1>5, SwitchTypes DEF SwitchInv, LateInv, Follows
<1>8. OneLateOrderPerStop'
  <2>1. ASSUME NEW i \in DOMAIN ledger, ledger[i].by = w, ledger[i].late = ledger'[n].late
        PROVE  ledger[i].late = 0
    BY <1>2, <1>4, <2>1, SwitchTypes DEF SwitchInv, LateInv
  <2> QED BY <1>3, <1>4, <2>1 DEF SwitchInv, OneLateOrderPerStop
<1> QED BY <1>6, <1>7, <1>8 DEF SwitchInv

(* Orders keep their worker and their lateness as they fill or are cancelled. *)
LEMMA AccountMovesKeepEntries ==
  ASSUME TypeOK,
         \/ UNCHANGED ledger
         \/ \E i \in DOMAIN ledger : FillOrder(i) \/ CancelOne(i)
         \/ \E s : CancelAll(s)
  PROVE  SameEntries
<1>1. \A i \in DOMAIN ledger : \A status :
         /\ [ledger[i] EXCEPT !.status = status].by = ledger[i].by
         /\ [ledger[i] EXCEPT !.status = status].late = ledger[i].late
  BY SwitchTypes DEF Entries
<1>2. CASE \E i \in DOMAIN ledger : FillOrder(i) \/ CancelOne(i)
  <2>1. \E i \in DOMAIN ledger : \E status :
           ledger' = [ledger EXCEPT ![i] = [ledger[i] EXCEPT !.status = status]]
    BY <1>2 DEF FillOrder, CancelOne
  <2> QED BY <1>1, <2>1 DEF SameEntries
<1>3. CASE \E s : CancelAll(s)
  <2>1. /\ DOMAIN ledger' = DOMAIN ledger
        /\ \A i \in DOMAIN ledger :
             ledger'[i] \in {ledger[i], [ledger[i] EXCEPT !.status = "cancelled"]}
    BY <1>3 DEF CancelAll
  <2>2. \A i \in DOMAIN ledger :
          /\ [ledger[i] EXCEPT !.status = "cancelled"].by = ledger[i].by
          /\ [ledger[i] EXCEPT !.status = "cancelled"].late = ledger[i].late
    BY <1>1
  <2> QED BY <2>1, <2>2 DEF SameEntries
<1>4. CASE UNCHANGED ledger
  BY <1>4 DEF SameEntries
<1> QED BY <1>2, <1>3, <1>4

(* A worker that returns is measured against nothing any more.             *)
LEMMA ReturnFollows ==
  ASSUME TypeOK, NEW w \in Workers, Return(w)
  PROVE  \A v \in Workers : Follows(v)
  BY DEF Return, Follows, TypeOK, WorkerTypeOK

(* A worker that goes on within its command keeps what it is measured by.  *)
LEMMA GotoFollows ==
  ASSUME TypeOK, NEW w \in Workers, NEW label, Goto(w, label), UNCHANGED <<before, expected>>,
         \/ label \notin {"reconciling", "flatRead", "gated", "placing"}
         \/ label = "flatRead" /\ pc[w] = "reconciling"
         \/ label = "placing" /\ pc[w] = "gated"
  PROVE  \A v \in Workers : Follows(v)
  BY DEF Goto, Follows, TypeOK, WorkerTypeOK

(* A step that leaves the session alone turns nothing off.                 *)
LEMMA SameSwitch ==
  ASSUME TypeOK, UNCHANGED <<session, disables>>
  PROVE  NothingTurnedOff
  BY SwitchTypes DEF NothingTurnedOff

(* Every step of ExecuteOrder preserves the invariant.                     *)
LEMMA ExecuteOrderSwitch ==
  ASSUME TypeOK, SwitchInv, NEW w \in Workers, ExecuteOrder(w)
  PROVE  SwitchInv'
<1> USE DEF sessionVars, accountVars, stopVars, historyVars
<1>1. CASE ExecuteNotReady(w) \/ PublishBlocked(w) \/ OrderRejected(w)
  BY <1>1, ReturnFollows, SameSwitch, AccountMovesKeepEntries, CalmStep
     DEF ExecuteNotReady, PublishBlocked, OrderRejected
<1>2. CASE RefuseOrder(w) \/ PassLimits(w)
  BY <1>2, GotoFollows, SameSwitch, AccountMovesKeepEntries, CalmStep DEF RefuseOrder, PassLimits
<1>3. CASE RecordOrder(w)
  <2>1. NothingTurnedOff
    BY <1>3, SwitchTypes
       DEF RecordOrder, AfterOrderSent, NothingTurnedOff, TypeOK, SharedTypeOK, Sessions
  <2> QED BY <1>3, <2>1, ReturnFollows, AccountMovesKeepEntries, CalmStep DEF RecordOrder
<1> QED BY <1>1, <1>2, <1>3, BeginExecuteCalm, AcceptCalm DEF ExecuteOrder

(* Every step of CancelOrder preserves the invariant.                      *)
LEMMA CancelSwitch ==
  ASSUME TypeOK, SwitchInv, NEW w \in Workers, Cancel(w)
  PROVE  SwitchInv'
<1> USE DEF sessionVars, accountVars, stopVars, historyVars
<1>1. CASE BeginCancel(w)
  BY <1>1, GotoFollows, SameSwitch, AccountMovesKeepEntries, CalmStep DEF BeginCancel
<1>2. CASE CancelOrder(w) \/ CancelFails(w)
  <2>1. SameEntries
    BY <1>2, AccountMovesKeepEntries DEF CancelOrder, CancelFails
  <2> QED BY <1>2, <2>1, ReturnFollows, SameSwitch, CalmStep DEF CancelOrder, CancelFails
<1> QED BY <1>1, <1>2 DEF Cancel

(* Every step of EnableTrading preserves the invariant.                    *)
LEMMA EnableTradingSwitch ==
  ASSUME TypeOK, SwitchInv, NEW w \in Workers, EnableTrading(w)
  PROVE  SwitchInv'
<1> USE DEF sessionVars, accountVars, stopVars, historyVars
<1>1. CASE ReadFlat(w)
  BY <1>1, GotoFollows, SameSwitch, AccountMovesKeepEntries, CalmStep DEF ReadFlat
<1>2. CASE EnableRefused(w) \/ EnableSuperseded(w) \/ StartStream(w)
  BY <1>2, ReturnFollows, SameSwitch, AccountMovesKeepEntries, CalmStep
     DEF EnableRefused, EnableSuperseded, StartStream
<1>3. CASE ApplyEnable(w)
  <2>1. NothingTurnedOff
    BY <1>3, SwitchTypes
       DEF ApplyEnable, AfterEnable, NothingTurnedOff, TypeOK, SharedTypeOK, Sessions
  <2> QED BY <1>3, <2>1, GotoFollows, AccountMovesKeepEntries, CalmStep DEF ApplyEnable
<1> QED BY <1>1, <1>2, <1>3, BeginEnableCalm DEF EnableTrading

(* Every step of EmergencyStop preserves the invariant.                    *)
LEMMA EmergencyStopSwitch ==
  ASSUME TypeOK, SwitchInv, NEW w \in Workers, EmergencyStop(w)
  PROVE  SwitchInv'
<1> USE DEF sessionVars, accountVars, stopVars, historyVars
<1>1. CASE StopReturns(w)
  BY <1>1, ReturnFollows, SameSwitch, AccountMovesKeepEntries, CalmStep DEF StopReturns
<1>2. CASE \/ StopStopsStream(w)
           \/ ReadOpenOrders(w) \/ CancelSymbol(w) \/ CancelStepFails(w)
           \/ ReadPositions(w) \/ ClosePosition(w) \/ CloseStepFails(w) \/ ReadFinal(w)
  <2>1. /\ UNCHANGED <<session, disables, before, expected>>
        /\ \E label \in StopSteps : Goto(w, label)
    BY <1>2 DEF StopStopsStream, ReadOpenOrders, CancelSymbol, CancelStepFails,
                ReadPositions, ClosePosition, CloseStepFails, ReadFinal,
                CancelRest, CloseRest, StopSteps
  <2>2. \A v \in Workers : Follows(v)
    BY <2>1, GotoFollows DEF StopSteps
  <2>3. SameEntries
    <3>1. CASE CancelSymbol(w) \/ CancelStepFails(w)
      BY <3>1, AccountMovesKeepEntries DEF CancelSymbol, CancelStepFails
    <3>2. CASE ~(CancelSymbol(w) \/ CancelStepFails(w))
      <4>1. UNCHANGED ledger
        BY <1>2, <3>2 DEF StopStopsStream, ReadOpenOrders, ReadPositions,
                          ClosePosition, CloseStepFails, ReadFinal, ReduceAtMarket
      <4> QED BY <4>1, AccountMovesKeepEntries
    <3> QED BY <3>1, <3>2
  <2> QED BY <2>1, <2>2, <2>3, SameSwitch, CalmStep
<1> QED BY <1>1, <1>2, TurnedOffPreserves DEF EmergencyStop

(* The account feed, the exchange and time preserve the invariant.         *)
LEMMA EnvironmentSwitch ==
  ASSUME TypeOK, SwitchInv, AccountFeed \/ ExchangeMoves \/ Tick
  PROVE  SwitchInv'
<1> USE DEF sessionVars, accountVars, workerVars, historyVars
<1>1. \A w \in Workers : Follows(w)
  BY DEF AccountFeed, Notice, HearPosition, HearNothing, Reconcile, ExchangeMoves, Tick, Follows
<1>2. SameEntries
  BY AccountMovesKeepEntries
     DEF AccountFeed, Notice, HearPosition, HearNothing, Reconcile, ExchangeMoves,
         CloseElsewhere, Tick
<1>3. NothingTurnedOff
  <2>1. CASE Reconcile
    BY <2>1, SwitchTypes
       DEF Reconcile, AfterReconcile, NothingTurnedOff, TypeOK, SharedTypeOK, Sessions
  <2>2. CASE ~Reconcile
    BY <2>2, SameSwitch
       DEF AccountFeed, Notice, HearPosition, HearNothing, ExchangeMoves, Tick
  <2> QED BY <2>1, <2>2
<1> QED BY <1>1, <1>2, <1>3, CalmStep

(* Nothing has been turned off or accepted at the start.                   *)
LEMMA InitSwitch == Init => SwitchInv
<1> SUFFICES ASSUME Init PROVE SwitchInv
  OBVIOUS
<1>1. /\ \A w \in Workers : pc[w] = "idle"
      /\ ledger = << >> /\ DOMAIN ledger = {}
  BY DEF Init
<1> QED BY <1>1 DEF SwitchInv, EnableInv, LateInv, OneLateOrderPerStop

(* Every step, of whichever actor, preserves the invariant.                *)
LEMMA StepSwitch == TypeOK /\ SwitchInv /\ [Next]_vars => SwitchInv'
<1> SUFFICES ASSUME TypeOK, SwitchInv, [Next]_vars PROVE SwitchInv'
  OBVIOUS
<1>1. ASSUME NEW w \in Workers, DisableTrading(w) PROVE SwitchInv'
  <2>1. CASE StopStream(w)
    BY <2>1, ReturnFollows, SameSwitch, AccountMovesKeepEntries, CalmStep
       DEF StopStream, sessionVars, accountVars
  <2> QED BY <1>1, <2>1, TurnedOffPreserves DEF DisableTrading
<1>2. CASE UNCHANGED vars
  BY <1>2, SameSwitch, AccountMovesKeepEntries, CalmStep
     DEF vars, sessionVars, accountVars, workerVars, historyVars, Follows
<1> QED BY <1>1, <1>2, ExecuteOrderSwitch, CancelSwitch, EnableTradingSwitch,
           EmergencyStopSwitch, EnvironmentSwitch DEF Next, Handler

(* The inductive invariant of the trading switch holds: an enable whose    *)
(* generation is current has seen no disable() since it began.             *)
THEOREM SwitchInvariant == Spec => [](TypeOK /\ SwitchInv)
  BY TypeCorrect, InitSwitch, StepSwitch, PTL DEF Spec

-----------------------------------------------------------------------------
(* An enable whose reconciliation overlapped a disable() or an emergency   *)
(* stop does not turn trading on, for any number of workers.               *)
THEOREM EnableNeverCrossesStop == Spec => NoEnableAcrossStop
<1>1. ASSUME TypeOK, SwitchInv, [Next]_vars, NEW w \in Workers,
             pc[w] = "flatRead", pc'[w] = "starting"
      PROVE  before[w] = disables
  <2>1. ApplyEnable(w)
    <3>1. pc \in [Workers -> Steps]
      BY <1>1, SwitchTypes
    <3>2. ASSUME NEW v \in Workers, v # w, Handler(v) PROVE pc'[w] = pc[w]
      BY <3>1, <3>2
         DEF Handler, ExecuteOrder, BeginExecute, ExecuteNotReady, RefuseOrder, PublishBlocked,
             PassLimits, OrderAccepted, AnswerLost, OrderRejected, RecordOrder,
             Cancel, BeginCancel, CancelOrder, CancelFails,
             EnableTrading, BeginEnable, ReadFlat, EnableRefused, ApplyEnable, EnableSuperseded,
             StartStream, DisableTrading, BeginDisable, StopStream,
             EmergencyStop, BeginStop, StopStopsStream, ReadOpenOrders, CancelSymbol,
             CancelStepFails, ReadPositions, ClosePosition, CloseStepFails, ReadFinal,
             StopReturns, CancelRest, CloseRest, Goto, Return
    <3>3. ASSUME Handler(w) PROVE ApplyEnable(w)
      BY <1>1, <3>1, <3>3
         DEF Handler, ExecuteOrder, BeginExecute, Begins, ExecuteNotReady, RefuseOrder,
             PublishBlocked, PassLimits, OrderAccepted, AnswerLost, OrderRejected, RecordOrder,
             Cancel, BeginCancel, CancelOrder, CancelFails,
             EnableTrading, BeginEnable, ReadFlat, EnableRefused, EnableSuperseded,
             StartStream, DisableTrading, BeginDisable, StopStream,
             EmergencyStop, BeginStop, StopStopsStream, ReadOpenOrders, CancelSymbol,
             CancelStepFails, ReadPositions, ClosePosition, CloseStepFails, ReadFinal,
             StopReturns, Return
    <3>4. (AccountFeed \/ ExchangeMoves \/ Tick \/ UNCHANGED vars) => pc' = pc
      BY DEF AccountFeed, Notice, HearPosition, HearNothing, Reconcile, ExchangeMoves, Tick,
             vars, workerVars
    <3> QED BY <1>1, <3>2, <3>3, <3>4 DEF Next
  <2> QED BY <1>1, <2>1 DEF ApplyEnable, Superseded, EnableApplies, SwitchInv, EnableInv
<1>2. TypeOK /\ SwitchInv /\ [Next]_vars =>
        [\A w \in Workers :
           pc[w] = "flatRead" /\ pc'[w] = "starting" => before[w] = disables]_vars
  BY <1>1
<1> QED BY <1>2, SwitchInvariant, PTL DEF Spec, NoEnableAcrossStop

(* Each worker slips at most one order past a disable(), because only a    *)
(* command whose gate saw trading on goes on to place its order.           *)
THEOREM OneLateOrderPerStopHolds == Spec => []OneLateOrderPerStop
<1>1. SwitchInv => OneLateOrderPerStop
  BY DEF SwitchInv
<1> QED BY <1>1, SwitchInvariant, PTL

-----------------------------------------------------------------------------
(* What an emergency stop reports.                                         *)

(* An amount that is left of another: closer to zero, on the same side.    *)
Shrunk(amount, from) ==
  amount = 0 \/ (0 < amount /\ amount <= from) \/ (from <= amount /\ amount < 0)

CancelDone == {"readPositions", "closing", "readFinal", "stopped"}

(* A stop that has failed in nothing, with no order accepted since it      *)
(* began, has in its lists all that is still to do: the orders of the      *)
(* symbols it has not cancelled yet, and then, with no order left that     *)
(* could fill, at least as much as is open of the positions it read.       *)
StopTidies(w) ==
  pc[w] \in StopSteps /\ FullySucceeded(w) /\ mark[w] = Len(ledger) =>
    /\ pc[w] = "cancelling" => WorkingSymbols \subseteq toCancel[w]
    /\ pc[w] \in CancelDone => WorkingSymbols = {}
    /\ pc[w] = "closing" =>
         /\ OpenSymbols \subseteq {p[1] : p \in toClose[w]}
         /\ \A p \in toClose[w] : Shrunk(position[p[1]], p[2])
    /\ pc[w] \in {"readFinal", "stopped"} => OpenSymbols = {}

StopInv == \A w \in Workers : mark[w] <= Len(ledger) /\ StopTidies(w)

(* A move of the account that accepts no order: nothing starts to rest in  *)
(* the book, and unless something rested there, nothing is opened.         *)
AccountShrinks ==
  /\ Len(ledger') = Len(ledger)
  /\ WorkingSymbols' \subseteq WorkingSymbols
  /\ WorkingSymbols = {} => \A s \in Symbols : Shrunk(position'[s], position[s])

(* What is left of what is left is left of the whole.                      *)
LEMMA ShrunkTransitive ==
  ASSUME NEW a \in Int, NEW b \in Int, NEW c \in Int, Shrunk(a, b), Shrunk(b, c)
  PROVE  Shrunk(a, c)
BY DEF Shrunk

LEMMA StandingStill ==
  ASSUME AccountTypeOK, UNCHANGED accountVars
  PROVE  AccountShrinks
<1>1. \A s \in Symbols : position[s] \in Int
  BY DEF AccountTypeOK
<1> QED BY <1>1 DEF AccountShrinks, accountVars, WorkingSymbols, Shrunk

(* A new ledger in which entries only leave the book.                      *)
LEMMA EntriesLeaveBook ==
  ASSUME DOMAIN ledger' = DOMAIN ledger,
         \A i \in DOMAIN ledger :
           ledger'[i].status = "working" =>
             ledger[i].status = "working" /\ ledger'[i].symbol = ledger[i].symbol
  PROVE  WorkingSymbols' \subseteq WorkingSymbols
BY DEF WorkingSymbols

(* The length of a ledger with one entry changed.                          *)
LEMMA SameLength ==
  ASSUME AccountTypeOK, AccountTypeOK', DOMAIN ledger' = DOMAIN ledger
  PROVE  Len(ledger') = Len(ledger)
<1>1. /\ Len(ledger) \in Nat /\ DOMAIN ledger = 1 .. Len(ledger)
      /\ Len(ledger') \in Nat /\ DOMAIN ledger' = 1 .. Len(ledger')
  BY LenProperties DEF AccountTypeOK
<1> QED BY <1>1

(* cancel_all_orders(symbol) takes the symbol out of the book.             *)
LEMMA CancelAllShrinks ==
  ASSUME AccountTypeOK, NEW s, CancelAll(s)
  PROVE  AccountShrinks /\ WorkingSymbols' \subseteq WorkingSymbols \ {s}
<1>1. /\ DOMAIN ledger' = DOMAIN ledger
      /\ \A i \in DOMAIN ledger :
           ledger'[i] = IF ledger[i].symbol = s /\ ledger[i].status = "working"
                        THEN [ledger[i] EXCEPT !.status = "cancelled"] ELSE ledger[i]
      /\ position' = position
  BY DEF CancelAll
<1>2. \A i \in DOMAIN ledger : ledger[i] \in Entries
  BY ElementOfSeq, LenProperties DEF AccountTypeOK
<1>3. \A i \in DOMAIN ledger : [ledger[i] EXCEPT !.status = "cancelled"].status = "cancelled"
  BY <1>2 DEF Entries
<1>4. \A i \in DOMAIN ledger :
        ledger'[i].status = "working" =>
          ledger'[i] = ledger[i] /\ ledger[i].symbol # s
  BY <1>1, <1>3
<1>5. WorkingSymbols' \subseteq WorkingSymbols
  BY <1>1, <1>4, EntriesLeaveBook
<1>6. s \notin WorkingSymbols'
  BY <1>1, <1>4 DEF WorkingSymbols
<1>7. Len(ledger') = Len(ledger)
  BY <1>1, CancelAllType, SameLength
<1>8. \A t \in Symbols : Shrunk(position'[t], position[t])
  BY <1>1 DEF Shrunk, AccountTypeOK
<1> QED BY <1>5, <1>6, <1>7, <1>8 DEF AccountShrinks

LEMMA CancelOneShrinks ==
  ASSUME AccountTypeOK, NEW i \in DOMAIN ledger, CancelOne(i)
  PROVE  AccountShrinks
<1> DEFINE status == IF ledger[i].status = "working" THEN "cancelled" ELSE ledger[i].status
<1>1. ledger' = [ledger EXCEPT ![i] = [ledger[i] EXCEPT !.status = status]]
  BY DEF CancelOne
<1>2. ledger[i] \in Entries
  BY ElementOfSeq, LenProperties DEF AccountTypeOK
<1>3. [ledger[i] EXCEPT !.status = status].status = status
  BY <1>2 DEF Entries
<1>4. /\ DOMAIN ledger' = DOMAIN ledger
      /\ ledger'[i] = [ledger[i] EXCEPT !.status = status]
      /\ \A j \in DOMAIN ledger : j # i => ledger'[j] = ledger[j]
      /\ status # "working"
  BY <1>1
<1>5. WorkingSymbols' \subseteq WorkingSymbols
  <2>1. ledger'[i].status # "working"
    BY <1>3, <1>4
  <2> QED BY <1>4, <2>1, EntriesLeaveBook
<1>6. Len(ledger') = Len(ledger)
  BY <1>4, CancelOneType, SameLength
<1>7. \A t \in Symbols : Shrunk(position'[t], position[t])
  BY DEF CancelOne, Shrunk, AccountTypeOK
<1> QED BY <1>5, <1>6, <1>7 DEF AccountShrinks

(* An order that fills was in the book.                                    *)
LEMMA FillOrderShrinks ==
  ASSUME AccountTypeOK, NEW i, FillOrder(i)
  PROVE  AccountShrinks
<1>1. i \in DOMAIN ledger /\ ledger[i].status = "working" /\ ledger[i] \in Entries
  BY ElementOfSeq, LenProperties DEF AccountTypeOK, FillOrder
<1>2. PICK status \in {"filled", "cancelled"} :
        ledger' = [ledger EXCEPT ![i] = [ledger[i] EXCEPT !.status = status]]
  BY DEF FillOrder
<1>3. [ledger[i] EXCEPT !.status = status].status = status
  BY <1>1 DEF Entries
<1>4. /\ DOMAIN ledger' = DOMAIN ledger
      /\ ledger'[i].status # "working"
      /\ \A j \in DOMAIN ledger : j # i => ledger'[j] = ledger[j]
  BY <1>1, <1>2, <1>3
<1>5. WorkingSymbols' \subseteq WorkingSymbols
  BY <1>4, EntriesLeaveBook
<1>6. Len(ledger') = Len(ledger)
  BY <1>4, FillOrderType, SameLength
<1>7. ledger[i].symbol \in WorkingSymbols
  BY <1>1 DEF WorkingSymbols
<1> QED BY <1>5, <1>6, <1>7 DEF AccountShrinks

(* A reduce-only MARKET order leaves less of its position, and nothing of  *)
(* it when it was for at least as much as was open.                        *)
LEMMA ReduceShrinks ==
  ASSUME AccountTypeOK, NEW p \in Symbols \X Int,
         ReduceAtMarket(p[1], ClosingSide(p[2]), Magnitude(p[2]))
  PROVE  /\ AccountShrinks
         /\ \A s \in Symbols : Shrunk(position'[s], position[s])
         /\ Shrunk(position[p[1]], p[2]) => position'[p[1]] = 0
<1> DEFINE s == p[1]
           amount == p[2]
           quantity == Magnitude(amount)
<1>1. s \in Symbols /\ amount \in Int /\ position \in [Symbols -> Int]
  BY DEF AccountTypeOK
<1>2. quantity \in Nat
  BY <1>1 DEF Magnitude
<1>3. /\ Opposes(ClosingSide(amount), position[s])
      /\ position' = [position EXCEPT ![s] =
           IF quantity < Magnitude(position[s])
             THEN position[s] + (IF ClosingSide(amount) = "BUY" THEN quantity ELSE -quantity)
             ELSE 0]
      /\ ledger' = ledger
  BY DEF ReduceAtMarket
<1> HIDE DEF s, amount
<1>4. /\ position'[s] = IF quantity < Magnitude(position[s])
             THEN position[s] + (IF ClosingSide(amount) = "BUY" THEN quantity ELSE -quantity)
             ELSE 0
      /\ \A t \in Symbols : t # s => position'[t] = position[t]
  BY <1>1, <1>3
<1>5. Shrunk(position'[s], position[s])
  BY <1>1, <1>2, <1>3, <1>4 DEF Shrunk, Magnitude, Opposes, ClosingSide
<1>6. \A t \in Symbols : Shrunk(position'[t], position[t])
  <2> TAKE t \in Symbols
  <2>1. position[t] \in Int BY <1>1
  <2> QED BY <2>1, <1>4, <1>5 DEF Shrunk
<1>7. Shrunk(position[s], amount) => position'[s] = 0
  BY <1>1, <1>4 DEF Shrunk, Magnitude
<1> QED BY <1>3, <1>6, <1>7 DEF AccountShrinks, WorkingSymbols, s, amount

LEMMA CloseElsewhereShrinks ==
  ASSUME AccountTypeOK, NEW s \in Symbols, CloseElsewhere(s)
  PROVE  AccountShrinks
<1>1. \A t \in Symbols : position[t] \in Int /\ position'[t] \in {0, position[t]}
  BY DEF AccountTypeOK, CloseElsewhere
<1> QED BY <1>1 DEF AccountShrinks, CloseElsewhere, WorkingSymbols, Shrunk

(* What an emergency stop of w has in hand. *)
SameStop(w) ==
  /\ pc'[w] = pc[w] /\ report'[w] = report[w] /\ mark'[w] = mark[w]
  /\ toCancel'[w] = toCancel[w] /\ toClose'[w] = toClose[w]

(* A stop in progress while others act: the account may only shrink under  *)
(* it, or an order is accepted and the stop promises nothing any more.     *)
LEMMA StopStandsStill ==
  ASSUME TypeOK, TypeOK', NEW w \in Workers, mark[w] <= Len(ledger), StopTidies(w),
         SameStop(w), AccountShrinks \/ Len(ledger') = Len(ledger) + 1
  PROVE  mark'[w] <= Len(ledger') /\ StopTidies(w)'
<1>1. /\ Len(ledger) \in Nat /\ mark[w] \in Nat
      /\ \A s \in Symbols : position[s] \in Int /\ position'[s] \in Int
      /\ toClose[w] \subseteq Symbols \X Int
  BY SwitchTypes DEF TypeOK, AccountTypeOK, WorkerTypeOK
<1>2. CASE Len(ledger') = Len(ledger) + 1
  BY <1>1, <1>2 DEF SameStop, StopTidies
<1>3. CASE AccountShrinks
  <2> SUFFICES ASSUME pc[w] \in StopSteps, FullySucceeded(w), mark[w] = Len(ledger)
               PROVE  /\ pc[w] = "cancelling" => WorkingSymbols' \subseteq toCancel[w]
                      /\ pc[w] \in CancelDone => WorkingSymbols' = {}
                      /\ pc[w] = "closing" =>
                           /\ OpenSymbols' \subseteq {p[1] : p \in toClose[w]}
                           /\ \A p \in toClose[w] : Shrunk(position'[p[1]], p[2])
                      /\ pc[w] \in {"readFinal", "stopped"} => OpenSymbols' = {}
    BY <1>1, <1>3 DEF AccountShrinks, SameStop, StopTidies, FullySucceeded
  <2>1. pc[w] = "cancelling" => WorkingSymbols' \subseteq toCancel[w]
    BY <1>3 DEF StopTidies, AccountShrinks
  <2>2. pc[w] \in CancelDone => WorkingSymbols' = {} /\ \A s \in Symbols : Shrunk(position'[s], position[s])
    BY <1>3 DEF StopTidies, AccountShrinks
  <2>3. pc[w] \in CancelDone => OpenSymbols' \subseteq OpenSymbols
    BY <1>1, <2>2 DEF OpenSymbols, Shrunk
  <2>4. ASSUME pc[w] = "closing", NEW p \in toClose[w] PROVE Shrunk(position'[p[1]], p[2])
    <3>1. p[1] \in Symbols /\ p[2] \in Int
      BY <1>1
    <3>2. Shrunk(position[p[1]], p[2])
      BY <2>4 DEF StopTidies
    <3>3. Shrunk(position'[p[1]], position[p[1]])
      BY <2>2, <2>4, <3>1 DEF CancelDone
    <3> QED BY <1>1, <3>1, <3>2, <3>3, ShrunkTransitive
  <2>5. pc[w] = "closing" => OpenSymbols' \subseteq {p[1] : p \in toClose[w]}
    BY <2>3 DEF StopTidies, CancelDone
  <2>6. pc[w] \in {"readFinal", "stopped"} => OpenSymbols' = {}
    BY <2>3 DEF StopTidies, CancelDone
  <2> QED BY <2>1, <2>2, <2>4, <2>5, <2>6
<1> QED BY <1>2, <1>3

(* An order the exchange accepts lengthens the ledger by one.              *)
LEMMA AcceptLengthens ==
  ASSUME TypeOK, NEW e, Accept(e)
  PROVE  Len(ledger') = Len(ledger) + 1
  BY DEF Accept, TypeOK, AccountTypeOK

(* What every step does to the account. *)
LEMMA AccountMoves ==
  ASSUME TypeOK, [Next]_vars
  PROVE  AccountShrinks \/ Len(ledger') = Len(ledger) + 1
<1> USE DEF sessionVars, stopVars, historyVars
<1>0. AccountTypeOK
  BY DEF TypeOK
<1>1. ASSUME NEW w \in Workers, ExecuteOrder(w)
      PROVE  AccountShrinks \/ Len(ledger') = Len(ledger) + 1
  BY <1>0, <1>1, StandingStill, AcceptLengthens
     DEF ExecuteOrder, BeginExecute, ExecuteNotReady, RefuseOrder, PublishBlocked,
         PassLimits, OrderAccepted, AnswerLost, OrderRejected, RecordOrder
<1>2. ASSUME NEW w \in Workers, Cancel(w) PROVE AccountShrinks
  BY <1>0, <1>2, StandingStill, CancelOneShrinks DEF Cancel, BeginCancel, CancelOrder, CancelFails
<1>3. ASSUME NEW w \in Workers, EnableTrading(w) \/ DisableTrading(w) PROVE AccountShrinks
  BY <1>0, <1>3, StandingStill
     DEF EnableTrading, BeginEnable, ReadFlat, EnableRefused, ApplyEnable, EnableSuperseded,
         StartStream, DisableTrading, BeginDisable, StopStream
<1>4. ASSUME NEW w \in Workers, EmergencyStop(w) PROVE AccountShrinks
  <2>1. CASE CancelSymbol(w) \/ CancelStepFails(w)
    BY <1>0, <2>1, StandingStill, CancelAllShrinks DEF CancelSymbol, CancelStepFails
  <2>2. CASE ClosePosition(w) \/ CloseStepFails(w)
    <3>1. toClose[w] \subseteq Symbols \X Int
      BY DEF TypeOK, WorkerTypeOK
    <3> QED BY <1>0, <2>2, <3>1, StandingStill, ReduceShrinks DEF ClosePosition, CloseStepFails
  <2>3. CASE \/ BeginStop(w) \/ StopStopsStream(w) \/ ReadOpenOrders(w)
             \/ ReadPositions(w) \/ ReadFinal(w) \/ StopReturns(w)
    BY <1>0, <2>3, StandingStill
       DEF BeginStop, StopStopsStream, ReadOpenOrders, ReadPositions, ReadFinal, StopReturns
  <2> QED BY <1>4, <2>1, <2>2, <2>3 DEF EmergencyStop
<1>5. ASSUME AccountFeed \/ Tick \/ UNCHANGED vars PROVE AccountShrinks
  BY <1>0, <1>5, StandingStill
     DEF AccountFeed, Notice, HearPosition, HearNothing, Reconcile, Tick, vars
<1>6. ASSUME ExchangeMoves PROVE AccountShrinks
  BY <1>0, <1>6, FillOrderShrinks, CloseElsewhereShrinks DEF ExchangeMoves
<1> QED BY <1>1, <1>2, <1>3, <1>4, <1>5, <1>6 DEF Next, Handler

(* A handler writes the locals of its own worker only. *)
LEMMA StopsOfOthers ==
  ASSUME TypeOK, NEW w \in Workers, NEW v \in Workers, v # w, Handler(w)
  PROVE  SameStop(v)
<1>1. /\ pc \in [Workers -> Steps] /\ report \in [Workers -> Reports]
      /\ mark \in [Workers -> Nat] /\ toCancel \in [Workers -> SUBSET Symbols]
      /\ toClose \in [Workers -> SUBSET (Symbols \X Int)]
  BY DEF TypeOK, WorkerTypeOK
<1>2. CASE ExecuteOrder(w) \/ Cancel(w) \/ EnableTrading(w) \/ DisableTrading(w)
  BY <1>1, <1>2
     DEF SameStop, stopVars, historyVars,
         ExecuteOrder, BeginExecute, ExecuteNotReady, RefuseOrder, PublishBlocked,
         PassLimits, OrderAccepted, AnswerLost, OrderRejected, RecordOrder,
         Cancel, BeginCancel, CancelOrder, CancelFails,
         EnableTrading, BeginEnable, ReadFlat, EnableRefused, ApplyEnable, EnableSuperseded,
         StartStream, DisableTrading, BeginDisable, StopStream, Goto, Return
<1>3. CASE EmergencyStop(w)
  BY <1>1, <1>3
     DEF SameStop, stopVars, historyVars,
         EmergencyStop, BeginStop, StopStopsStream, ReadOpenOrders, CancelSymbol,
         CancelStepFails, ReadPositions, ClosePosition, CloseStepFails, ReadFinal,
         StopReturns, CancelRest, CloseRest, Goto, Return
<1> QED BY <1>2, <1>3 DEF Handler

(* A worker in another handler is in no stop. *)
LEMMA NoStopElsewhere ==
  ASSUME TypeOK, NEW w \in Workers,
         \/ ExecuteOrder(w) \/ Cancel(w) \/ EnableTrading(w) \/ DisableTrading(w)
  PROVE  pc'[w] \notin StopSteps /\ mark'[w] \in {0, mark[w]}
<1>1. pc \in [Workers -> Steps] /\ mark \in [Workers -> Nat]
  BY DEF TypeOK, WorkerTypeOK
<1> QED
  BY <1>1
     DEF StopSteps, historyVars,
         ExecuteOrder, BeginExecute, ExecuteNotReady, RefuseOrder, PublishBlocked,
         PassLimits, OrderAccepted, AnswerLost, OrderRejected, RecordOrder,
         Cancel, BeginCancel, CancelOrder, CancelFails,
         EnableTrading, BeginEnable, ReadFlat, EnableRefused, ApplyEnable, EnableSuperseded,
         StartStream, DisableTrading, BeginDisable, StopStream, Goto, Return

(* Each step of an emergency stop leaves in its lists what is still to do. *)
LEMMA StopKeepsTidying ==
  ASSUME TypeOK, TypeOK', NEW w \in Workers, mark[w] <= Len(ledger), StopTidies(w),
         EmergencyStop(w)
  PROVE  mark'[w] <= Len(ledger') /\ StopTidies(w)'
<1> USE DEF sessionVars, accountVars, stopVars, historyVars
<1>0. /\ Len(ledger) \in Nat /\ mark \in [Workers -> Nat] /\ pc \in [Workers -> Steps]
      /\ \A s \in Symbols : position[s] \in Int /\ position'[s] \in Int
      /\ report \in [Workers -> Reports] /\ report[w] \in Reports
      /\ toClose \in [Workers -> SUBSET (Symbols \X Int)]
      /\ toCancel \in [Workers -> SUBSET Symbols]
      /\ AccountTypeOK
  BY SwitchTypes DEF TypeOK, AccountTypeOK, WorkerTypeOK
<1>1. CASE BeginStop(w) \/ StopStopsStream(w)
  <2>1. pc'[w] \in {"stopping", "readOrders"} /\ mark'[w] <= Len(ledger')
    BY <1>0, <1>1 DEF BeginStop, StopStopsStream, Goto
  <2> QED BY <2>1 DEF StopTidies, CancelDone
<1>2. CASE ReadOpenOrders(w)
  <2>1. /\ toCancel'[w] = WorkingSymbols
        /\ pc'[w] = IF WorkingSymbols = {} THEN "readPositions" ELSE "cancelling"
        /\ UNCHANGED <<position, ledger, mark>>
    BY <1>0, <1>2 DEF ReadOpenOrders, CancelRest, Goto
  <2> QED BY <2>1 DEF StopTidies, CancelDone, WorkingSymbols
<1>3. CASE CancelSymbol(w)
  <2>1. PICK s \in toCancel[w] : CancelAll(s) /\ CancelRest(w, toCancel[w] \ {s})
    BY <1>3 DEF CancelSymbol
  <2>2. /\ toCancel'[w] = toCancel[w] \ {s}
        /\ pc'[w] = IF toCancel[w] \ {s} = {} THEN "readPositions" ELSE "cancelling"
        /\ report' = report /\ mark' = mark /\ pc[w] = "cancelling"
    BY <1>0, <1>3, <2>1 DEF CancelSymbol, CancelRest, Goto
  <2>3. AccountShrinks /\ WorkingSymbols' \subseteq WorkingSymbols \ {s}
    BY <1>0, <2>1, CancelAllShrinks
  <2> QED BY <2>2, <2>3 DEF StopTidies, StopSteps, FullySucceeded, CancelDone, AccountShrinks
<1>4. CASE CancelStepFails(w) \/ CloseStepFails(w)
  <2>1. ~FullySucceeded(w)'
    <3>1. CASE CancelStepFails(w)
      <4>1. report' = [report EXCEPT ![w] = [report[w] EXCEPT !.cancelled = FALSE]]
        BY <3>1 DEF CancelStepFails
      <4>2. [report[w] EXCEPT !.cancelled = FALSE].cancelled = FALSE
        BY <1>0 DEF Reports
      <4>3. report'[w].cancelled = FALSE
        BY <1>0, <4>1, <4>2
      <4> QED BY <4>3 DEF FullySucceeded
    <3>2. CASE CloseStepFails(w)
      <4>1. report' = [report EXCEPT ![w] = [report[w] EXCEPT !.closed = FALSE]]
        BY <3>2 DEF CloseStepFails
      <4>2. [report[w] EXCEPT !.closed = FALSE].closed = FALSE
        BY <1>0 DEF Reports
      <4>3. report'[w].closed = FALSE
        BY <1>0, <4>1, <4>2
      <4> QED BY <4>3 DEF FullySucceeded
    <3> QED BY <1>4, <3>1, <3>2
  <2>2. mark' = mark
    BY <1>4 DEF CancelStepFails, CloseStepFails
  <2>3. Len(ledger') = Len(ledger)
    <3>1. ASSUME NEW s, CancelAll(s) PROVE Len(ledger') = Len(ledger)
      BY <1>0, <3>1, CancelAllShrinks DEF AccountShrinks
    <3>2. CASE CloseStepFails(w)
      BY <3>2 DEF CloseStepFails, ReduceAtMarket
    <3> QED BY <1>4, <3>1, <3>2 DEF CancelStepFails
  <2> QED BY <2>1, <2>2, <2>3 DEF StopTidies
<1>5. CASE ReadPositions(w)
  <2> DEFINE positions == {<<s, position[s]>> : s \in OpenSymbols}
  <2>1. /\ toClose'[w] = positions
        /\ pc'[w] = IF positions = {} THEN "readFinal" ELSE "closing"
        /\ report' = report /\ mark' = mark /\ pc[w] = "readPositions"
        /\ UNCHANGED <<position, ledger>>
    BY <1>0, <1>5 DEF ReadPositions, CloseRest, Goto
  <2>2. OpenSymbols \subseteq {p[1] : p \in positions}
    <3>1. ASSUME NEW s \in OpenSymbols PROVE \E p \in positions : p[1] = s
      <4>1. <<s, position[s]>> \in positions /\ <<s, position[s]>>[1] = s
        OBVIOUS
      <4> QED BY <4>1
    <3> HIDE DEF positions
    <3> QED BY <3>1
  <2>3. \A p \in positions : Shrunk(position[p[1]], p[2])
    BY <1>0 DEF Shrunk, OpenSymbols
  <2>4. positions = {} => OpenSymbols = {}
    OBVIOUS
  <2>5. WorkingSymbols' = WorkingSymbols /\ OpenSymbols' = OpenSymbols
    BY <2>1 DEF WorkingSymbols, OpenSymbols
  <2> HIDE DEF positions
  <2> QED BY <2>1, <2>2, <2>3, <2>4, <2>5 DEF StopTidies, StopSteps, FullySucceeded, CancelDone
<1>6. CASE ClosePosition(w)
  <2>1. PICK p \in toClose[w] :
          /\ ReduceAtMarket(p[1], ClosingSide(p[2]), Magnitude(p[2]))
          /\ CloseRest(w, toClose[w] \ {p})
    BY <1>6 DEF ClosePosition
  <2>2. /\ toClose'[w] = toClose[w] \ {p}
        /\ pc'[w] = IF toClose[w] \ {p} = {} THEN "readFinal" ELSE "closing"
        /\ report' = report /\ mark' = mark /\ pc[w] = "closing"
    BY <1>0, <1>6, <2>1 DEF ClosePosition, CloseRest, Goto
  <2>3. p \in Symbols \X Int /\ toClose[w] \subseteq Symbols \X Int
    BY <1>0
  <2>4. /\ AccountShrinks
        /\ \A s \in Symbols : Shrunk(position'[s], position[s])
        /\ Shrunk(position[p[1]], p[2]) => position'[p[1]] = 0
    BY <1>0, <2>1, <2>3, ReduceShrinks
  <2> SUFFICES ASSUME FullySucceeded(w), mark[w] = Len(ledger)
               PROVE  /\ WorkingSymbols' = {}
                      /\ OpenSymbols' \subseteq {q[1] : q \in toClose[w] \ {p}}
                      /\ \A q \in toClose[w] \ {p} : Shrunk(position'[q[1]], q[2])
    BY <1>0, <2>2, <2>4 DEF StopTidies, StopSteps, FullySucceeded, CancelDone, AccountShrinks
  <2>5. /\ WorkingSymbols = {}
        /\ OpenSymbols \subseteq {q[1] : q \in toClose[w]}
        /\ \A q \in toClose[w] : Shrunk(position[q[1]], q[2])
    BY <2>2 DEF StopTidies, StopSteps, CancelDone
  <2>6. WorkingSymbols' = {}
    BY <2>4, <2>5 DEF AccountShrinks
  <2>7. OpenSymbols' \subseteq OpenSymbols \ {p[1]}
    BY <1>0, <2>3, <2>4, <2>5 DEF OpenSymbols, Shrunk
  <2>8. OpenSymbols' \subseteq {q[1] : q \in toClose[w] \ {p}}
    BY <2>5, <2>7
  <2>9. ASSUME NEW q \in toClose[w] \ {p} PROVE Shrunk(position'[q[1]], q[2])
    <3>1. q[1] \in Symbols /\ q[2] \in Int
      BY <2>3
    <3>2. Shrunk(position[q[1]], q[2]) /\ Shrunk(position'[q[1]], position[q[1]])
      BY <2>4, <2>5, <3>1
    <3> QED BY <1>0, <3>1, <3>2, ShrunkTransitive
  <2> QED BY <2>6, <2>8, <2>9
<1>7. CASE ReadFinal(w)
  <2>1. PICK r : /\ report' = [report EXCEPT ![w] = r]
                 /\ r.cancelled = report[w].cancelled /\ r.closed = report[w].closed
    <3>1. PICK confirmed \in BOOLEAN :
            report' = [report EXCEPT ![w] =
                         [report[w] EXCEPT !.confirmed = confirmed,
                            !.positions = IF confirmed THEN OpenSymbols ELSE {}]]
      BY <1>7 DEF ReadFinal
    <3> DEFINE r == [report[w] EXCEPT !.confirmed = confirmed,
                       !.positions = IF confirmed THEN OpenSymbols ELSE {}]
    <3>2. r.cancelled = report[w].cancelled /\ r.closed = report[w].closed
      BY <1>0 DEF Reports
    <3>3. report' = [report EXCEPT ![w] = r]
      BY <3>1
    <3> QED BY <3>2, <3>3
  <2>2. /\ pc[w] = "readFinal" /\ pc'[w] = "stopped" /\ mark' = mark
        /\ UNCHANGED <<position, ledger>>
    BY <1>0, <1>7 DEF ReadFinal, Goto
  <2>3. FullySucceeded(w)' => FullySucceeded(w)
    BY <1>0, <2>1 DEF FullySucceeded
  <2>4. WorkingSymbols' = WorkingSymbols /\ OpenSymbols' = OpenSymbols
    BY <2>2 DEF WorkingSymbols, OpenSymbols
  <2> QED BY <2>2, <2>3, <2>4 DEF StopTidies, StopSteps, CancelDone
<1>8. CASE StopReturns(w)
  <2>1. pc'[w] = "idle" /\ mark'[w] = 0 /\ ledger' = ledger
    BY <1>0, <1>8 DEF StopReturns, Return
  <2> QED BY <1>0, <2>1 DEF StopTidies, StopSteps
<1> QED BY <1>1, <1>2, <1>3, <1>4, <1>5, <1>6, <1>7, <1>8 DEF EmergencyStop

(* No stop is in progress at the start.                                    *)
LEMMA InitStop == Init => StopInv
<1> SUFFICES ASSUME Init, NEW w \in Workers PROVE mark[w] <= Len(ledger) /\ StopTidies(w)
  BY DEF StopInv
<1>1. pc[w] = "idle" /\ mark[w] = 0 /\ Len(ledger) = 0
  BY DEF Init
<1> QED BY <1>1 DEF StopTidies, StopSteps

(* Every step, of whichever actor, keeps the lists of every stop true.     *)
LEMMA StepStop == TypeOK /\ StopInv /\ [Next]_vars => StopInv'
<1> SUFFICES ASSUME TypeOK, StopInv, [Next]_vars, NEW v \in Workers
             PROVE  mark'[v] <= Len(ledger') /\ StopTidies(v)'
  BY DEF StopInv
<1>0. /\ TypeOK' /\ mark[v] <= Len(ledger) /\ StopTidies(v)
      /\ AccountShrinks \/ Len(ledger') = Len(ledger) + 1
      /\ Len(ledger) \in Nat /\ mark[v] \in Nat
  BY StepTypes, AccountMoves, SwitchTypes DEF StopInv, TypeOK, WorkerTypeOK
<1>1. ASSUME NEW w \in Workers, w # v, Handler(w)
      PROVE  mark'[v] <= Len(ledger') /\ StopTidies(v)'
  BY <1>0, <1>1, StopsOfOthers, StopStandsStill
<1>2. CASE EmergencyStop(v)
  BY <1>0, <1>2, StopKeepsTidying
<1>3. CASE ExecuteOrder(v) \/ Cancel(v) \/ EnableTrading(v) \/ DisableTrading(v)
  <2>1. pc'[v] \notin StopSteps /\ mark'[v] \in {0, mark[v]}
    BY <1>3, NoStopElsewhere
  <2> QED BY <1>0, <2>1 DEF StopTidies, AccountShrinks
<1>4. CASE AccountFeed \/ ExchangeMoves \/ Tick \/ UNCHANGED vars
  <2>1. SameStop(v)
    BY <1>4 DEF AccountFeed, Notice, HearPosition, HearNothing, Reconcile, ExchangeMoves, Tick,
                vars, workerVars, stopVars, historyVars, SameStop
  <2> QED BY <1>0, <2>1, StopStandsStill
<1> QED BY <1>1, <1>2, <1>3, <1>4 DEF Next, Handler

(* An emergency stop that reports full success, with no order accepted     *)
(* since it turned trading off, leaves nothing open and nothing resting,   *)
(* for any number of stops, orders and symbols: its one read of the orders *)
(* and its one read of the positions miss nothing that is not an order     *)
(* slipped in.                                                             *)
THEOREM StopReportTruthfulHolds == Spec => []StopReportTruthful
<1>1. StopInv => StopReportTruthful
  BY DEF StopInv, StopTidies, StopReportTruthful, StopSteps, CancelDone
<1>2. Spec => []StopInv
  BY TypeCorrect, InitStop, StepStop, PTL DEF Spec
<1> QED BY <1>1, <1>2, PTL

-----------------------------------------------------------------------------
(* Concurrent submission.                                                  *)

-----------------------------------------------------------------------------
(* The inductive invariant.  live_submission_guard() makes one worker at a *)
(* time the submitter, from PassLimits to the end of its submission.       *)

GuardInv == \A w \in Workers : pc[w] \in GuardSteps <=> guard = w

TimeInv ==
  /\ \A i \in DOMAIN ledger : ledger[i].at <= now
  /\ \A w \in Workers : sentAt[w] <= now
  /\ \A s \in Symbols : flatSince[s] <= Len(ledger)

(* The session knows of answered order i: of its time, and, unless it was  *)
(* told since that the symbol is flat, of its position.                    *)
Recorded(i) ==
  /\ ledger[i].at <= session.lastOrderTime[ledger[i].symbol]
  /\ \/ i <= flatSince[ledger[i].symbol]
     \/ ledger[i].symbol \in session.knownOpen

(* Order i is answered and about to be recorded. *)
InFlight(i) == i = Len(ledger) /\ \E w \in Workers : pc[w] = "accepted"

RecordInv == \A i \in Answered : InFlight(i) \/ Recorded(i)

(* Answered order i does not stand in the way of the order of worker w.    *)
Cleared(w, i) ==
  ledger[i].symbol = order[w].symbol =>
    /\ MaxPositionsPerSymbol <= 1 => i <= flatSince[ledger[i].symbol]
    /\ sentAt[w] - ledger[i].at >= MinOrderInterval

SubmitterInv ==
  \A w \in Workers :
    /\ pc[w] = "placing" => \A i \in Answered : Cleared(w, i)
    /\ pc[w] = "accepted" =>
         /\ Len(ledger) \in Answered
         /\ ledger[Len(ledger)].symbol = order[w].symbol
         /\ ledger[Len(ledger)].at = sentAt[w]
         /\ \A i \in Answered \ {Len(ledger)} : Cleared(w, i)

Unrecorded == IF \E w \in Workers : pc[w] = "accepted" THEN 1 ELSE 0

CapInv ==
  /\ IsFiniteSet(Answered)
  /\ Cardinality(Answered) = session.ordersSent + Unrecorded
  /\ session.ordersSent <= MaxOrdersPerSession
  /\ \A w \in Workers : pc[w] \in GuardSteps => session.ordersSent < MaxOrdersPerSession

HistoryInv ==
  /\ MaxPositionsPerSymbol <= 1 => OneOrderPerFlatReading
  /\ OrdersSpacedOut

SubmissionInv ==
  /\ GuardInv
  /\ TimeInv
  /\ RecordInv
  /\ SubmitterInv
  /\ CapInv
  /\ HistoryInv

-----------------------------------------------------------------------------
(* When the policy finds no violation, every limit holds. *)
LEMMA LimitsHold ==
  ASSUME NEW ordersSent, NEW notional, NEW openPositions, NEW lastOrder \in Nat \cup {Never}, NEW time \in Nat,
         FailedLimits(ordersSent, notional, openPositions, lastOrder, time) = {}
  PROVE  /\ ordersSent < MaxOrdersPerSession
         /\ openPositions < MaxPositionsPerSymbol
         /\ lastOrder # Never => time - lastOrder >= MinOrderInterval
<1>1. "max_orders_per_session" \notin FailedLimits(ordersSent, notional, openPositions, lastOrder, time)
  OBVIOUS
<1>2. "max_positions_per_symbol" \notin FailedLimits(ordersSent, notional, openPositions, lastOrder, time)
  OBVIOUS
<1>3. "min_order_interval" \notin FailedLimits(ordersSent, notional, openPositions, lastOrder, time)
  OBVIOUS
<1>4. ordersSent < MaxOrdersPerSession
  BY <1>1 DEF FailedLimits, LimitNames
<1>5. openPositions < MaxPositionsPerSymbol
  BY <1>2 DEF FailedLimits, LimitNames
<1>6. lastOrder # Never => time - lastOrder >= MinOrderInterval
  BY <1>3 DEF FailedLimits, LimitNames
<1> QED BY <1>4, <1>5, <1>6

(* The invariant survives a step that sends, answers and records nothing:  *)
(* one that leaves alone the submitter, what the session knows of orders,  *)
(* and all of the ledger but the states of its orders.                     *)
SameOrders ==
  /\ Len(ledger') = Len(ledger)
  /\ DOMAIN ledger' = DOMAIN ledger
  /\ \A i \in DOMAIN ledger :
       /\ ledger'[i].symbol = ledger[i].symbol
       /\ ledger'[i].at = ledger[i].at
       /\ ledger'[i].lost = ledger[i].lost

SameRecords ==
  /\ session'.ordersSent = session.ordersSent
  /\ session'.lastOrderTime = session.lastOrderTime
  /\ session'.knownOpen = session.knownOpen
  /\ flatSince' = flatSince

SameSubmitter ==
  /\ guard' = guard
  /\ \A w \in Workers :
       \/ pc'[w] = pc[w] /\ order'[w] = order[w] /\ sentAt'[w] = sentAt[w]
       \/ pc[w] \notin GuardSteps /\ pc'[w] \notin GuardSteps /\ sentAt'[w] \in {sentAt[w], 0}

Quiet == SameOrders /\ SameRecords /\ SameSubmitter /\ now <= now'

(* The types the proofs below need.                                        *)
LEMMA TypeFacts ==
  ASSUME TypeOK
  PROVE  /\ now \in Nat /\ Len(ledger) \in Nat /\ DOMAIN ledger = 1 .. Len(ledger)
         /\ \A i \in DOMAIN ledger :
              ledger[i].symbol \in Symbols /\ ledger[i].at \in Nat /\ ledger[i].lost \in BOOLEAN
         /\ \A w \in Workers : sentAt[w] \in Nat
         /\ \A s \in Symbols : flatSince[s] \in Nat
         /\ session.ordersSent \in Nat
         /\ \A s \in Symbols : session.lastOrderTime[s] \in Nat \cup {Never}
<1>1. Len(ledger) \in Nat /\ DOMAIN ledger = 1 .. Len(ledger)
  BY LenProperties DEF TypeOK, AccountTypeOK
<1>2. \A i \in DOMAIN ledger : ledger[i] \in Entries
  BY <1>1, ElementOfSeq DEF TypeOK, AccountTypeOK
<1>3. \A i \in DOMAIN ledger :
         ledger[i].symbol \in Symbols /\ ledger[i].at \in Nat /\ ledger[i].lost \in BOOLEAN
  BY <1>2 DEF Entries
<1> QED BY <1>1, <1>3 DEF TypeOK, SharedTypeOK, WorkerTypeOK, Sessions

(* A quiet step preserves the invariant.                                   *)
LEMMA QuietPreserves ==
  ASSUME TypeOK, SubmissionInv, Quiet, now' \in Nat
  PROVE  SubmissionInv'
<1>1. Answered' = Answered /\ Answered \subseteq DOMAIN ledger
  BY DEF Quiet, SameOrders, Answered
<1>2. \A w \in Workers : (pc'[w] = "accepted") <=> (pc[w] = "accepted")
  BY DEF Quiet, SameSubmitter, GuardSteps
<1>3. GuardInv'
  BY DEF SubmissionInv, GuardInv, Quiet, SameSubmitter
<1>4. TimeInv'
  BY TypeFacts DEF SubmissionInv, TimeInv, Quiet, SameOrders, SameRecords, SameSubmitter
<1>5. RecordInv'
  BY <1>1, <1>2
     DEF SubmissionInv, RecordInv, InFlight, Recorded, Quiet, SameOrders, SameRecords
<1>6. SubmitterInv'
  <2>1. ASSUME NEW w \in Workers, pc'[w] \in GuardSteps, NEW i \in Answered, Cleared(w, i)
        PROVE  Cleared(w, i)'
    BY <1>1, <2>1 DEF Cleared, Quiet, SameOrders, SameRecords, SameSubmitter
  <2>2. ASSUME NEW w \in Workers, pc'[w] \in GuardSteps
        PROVE  pc'[w] = pc[w] /\ order'[w] = order[w] /\ sentAt'[w] = sentAt[w]
    BY <2>2 DEF Quiet, SameSubmitter
  <2> QED BY <1>1, <2>1, <2>2
      DEF SubmissionInv, SubmitterInv, Quiet, SameOrders, GuardSteps
<1>7. CapInv'
  <2>1. Unrecorded' = Unrecorded
    BY <1>2 DEF Unrecorded
  <2>2. \A w \in Workers : pc'[w] \in GuardSteps => pc[w] \in GuardSteps
    BY DEF Quiet, SameSubmitter
  <2> QED BY <1>1, <2>1, <2>2 DEF SubmissionInv, CapInv, Quiet, SameRecords
<1>8. HistoryInv'
  BY <1>1 DEF SubmissionInv, HistoryInv, OneOrderPerFlatReading, OrdersSpacedOut, SameSymbol,
              Quiet, SameOrders, SameRecords
<1> QED BY <1>3, <1>4, <1>5, <1>6, <1>7, <1>8 DEF SubmissionInv

-----------------------------------------------------------------------------
(* The steps of a submission. *)

(* Without a submitter every answered order has been recorded. *)
LEMMA AllRecorded ==
  ASSUME SubmissionInv, guard = NoWorker
  PROVE  /\ \A w \in Workers : pc[w] \notin GuardSteps
         /\ \A i \in Answered : Recorded(i)
<1>1. \A w \in Workers : pc[w] \notin GuardSteps
  BY NamesAssumption DEF SubmissionInv, GuardInv
<1> QED BY <1>1 DEF SubmissionInv, RecordInv, InFlight, GuardSteps

(* A worker that passes the limits becomes the submitter: the answered orders *)
(* are all recorded, so what the limits compared is the ledger itself.     *)
LEMMA PassLimitsPreserves ==
  ASSUME TypeOK, SubmissionInv, NEW w \in Workers, PassLimits(w)
  PROVE  SubmissionInv'
<1>0. /\ pc' = [pc EXCEPT ![w] = "placing"] /\ pc \in [Workers -> Steps]
      /\ sentAt' = [sentAt EXCEPT ![w] = now] /\ sentAt \in [Workers -> Nat]
      /\ guard = NoWorker /\ guard' = w /\ pc[w] = "gated"
      /\ UNCHANGED <<session, now, ledger, order, flatSince>>
  BY DEF PassLimits, Goto, TypeOK, WorkerTypeOK, accountVars, historyVars
<1>1. \A v \in Workers : pc[v] \notin GuardSteps
  BY <1>0, AllRecorded
<1>2. Answered' = Answered /\ Answered \subseteq DOMAIN ledger
  BY <1>0 DEF Answered
<1>3. order[w].symbol \in Symbols
  BY <1>0 DEF TypeOK, OrderInHand, OrderRequests
<1>4. /\ session.ordersSent < MaxOrdersPerSession
      /\ OpenPositionCount(session, order[w].symbol) < MaxPositionsPerSymbol
      /\ session.lastOrderTime[order[w].symbol] # Never =>
           now - session.lastOrderTime[order[w].symbol] >= MinOrderInterval
  BY <1>3, LimitsHold, TypeFacts DEF PassLimits, Violations, OrderViolations
<1>5. GuardInv'
  BY <1>0, <1>1, NamesAssumption DEF GuardInv, GuardSteps
<1>6. TimeInv'
  BY <1>0, TypeFacts DEF SubmissionInv, TimeInv
<1>7. RecordInv'
  BY <1>0, <1>2, AllRecorded DEF RecordInv, Recorded
<1>8. SubmitterInv'
  <2>1. ASSUME NEW i \in Answered PROVE Cleared(w, i)'
    <3>1. SUFFICES ASSUME ledger[i].symbol = order[w].symbol
                   PROVE  /\ MaxPositionsPerSymbol <= 1 => i <= flatSince[ledger[i].symbol]
                          /\ now - ledger[i].at >= MinOrderInterval
      BY <1>0 DEF Cleared
    <3>2. Recorded(i)
      BY <1>0, AllRecorded
    <3>3. MaxPositionsPerSymbol <= 1 => ledger[i].symbol \notin session.knownOpen
      BY <1>4, <3>1, LimitsAssumption DEF OpenPositionCount
    <3>4. now - ledger[i].at >= MinOrderInterval
      <4> DEFINE last == session.lastOrderTime[order[w].symbol]
      <4>1. ledger[i].at \in Nat /\ now \in Nat /\ last \in Nat \cup {Never}
        BY <1>2, <1>3, TypeFacts
      <4>2. ledger[i].at <= last BY <3>1, <3>2 DEF Recorded
      <4>3. last # Never => now - last >= MinOrderInterval BY <1>4
      <4> HIDE DEF last
      <4> QED BY <4>1, <4>2, <4>3, LimitsAssumption DEF Never
    <3> QED BY <3>2, <3>3, <3>4 DEF Recorded
  <2>2. \A v \in Workers : pc'[v] = "placing" => v = w
    BY <1>0, <1>1 DEF GuardSteps
  <2>3. \A v \in Workers : pc'[v] # "accepted"
    BY <1>0, <1>1 DEF GuardSteps
  <2> QED BY <1>2, <2>1, <2>2, <2>3 DEF SubmitterInv
<1>9. CapInv'
  <2>1. Unrecorded = 0 /\ Unrecorded' = 0
    BY <1>0, <1>1 DEF Unrecorded, GuardSteps
  <2> QED BY <1>0, <1>2, <1>4, <2>1 DEF SubmissionInv, CapInv
<1>10. HistoryInv'
  BY <1>0, <1>2 DEF SubmissionInv, HistoryInv, OneOrderPerFlatReading, OrdersSpacedOut, SameSymbol
<1> QED BY <1>5, <1>6, <1>7, <1>8, <1>9, <1>10 DEF SubmissionInv

(* What the ledger is once the exchange has accepted the order of w. *)
LEMMA AcceptFacts ==
  ASSUME TypeOK, NEW w \in Workers, NEW status, NEW lost \in BOOLEAN,
         Accept(Entry(w, status, lost))
  PROVE  LET n == Len(ledger) + 1
         IN  /\ Len(ledger') = n /\ n \notin DOMAIN ledger
             /\ DOMAIN ledger' = DOMAIN ledger \cup {n}
             /\ \A i \in DOMAIN ledger : ledger'[i] = ledger[i]
             /\ ledger'[n].symbol = order[w].symbol
             /\ ledger'[n].at = sentAt[w]
             /\ ledger'[n].lost = lost
             /\ Answered' = IF lost THEN Answered ELSE Answered \cup {n}
<1> DEFINE n == Len(ledger) + 1
<1>1. ledger' = Append(ledger, Entry(w, status, lost)) /\ ledger \in Seq(Entries)
  BY DEF Accept, TypeOK, AccountTypeOK
<1>2. /\ Len(ledger') = n /\ DOMAIN ledger' = 1 .. n
      /\ \A i \in 1 .. Len(ledger) : ledger'[i] = ledger[i]
      /\ ledger'[n] = Entry(w, status, lost)
  BY <1>1, LenProperties
<1>3. /\ n \notin DOMAIN ledger /\ DOMAIN ledger' = DOMAIN ledger \cup {n}
  BY <1>2, TypeFacts
<1>4. /\ ledger'[n].symbol = order[w].symbol
      /\ ledger'[n].at = sentAt[w]
      /\ ledger'[n].lost = lost
  BY <1>2 DEF Entry
<1>5. Answered' = IF lost THEN Answered ELSE Answered \cup {n}
  <2>1. Answered' = { i \in DOMAIN ledger' : ~ledger'[i].lost }
    BY DEF Answered
  <2> QED BY <1>2, <1>3, <1>4, <2>1, TypeFacts DEF Answered
<1> QED BY <1>2, <1>3, <1>4, <1>5, TypeFacts

(* The submitter is alone under the guard. *)
LEMMA OneSubmitter ==
  ASSUME SubmissionInv, NEW w \in Workers, pc[w] \in GuardSteps
  PROVE  guard = w /\ \A v \in Workers : pc[v] \in GuardSteps => v = w
  BY DEF SubmissionInv, GuardInv

(* The exchange accepts the submitted order, and answers it.               *)
LEMMA OrderAcceptedPreserves ==
  ASSUME TypeOK, SubmissionInv, NEW w \in Workers, OrderAccepted(w)
  PROVE  SubmissionInv'
<1>n. PICK n \in Nat : n = Len(ledger) + 1
  BY TypeFacts
<1>0. /\ pc' = [pc EXCEPT ![w] = "accepted"] /\ pc \in [Workers -> Steps]
      /\ pc[w] = "placing" /\ pc[w] \in GuardSteps
      /\ UNCHANGED <<session, guard, now, order, sentAt, flatSince>>
  BY DEF OrderAccepted, Goto, TypeOK, WorkerTypeOK, sessionVars, historyVars, GuardSteps
<1>1. /\ Len(ledger') = n /\ n \notin DOMAIN ledger
      /\ DOMAIN ledger' = DOMAIN ledger \cup {n}
      /\ \A i \in DOMAIN ledger : ledger'[i] = ledger[i]
      /\ ledger'[n].symbol = order[w].symbol /\ ledger'[n].at = sentAt[w]
      /\ Answered' = Answered \cup {n}
  BY <1>n, AcceptFacts DEF OrderAccepted
<1>2. guard = w /\ \A v \in Workers : pc[v] \in GuardSteps => v = w
  BY <1>0, OneSubmitter
<1>3. Answered \subseteq DOMAIN ledger /\ n \notin Answered
  BY <1>1 DEF Answered
<1>4. \A i \in Answered : Cleared(w, i)
  BY <1>0 DEF SubmissionInv, SubmitterInv
<1>5. GuardInv'
  BY <1>0, <1>2 DEF SubmissionInv, GuardInv, GuardSteps
<1>6. TimeInv'
  BY <1>n, <1>0, <1>1, TypeFacts DEF SubmissionInv, TimeInv
<1>7. RecordInv'
  <2>1. \A i \in Answered : Recorded(i)
    BY <1>0, <1>2 DEF SubmissionInv, RecordInv, InFlight, GuardSteps
  <2>2. \A i \in Answered : Recorded(i)'
    BY <1>0, <1>1, <1>3, <2>1 DEF Recorded
  <2>3. InFlight(n)'
    BY <1>0, <1>1 DEF InFlight
  <2> QED BY <1>1, <2>2, <2>3 DEF RecordInv
<1>8. SubmitterInv'
  <2>1. \A i \in Answered : Cleared(w, i)'
    BY <1>0, <1>1, <1>3, <1>4 DEF Cleared
  <2>2. \A v \in Workers : pc'[v] # "placing" /\ (pc'[v] = "accepted" => v = w)
    BY <1>0, <1>2 DEF GuardSteps
  <2> QED BY <1>0, <1>1, <2>1, <2>2 DEF SubmitterInv
<1>9. CapInv'
  <2>1. Unrecorded = 0
    BY <1>0, <1>2 DEF Unrecorded, GuardSteps
  <2>2. Unrecorded' = 1
    BY <1>0 DEF Unrecorded
  <2>3. IsFiniteSet(Answered') /\ Cardinality(Answered') = Cardinality(Answered) + 1
    BY <1>1, <1>3, FS_AddElement DEF SubmissionInv, CapInv
  <2>4. session.ordersSent < MaxOrdersPerSession
    BY <1>0 DEF SubmissionInv, CapInv
  <2> QED BY <1>0, <2>1, <2>2, <2>3, <2>4, TypeFacts DEF SubmissionInv, CapInv
<1>10. HistoryInv'
  <2>1. ASSUME NEW i \in Answered', NEW j \in Answered', i < j, SameSymbol(i, j)'
        PROVE  /\ MaxPositionsPerSymbol <= 1 => i <= flatSince'[ledger'[i].symbol]
               /\ ledger'[j].at - ledger'[i].at >= MinOrderInterval
    <3>1. i \in Answered
      BY <1>n, <1>1, <1>3, <2>1, TypeFacts
    <3>2. CASE j = n
      BY <1>0, <1>1, <1>3, <1>4, <2>1, <3>1, <3>2 DEF Cleared, SameSymbol
    <3>3. CASE j \in Answered
      BY <1>0, <1>1, <1>3, <2>1, <3>1, <3>3
         DEF SubmissionInv, HistoryInv, OneOrderPerFlatReading, OrdersSpacedOut, SameSymbol
    <3> QED BY <1>1, <3>2, <3>3
  <2> QED BY <2>1 DEF HistoryInv, OneOrderPerFlatReading, OrdersSpacedOut
<1> QED BY <1>5, <1>6, <1>7, <1>8, <1>9, <1>10 DEF SubmissionInv

(* The submission ends without an answered order: the exchange refused it, *)
(* or accepted it and the answer was lost.                                 *)
LEMMA SubmissionFailsPreserves ==
  ASSUME TypeOK, SubmissionInv, NEW w \in Workers, AnswerLost(w) \/ OrderRejected(w)
  PROVE  SubmissionInv'
<1>0. /\ pc' = [pc EXCEPT ![w] = "idle"] /\ pc \in [Workers -> Steps]
      /\ sentAt' = [sentAt EXCEPT ![w] = 0] /\ sentAt \in [Workers -> Nat]
      /\ pc[w] = "placing" /\ pc[w] \in GuardSteps /\ guard' = NoWorker
      /\ UNCHANGED <<session, now, flatSince>>
  BY DEF AnswerLost, OrderRejected, Return, TypeOK, WorkerTypeOK, GuardSteps
<1>1. /\ Len(ledger') \in Nat /\ Len(ledger) <= Len(ledger')
      /\ DOMAIN ledger \subseteq DOMAIN ledger'
      /\ \A i \in DOMAIN ledger : ledger'[i] = ledger[i]
      /\ \A i \in DOMAIN ledger' \ DOMAIN ledger : ledger'[i].at = sentAt[w]
      /\ Answered' = Answered
  <2>1. CASE AnswerLost(w)
    <3>1. PICK status \in {"working", "filled"} : Accept(Entry(w, status, TRUE))
      BY <2>1 DEF AnswerLost
    <3>2. PICK n \in Nat : n = Len(ledger) + 1
      BY TypeFacts
    <3>3. /\ Len(ledger') = n /\ n \notin DOMAIN ledger
          /\ DOMAIN ledger' = DOMAIN ledger \cup {n}
          /\ \A i \in DOMAIN ledger : ledger'[i] = ledger[i]
          /\ ledger'[n].at = sentAt[w]
      BY <3>1, <3>2, AcceptFacts
    <3>4. Answered' = Answered
      BY <3>1, AcceptFacts
    <3> QED BY <3>2, <3>3, <3>4, TypeFacts
  <2>2. CASE OrderRejected(w)
    BY <2>2, TypeFacts DEF OrderRejected, accountVars, Answered
  <2> QED BY <2>1, <2>2
<1>2. \A v \in Workers : pc[v] \in GuardSteps => v = w
  BY <1>0, OneSubmitter
<1>3. \A v \in Workers : pc'[v] \notin GuardSteps
  BY <1>0, <1>2 DEF GuardSteps
<1>4. Answered \subseteq DOMAIN ledger
  BY DEF Answered
<1>5. GuardInv'
  BY <1>0, <1>3, NamesAssumption DEF GuardInv
<1>6. TimeInv'
  BY <1>0, <1>1, TypeFacts DEF SubmissionInv, TimeInv
<1>7. RecordInv'
  <2>1. \A i \in Answered : Recorded(i)
    BY <1>0, <1>2 DEF SubmissionInv, RecordInv, InFlight, GuardSteps
  <2> QED BY <1>0, <1>1, <1>4, <2>1 DEF RecordInv, Recorded
<1>8. SubmitterInv'
  BY <1>3 DEF SubmitterInv, GuardSteps
<1>9. CapInv'
  <2>1. Unrecorded = 0 /\ Unrecorded' = 0
    BY <1>0, <1>2, <1>3 DEF Unrecorded, GuardSteps
  <2> QED BY <1>0, <1>1, <1>3, <2>1 DEF SubmissionInv, CapInv
<1>10. HistoryInv'
  BY <1>0, <1>1, <1>4
     DEF SubmissionInv, HistoryInv, OneOrderPerFlatReading, OrdersSpacedOut, SameSymbol
<1> QED BY <1>5, <1>6, <1>7, <1>8, <1>9, <1>10 DEF SubmissionInv

(* record_order_sent() makes the submitted order a recorded one.           *)
LEMMA RecordOrderPreserves ==
  ASSUME TypeOK, SubmissionInv, NEW w \in Workers, RecordOrder(w)
  PROVE  SubmissionInv'
<1>n. PICK n \in Nat : n = Len(ledger)
  BY TypeFacts
<1>s. PICK s \in Symbols : s = order[w].symbol
  BY DEF RecordOrder, TypeOK, OrderInHand, OrderRequests, GuardSteps
<1>0. /\ pc' = [pc EXCEPT ![w] = "idle"] /\ pc \in [Workers -> Steps]
      /\ sentAt' = [sentAt EXCEPT ![w] = 0] /\ sentAt \in [Workers -> Nat]
      /\ pc[w] = "accepted" /\ pc[w] \in GuardSteps /\ guard' = NoWorker
      /\ UNCHANGED <<now, ledger, flatSince>>
      /\ session' = AfterOrderSent(session, s, sentAt[w])
  BY <1>s DEF RecordOrder, Return, TypeOK, WorkerTypeOK, GuardSteps, accountVars
<1>1. /\ session'.ordersSent = session.ordersSent + 1
      /\ session'.lastOrderTime = [session.lastOrderTime EXCEPT ![s] = sentAt[w]]
      /\ session'.knownOpen = session.knownOpen \cup {s}
  BY <1>0 DEF AfterOrderSent, TypeOK, SharedTypeOK, Sessions
<1>2. \A v \in Workers : pc[v] \in GuardSteps => v = w
  BY <1>0, OneSubmitter
<1>3. \A v \in Workers : pc'[v] \notin GuardSteps
  BY <1>0, <1>2 DEF GuardSteps
<1>4. Answered' = Answered /\ Answered \subseteq DOMAIN ledger
  BY <1>0 DEF Answered
<1>5. GuardInv'
  BY <1>0, <1>3, NamesAssumption DEF GuardInv
<1>6. TimeInv'
  BY <1>0, TypeFacts DEF SubmissionInv, TimeInv
<1>7. RecordInv'
  <2>1. \A i \in Answered : ledger[i].symbol = s => ledger[i].at <= sentAt[w]
    <3>1. n \in Answered /\ ledger[n].symbol = s /\ ledger[n].at = sentAt[w]
      BY <1>0, <1>n, <1>s DEF SubmissionInv, SubmitterInv
    <3>2. \A i \in Answered \ {n} : Cleared(w, i)
      BY <1>0, <1>n DEF SubmissionInv, SubmitterInv
    <3> QED BY <1>4, <1>s, <3>1, <3>2, TypeFacts, LimitsAssumption DEF Cleared
  <2>2. ASSUME NEW i \in Answered PROVE Recorded(i)'
    <3>1. CASE ledger[i].symbol = s
      <4>1. session'.lastOrderTime[s] = sentAt[w]
        BY <1>1 DEF TypeOK, SharedTypeOK, Sessions
      <4> QED BY <1>0, <1>1, <2>1, <3>1, <4>1 DEF Recorded
    <3>2. CASE ledger[i].symbol # s
      <4>1. Recorded(i)
        BY <1>0, <1>2, <1>s, <3>2
           DEF SubmissionInv, RecordInv, InFlight, SubmitterInv, GuardSteps
      <4>2. session'.lastOrderTime[ledger[i].symbol] = session.lastOrderTime[ledger[i].symbol]
        BY <1>1, <1>4, <3>2, TypeFacts DEF TypeOK, SharedTypeOK, Sessions
      <4> QED BY <1>0, <1>1, <4>1, <4>2 DEF Recorded
    <3> QED BY <3>1, <3>2
  <2> QED BY <1>4, <2>2 DEF RecordInv
<1>8. SubmitterInv'
  BY <1>3 DEF SubmitterInv, GuardSteps
<1>9. CapInv'
  <2>1. Unrecorded = 1 /\ Unrecorded' = 0
    BY <1>0, <1>3 DEF Unrecorded, GuardSteps
  <2>2. session.ordersSent < MaxOrdersPerSession
    BY <1>0 DEF SubmissionInv, CapInv
  <2> QED BY <1>1, <1>3, <1>4, <2>1, <2>2, TypeFacts, LimitsAssumption DEF SubmissionInv, CapInv
<1>10. HistoryInv'
  BY <1>0, <1>4
     DEF SubmissionInv, HistoryInv, OneOrderPerFlatReading, OrdersSpacedOut, SameSymbol
<1> QED BY <1>5, <1>6, <1>7, <1>8, <1>9, <1>10 DEF SubmissionInv

-----------------------------------------------------------------------------
(* The session is told that symbols are flat or open. *)

(* Enabling or reconciling forgets a symbol only together with a flat reading. *)
LEMMA FlatReadingPreserves ==
  ASSUME TypeOK, SubmissionInv, SameSubmitter,
         UNCHANGED <<now, ledger>>,
         session'.ordersSent = session.ordersSent,
         session'.lastOrderTime = session.lastOrderTime,
         \A s \in Symbols :
           /\ flatSince'[s] \in {flatSince[s], Len(ledger)}
           /\ s \in session.knownOpen =>
                s \in session'.knownOpen \/ flatSince'[s] = Len(ledger)
  PROVE  SubmissionInv'
<1>1. Answered' = Answered /\ Answered \subseteq DOMAIN ledger
  BY DEF Answered
<1>2. \A s \in Symbols : flatSince[s] <= flatSince'[s] /\ flatSince'[s] <= Len(ledger)
  BY TypeFacts DEF SubmissionInv, TimeInv
<1>3. \A w \in Workers : (pc'[w] = "accepted") <=> (pc[w] = "accepted")
  BY DEF SameSubmitter, GuardSteps
<1>4. GuardInv'
  BY DEF SubmissionInv, GuardInv, SameSubmitter
<1>5. TimeInv'
  <2>1. \A w \in Workers : sentAt'[w] <= now
    BY TypeFacts DEF SubmissionInv, TimeInv, SameSubmitter
  <2> QED BY <1>2, <2>1 DEF SubmissionInv, TimeInv
<1>6. ASSUME NEW i \in Answered, i <= flatSince[ledger[i].symbol]
      PROVE  i <= flatSince'[ledger[i].symbol]
  BY <1>1, <1>2, <1>6, TypeFacts
<1>7. RecordInv'
  <2>1. ASSUME NEW i \in Answered, Recorded(i) PROVE Recorded(i)'
    BY <1>1, <1>6, <2>1, TypeFacts DEF Recorded
  <2> QED BY <1>1, <1>3, <2>1 DEF SubmissionInv, RecordInv, InFlight
<1>8. SubmitterInv'
  <2>1. ASSUME NEW w \in Workers, pc'[w] \in GuardSteps
        PROVE  pc'[w] = pc[w] /\ order'[w] = order[w] /\ sentAt'[w] = sentAt[w]
    BY <2>1 DEF SameSubmitter
  <2>2. ASSUME NEW w \in Workers, pc'[w] \in GuardSteps, NEW i \in Answered, Cleared(w, i)
        PROVE  Cleared(w, i)'
    BY <1>6, <2>1, <2>2 DEF Cleared
  <2> QED BY <1>1, <2>1, <2>2 DEF SubmissionInv, SubmitterInv, GuardSteps
<1>9. CapInv'
  <2>1. Unrecorded' = Unrecorded
    BY <1>3 DEF Unrecorded
  <2> QED BY <1>1, <2>1 DEF SubmissionInv, CapInv, SameSubmitter
<1>10. HistoryInv'
  BY <1>1, <1>6
     DEF SubmissionInv, HistoryInv, OneOrderPerFlatReading, OrdersSpacedOut, SameSymbol
<1> QED BY <1>4, <1>5, <1>7, <1>8, <1>9, <1>10 DEF SubmissionInv

-----------------------------------------------------------------------------
(* The other steps are quiet. *)

(* A worker that is not the submitter returns.                             *)
LEMMA ReturnKeepsSubmitter ==
  ASSUME TypeOK, NEW w \in Workers, pc[w] \notin GuardSteps, Return(w), UNCHANGED guard
  PROVE  SameSubmitter
<1>1. /\ pc' = [pc EXCEPT ![w] = "idle"] /\ pc \in [Workers -> Steps]
      /\ order' = [order EXCEPT ![w] = NoOrder]
      /\ sentAt' = [sentAt EXCEPT ![w] = 0]
      /\ DOMAIN order = Workers /\ DOMAIN sentAt = Workers
  BY DEF Return, TypeOK, WorkerTypeOK
<1> QED BY <1>1 DEF SameSubmitter, GuardSteps

(* A worker that is not the submitter goes on to a step outside the guard. *)
LEMMA GotoKeepsSubmitter ==
  ASSUME TypeOK, NEW w \in Workers, pc[w] \notin GuardSteps,
         NEW label \in Steps \ GuardSteps, Goto(w, label),
         \A v \in Workers \ {w} : order'[v] = order[v],
         UNCHANGED <<guard, sentAt>>
  PROVE  SameSubmitter
  BY DEF Goto, TypeOK, WorkerTypeOK, SameSubmitter

(* Fills and cancellations keep each order's symbol, time and answer.      *)
LEMMA AccountMovesKeepOrders ==
  ASSUME TypeOK,
         \/ UNCHANGED ledger
         \/ \E i \in DOMAIN ledger : FillOrder(i) \/ CancelOne(i)
         \/ \E s \in Symbols : CancelAll(s)
  PROVE  SameOrders
<1>0. /\ Len(ledger) \in Nat /\ ledger \in Seq(Entries)
      /\ DOMAIN ledger = 1 .. Len(ledger)
      /\ \A i \in DOMAIN ledger : ledger[i] \in Entries
  BY TypeFacts, ElementOfSeq, LenProperties DEF TypeOK, AccountTypeOK
<1>1. CASE UNCHANGED ledger
  BY <1>1 DEF SameOrders
<1>2. ASSUME NEW i \in DOMAIN ledger, NEW status,
             ledger' = [ledger EXCEPT ![i] = [ledger[i] EXCEPT !.status = status]]
      PROVE  SameOrders
  <2>1. /\ [ledger[i] EXCEPT !.status = status].symbol = ledger[i].symbol
        /\ [ledger[i] EXCEPT !.status = status].at = ledger[i].at
        /\ [ledger[i] EXCEPT !.status = status].lost = ledger[i].lost
    BY <1>0 DEF Entries
  <2>2. DOMAIN ledger' = DOMAIN ledger
    BY <1>2
  <2>3. Len(ledger') = Len(ledger)
    BY <1>0, <2>2
  <2> QED BY <1>2, <2>1, <2>2, <2>3 DEF SameOrders
<1>3. CASE \E i \in DOMAIN ledger : FillOrder(i) \/ CancelOne(i)
  <2>1. PICK i \in DOMAIN ledger : FillOrder(i) \/ CancelOne(i)
    BY <1>3
  <2>2. \E status : ledger' = [ledger EXCEPT ![i] = [ledger[i] EXCEPT !.status = status]]
    BY <2>1 DEF FillOrder, CancelOne
  <2> QED BY <1>2, <2>2
<1>4. CASE \E s \in Symbols : CancelAll(s)
  <2>1. PICK s \in Symbols : CancelAll(s)
    BY <1>4
  <2>2. /\ DOMAIN ledger' = DOMAIN ledger
        /\ ledger' \in Seq(Entries)
    BY <2>1, CancelAllType DEF CancelAll, TypeOK, AccountTypeOK
  <2>3. Len(ledger') = Len(ledger)
    BY <1>0, <2>2, LenProperties
  <2>4. \A i \in DOMAIN ledger :
          /\ [ledger[i] EXCEPT !.status = "cancelled"].symbol = ledger[i].symbol
          /\ [ledger[i] EXCEPT !.status = "cancelled"].at = ledger[i].at
          /\ [ledger[i] EXCEPT !.status = "cancelled"].lost = ledger[i].lost
    BY <1>0 DEF Entries
  <2>5. \A i \in DOMAIN ledger :
          ledger'[i] \in {ledger[i], [ledger[i] EXCEPT !.status = "cancelled"]}
    BY <2>1 DEF CancelAll
  <2> QED BY <2>2, <2>3, <2>4, <2>5 DEF SameOrders
<1> QED BY <1>1, <1>3, <1>4

(* A step that changes no order's identity, no submitter and no record.    *)
LEMMA QuietStep ==
  ASSUME TypeOK, SubmissionInv, SameOrders, SameSubmitter,
         UNCHANGED <<now, flatSince>>,
         session' \in {session, AfterDisable(session)}
  PROVE  SubmissionInv'
<1>1. SameRecords
  BY DEF SameRecords, AfterDisable, TypeOK, SharedTypeOK, Sessions
<1>2. now \in Nat /\ now <= now
  BY TypeFacts
<1> QED BY <1>1, <1>2, QuietPreserves DEF Quiet

(* Every step of ExecuteOrder preserves the invariant.                     *)
LEMMA ExecuteOrderPreserves ==
  ASSUME TypeOK, SubmissionInv, NEW w \in Workers, ExecuteOrder(w)
  PROVE  SubmissionInv'
<1> USE DEF sessionVars, accountVars, stopVars, historyVars
<1>1. CASE BeginExecute(w)
  <2>1. /\ pc[w] \notin GuardSteps /\ Goto(w, "gated") /\ "gated" \in Steps \ GuardSteps
        /\ \A v \in Workers \ {w} : order'[v] = order[v]
        /\ UNCHANGED <<guard, sentAt>>
    BY <1>1 DEF BeginExecute, Begins, Steps, GuardSteps, TypeOK, WorkerTypeOK
  <2>2. SameSubmitter
    BY <2>1, GotoKeepsSubmitter
  <2> QED BY <1>1, <2>2, AccountMovesKeepOrders, QuietStep DEF BeginExecute
<1>2. CASE ExecuteNotReady(w) \/ PublishBlocked(w)
  <2>1. pc[w] \notin GuardSteps
    BY <1>2 DEF ExecuteNotReady, PublishBlocked, GuardSteps
  <2>2. SameSubmitter
    BY <1>2, <2>1, ReturnKeepsSubmitter DEF ExecuteNotReady, PublishBlocked
  <2> QED BY <1>2, <2>2, AccountMovesKeepOrders, QuietStep DEF ExecuteNotReady, PublishBlocked
<1>3. CASE RefuseOrder(w)
  <2>1. /\ pc[w] \notin GuardSteps /\ Goto(w, "refused") /\ "refused" \in Steps \ GuardSteps
        /\ UNCHANGED <<guard, sentAt, order>>
    BY <1>3 DEF RefuseOrder, Steps, GuardSteps
  <2>2. SameSubmitter
    BY <2>1, GotoKeepsSubmitter
  <2> QED BY <1>3, <2>2, AccountMovesKeepOrders, QuietStep DEF RefuseOrder
<1> QED BY <1>1, <1>2, <1>3, PassLimitsPreserves, OrderAcceptedPreserves,
           SubmissionFailsPreserves, RecordOrderPreserves DEF ExecuteOrder

(* Every step of CancelOrder preserves the invariant.                      *)
LEMMA CancelPreserves ==
  ASSUME TypeOK, SubmissionInv, NEW w \in Workers, Cancel(w)
  PROVE  SubmissionInv'
<1> USE DEF sessionVars, accountVars, stopVars, historyVars
<1>1. CASE BeginCancel(w)
  <2>1. /\ pc[w] \notin GuardSteps /\ Goto(w, "cancelGated")
        /\ "cancelGated" \in Steps \ GuardSteps /\ UNCHANGED <<guard, sentAt, order>>
    BY <1>1 DEF BeginCancel, Begins, Steps, GuardSteps
  <2>2. SameSubmitter
    BY <2>1, GotoKeepsSubmitter
  <2> QED BY <1>1, <2>2, AccountMovesKeepOrders, QuietStep DEF BeginCancel
<1>2. CASE CancelOrder(w) \/ CancelFails(w)
  <2>1. pc[w] \notin GuardSteps
    BY <1>2 DEF CancelOrder, CancelFails, GuardSteps
  <2>2. SameSubmitter
    BY <1>2, <2>1, ReturnKeepsSubmitter DEF CancelOrder, CancelFails
  <2>3. SameOrders
    BY <1>2, AccountMovesKeepOrders DEF CancelOrder, CancelFails
  <2> QED BY <1>2, <2>2, <2>3, QuietStep DEF CancelOrder, CancelFails
<1> QED BY <1>1, <1>2 DEF Cancel

(* Every step of EnableTrading preserves the invariant.                    *)
LEMMA EnableTradingPreserves ==
  ASSUME TypeOK, SubmissionInv, NEW w \in Workers, EnableTrading(w)
  PROVE  SubmissionInv'
<1> USE DEF sessionVars, accountVars, stopVars, historyVars
<1>1. CASE BeginEnable(w) \/ ReadFlat(w)
  <2>1. PICK label \in Steps \ GuardSteps : Goto(w, label)
    BY <1>1 DEF BeginEnable, ReadFlat, Steps, GuardSteps
  <2>2. pc[w] \notin GuardSteps /\ UNCHANGED <<guard, sentAt, order>>
    BY <1>1 DEF BeginEnable, ReadFlat, Begins, GuardSteps
  <2>3. SameSubmitter
    BY <2>1, <2>2, GotoKeepsSubmitter
  <2> QED BY <1>1, <2>3, AccountMovesKeepOrders, QuietStep DEF BeginEnable, ReadFlat
<1>2. CASE EnableRefused(w) \/ EnableSuperseded(w) \/ StartStream(w)
  <2>1. pc[w] \notin GuardSteps
    BY <1>2 DEF EnableRefused, EnableSuperseded, StartStream, GuardSteps
  <2>2. SameSubmitter
    BY <1>2, <2>1, ReturnKeepsSubmitter DEF EnableRefused, EnableSuperseded, StartStream
  <2> QED BY <1>2, <2>2, AccountMovesKeepOrders, QuietStep
          DEF EnableRefused, EnableSuperseded, StartStream
<1>3. CASE ApplyEnable(w)
  <2>1. /\ pc[w] \notin GuardSteps /\ Goto(w, "starting") /\ "starting" \in Steps \ GuardSteps
        /\ UNCHANGED <<guard, sentAt, order, now, ledger>>
        /\ flatSince' = [s \in Symbols |-> Len(ledger)]
        /\ session' = AfterEnable(session, {})
    BY <1>3 DEF ApplyEnable, Steps, GuardSteps
  <2>2. SameSubmitter
    BY <2>1, GotoKeepsSubmitter
  <2>3. /\ session'.ordersSent = session.ordersSent
        /\ session'.lastOrderTime = session.lastOrderTime
    BY <2>1 DEF AfterEnable, TypeOK, SharedTypeOK, Sessions
  <2> QED BY <2>1, <2>2, <2>3, FlatReadingPreserves
<1> QED BY <1>1, <1>2, <1>3 DEF EnableTrading

(* Every step of DisableTrading preserves the invariant.                   *)
LEMMA DisableTradingPreserves ==
  ASSUME TypeOK, SubmissionInv, NEW w \in Workers, DisableTrading(w)
  PROVE  SubmissionInv'
<1> USE DEF sessionVars, accountVars, stopVars, historyVars
<1>1. CASE BeginDisable(w)
  <2>1. /\ pc[w] \notin GuardSteps /\ Goto(w, "disabled") /\ "disabled" \in Steps \ GuardSteps
        /\ UNCHANGED <<guard, sentAt, order>>
    BY <1>1 DEF BeginDisable, Begins, Steps, GuardSteps
  <2>2. SameSubmitter
    BY <2>1, GotoKeepsSubmitter
  <2> QED BY <1>1, <2>2, AccountMovesKeepOrders, QuietStep DEF BeginDisable
<1>2. CASE StopStream(w)
  <2>1. pc[w] \notin GuardSteps
    BY <1>2 DEF StopStream, GuardSteps
  <2>2. SameSubmitter
    BY <1>2, <2>1, ReturnKeepsSubmitter DEF StopStream
  <2> QED BY <1>2, <2>2, AccountMovesKeepOrders, QuietStep DEF StopStream
<1> QED BY <1>1, <1>2 DEF DisableTrading

(* Every step of EmergencyStop preserves the invariant.                    *)
LEMMA EmergencyStopPreserves ==
  ASSUME TypeOK, SubmissionInv, NEW w \in Workers, EmergencyStop(w)
  PROVE  SubmissionInv'
<1> USE DEF sessionVars, accountVars, stopVars, historyVars
<1>1. CASE StopReturns(w)
  <2>1. pc[w] \notin GuardSteps
    BY <1>1 DEF StopReturns, GuardSteps
  <2>2. SameSubmitter
    BY <1>1, <2>1, ReturnKeepsSubmitter DEF StopReturns
  <2> QED BY <1>1, <2>2, AccountMovesKeepOrders, QuietStep DEF StopReturns
<1>2. CASE \/ BeginStop(w) \/ StopStopsStream(w)
           \/ ReadOpenOrders(w) \/ CancelSymbol(w) \/ CancelStepFails(w)
           \/ ReadPositions(w) \/ ClosePosition(w) \/ CloseStepFails(w) \/ ReadFinal(w)
  <2>1. PICK label \in Steps \ GuardSteps : Goto(w, label)
    <3>1. StopSteps \subseteq Steps \ GuardSteps
      BY DEF StopSteps, Steps, GuardSteps
    <3>2. \E label \in StopSteps : Goto(w, label)
      BY <1>2 DEF BeginStop, StopStopsStream, ReadOpenOrders, CancelSymbol, CancelStepFails,
                  ReadPositions, ClosePosition, CloseStepFails, ReadFinal,
                  CancelRest, CloseRest, StopSteps
    <3> QED BY <3>1, <3>2
  <2>2. pc[w] \notin GuardSteps
    BY <1>2 DEF BeginStop, Begins, StopStopsStream, ReadOpenOrders, CancelSymbol,
                CancelStepFails, ReadPositions, ClosePosition, CloseStepFails, ReadFinal,
                GuardSteps
  <2>3. /\ UNCHANGED <<guard, sentAt, order, now, flatSince>>
        /\ session' \in {session, AfterDisable(session)}
    BY <1>2 DEF BeginStop, StopStopsStream, ReadOpenOrders, CancelSymbol, CancelStepFails,
                ReadPositions, ClosePosition, CloseStepFails, ReadFinal
  <2>4. SameSubmitter
    BY <2>1, <2>2, <2>3, GotoKeepsSubmitter
  <2>5. SameOrders
    <3>1. CASE CancelSymbol(w) \/ CancelStepFails(w)
      <4>1. toCancel[w] \in SUBSET Symbols
        BY DEF TypeOK, WorkerTypeOK
      <4> QED BY <3>1, <4>1, AccountMovesKeepOrders DEF CancelSymbol, CancelStepFails
    <3>2. CASE ~(CancelSymbol(w) \/ CancelStepFails(w))
      <4>1. UNCHANGED ledger
        BY <1>2, <3>2 DEF BeginStop, StopStopsStream, ReadOpenOrders, ReadPositions,
                          ClosePosition, CloseStepFails, ReadFinal, ReduceAtMarket
      <4> QED BY <4>1, AccountMovesKeepOrders
    <3> QED BY <3>1, <3>2
  <2> QED BY <2>3, <2>4, <2>5, QuietStep
<1> QED BY <1>1, <1>2 DEF EmergencyStop

(* Every step of the account feed preserves the invariant.                 *)
LEMMA AccountFeedPreserves ==
  ASSUME TypeOK, SubmissionInv, AccountFeed
  PROVE  SubmissionInv'
<1> USE DEF sessionVars, accountVars, workerVars, historyVars
<1>1. SameSubmitter /\ UNCHANGED <<now, ledger>>
  BY DEF AccountFeed, Notice, HearPosition, HearNothing, Reconcile, SameSubmitter
<1>2. CASE ~Reconcile
  <2>1. UNCHANGED <<session, flatSince>>
    BY <1>2 DEF AccountFeed, Notice, HearPosition, HearNothing
  <2> QED BY <1>1, <2>1, AccountMovesKeepOrders, QuietStep
<1>3. CASE Reconcile
  <2>1. noticed \in Symbols /\ flatSince \in [Symbols -> Nat] /\ session \in Sessions
    BY <1>3 DEF Reconcile, TypeOK, FeedTypeOK, SharedTypeOK
  <2>2. /\ session'.ordersSent = session.ordersSent
        /\ session'.lastOrderTime = session.lastOrderTime
        /\ session'.knownOpen = IF heard = "open" THEN session.knownOpen \cup {noticed}
                                                  ELSE session.knownOpen \ {noticed}
    BY <1>3, <2>1 DEF Reconcile, AfterReconcile, Sessions
  <2>3. CASE heard = "open"
    <3>1. flatSince' = flatSince
      BY <1>3, <2>3 DEF Reconcile
    <3> QED BY <1>1, <2>2, <2>3, <3>1, FlatReadingPreserves
  <2>4. CASE heard = "flat"
    <3>1. flatSince' = [flatSince EXCEPT ![noticed] = Len(ledger)]
      BY <1>3, <2>4 DEF Reconcile
    <3> QED BY <1>1, <2>1, <2>2, <2>4, <3>1, FlatReadingPreserves
  <2> QED BY <1>3, <2>3, <2>4 DEF Reconcile, TypeOK, FeedTypeOK
<1> QED BY <1>2, <1>3

(* What the exchange does on its own preserves the invariant.              *)
LEMMA ExchangeMovesPreserves ==
  ASSUME TypeOK, SubmissionInv, ExchangeMoves
  PROVE  SubmissionInv'
<1> USE DEF sessionVars, workerVars, historyVars
<1>1. SameOrders
  BY AccountMovesKeepOrders DEF ExchangeMoves, CloseElsewhere
<1>2. SameSubmitter /\ UNCHANGED <<session, now, flatSince>>
  BY DEF ExchangeMoves, SameSubmitter
<1> QED BY <1>1, <1>2, QuietStep

(* Time passing preserves the invariant.                                   *)
LEMMA TickPreserves ==
  ASSUME TypeOK, SubmissionInv, Tick
  PROVE  SubmissionInv'
<1> USE DEF accountVars, workerVars, historyVars
<1>1. SameOrders
  BY AccountMovesKeepOrders DEF Tick
<1>2. SameSubmitter /\ SameRecords
  BY DEF Tick, SameSubmitter, SameRecords
<1>3. now <= now' /\ now' \in Nat
  BY TypeFacts DEF Tick
<1> QED BY <1>1, <1>2, <1>3, QuietPreserves DEF Quiet

(* No order has been sent at the start.                                    *)
LEMMA InitSubmission == Init => SubmissionInv
<1> SUFFICES ASSUME Init PROVE SubmissionInv
  OBVIOUS
<1>1. /\ \A w \in Workers : pc[w] = "idle" /\ sentAt[w] = 0
      /\ guard = NoWorker /\ now = 0 /\ ledger = << >> /\ session.ordersSent = 0
      /\ \A s \in Symbols : flatSince[s] = 0
  BY DEF Init, NewSession
<1>2. Answered = {} /\ Len(ledger) = 0 /\ DOMAIN ledger = {}
  BY <1>1 DEF Answered
<1>3. IsFiniteSet(Answered) /\ Cardinality(Answered) = 0
  BY <1>2, FS_EmptySet
<1>4. GuardInv
  BY <1>1, NamesAssumption DEF GuardInv, GuardSteps
<1>5. CapInv
  BY <1>1, <1>3, LimitsAssumption DEF CapInv, Unrecorded, GuardSteps
<1>6. TimeInv
  BY <1>1, <1>2 DEF TimeInv
<1>7. RecordInv /\ SubmitterInv /\ HistoryInv
  BY <1>1, <1>2
     DEF RecordInv, SubmitterInv, HistoryInv, OneOrderPerFlatReading, OrdersSpacedOut
<1> QED BY <1>4, <1>5, <1>6, <1>7 DEF SubmissionInv

(* Every step, of whichever actor, preserves the invariant.                *)
LEMMA StepSubmission == TypeOK /\ SubmissionInv /\ [Next]_vars => SubmissionInv'
<1> SUFFICES ASSUME TypeOK, SubmissionInv, [Next]_vars PROVE SubmissionInv'
  OBVIOUS
<1>1. CASE \E w \in Workers : Handler(w)
  BY <1>1, ExecuteOrderPreserves, CancelPreserves, EnableTradingPreserves,
     DisableTradingPreserves, EmergencyStopPreserves DEF Handler
<1>2. CASE UNCHANGED vars
  <2>1. SameSubmitter
    BY <1>2 DEF vars, sessionVars, workerVars, SameSubmitter
  <2> QED BY <1>2, <2>1, AccountMovesKeepOrders, QuietStep
          DEF vars, sessionVars, accountVars, historyVars
<1> QED BY <1>1, <1>2, AccountFeedPreserves, ExchangeMovesPreserves, TickPreserves DEF Next

(* The inductive invariant of order submission holds: the ledger and what the *)
(* session remembers of it agree but for the one order under the guard.    *)
THEOREM SubmissionInvariant == Spec => [](TypeOK /\ SubmissionInv)
  BY TypeCorrect, InitSubmission, StepSubmission, PTL DEF Spec

-----------------------------------------------------------------------------
(* However many workers execute orders at once, the exchange accepts and   *)
(* answers at most max_orders_per_session of them.                         *)
THEOREM SessionCapHolds == Spec => []SessionOrderCap
<1>1. TypeOK /\ SubmissionInv => SessionOrderCap
  <2> SUFFICES ASSUME TypeOK, SubmissionInv PROVE SessionOrderCap
    OBVIOUS
  <2>1. CASE \E w \in Workers : pc[w] = "accepted"
    <3>1. session.ordersSent < MaxOrdersPerSession /\ Unrecorded = 1
      BY <2>1 DEF SubmissionInv, CapInv, GuardSteps, Unrecorded
    <3> QED BY <3>1, TypeFacts, LimitsAssumption DEF SubmissionInv, CapInv, SessionOrderCap
  <2>2. CASE ~\E w \in Workers : pc[w] = "accepted"
    <3>1. session.ordersSent <= MaxOrdersPerSession /\ Unrecorded = 0
      BY <2>2 DEF SubmissionInv, CapInv, Unrecorded
    <3> QED BY <3>1, TypeFacts, LimitsAssumption DEF SubmissionInv, CapInv, SessionOrderCap
  <2> QED BY <2>1, <2>2
<1> QED BY <1>1, SubmissionInvariant, PTL

(* With max_positions_per_symbol at most 1 (its default), no two answered  *)
(* orders of a symbol follow the last time the session saw it flat.        *)
THEOREM OneOrderPerFlatReadingHolds ==
  ASSUME MaxPositionsPerSymbol <= 1
  PROVE  Spec => []OneOrderPerFlatReading
<1>1. SubmissionInv => OneOrderPerFlatReading
  BY DEF SubmissionInv, HistoryInv
<1> QED BY <1>1, SubmissionInvariant, PTL

(* Answered orders of one symbol are min_order_interval apart, whichever   *)
(* workers sent them and however often trading was switched in between.    *)
THEOREM OrdersSpacedOutHolds == Spec => []OrdersSpacedOut
<1>1. SubmissionInv => OrdersSpacedOut
  BY DEF SubmissionInv, HistoryInv
<1> QED BY <1>1, SubmissionInvariant, PTL

=============================================================================
