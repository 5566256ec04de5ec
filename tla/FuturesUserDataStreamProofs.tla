--------------------- MODULE FuturesUserDataStreamProofs ---------------------
(***************************************************************************)
(* The coroutines of FuturesUserDataStream implement the account feed the  *)
(* rest of the program relies on, for every number of start() and stop()   *)
(* calls: the generation fences a coroutine the moment stop() begins.      *)
(***************************************************************************)
EXTENDS FuturesUserDataStream, TLAPS

-----------------------------------------------------------------------------
(* Types. *)

(* A coroutine that moves without touching the message in hand. *)
Moves(t, new) ==
  /\ Becomes(t, new)
  /\ UNCHANGED <<callVars, captured, inHand, cancelVars>>

(* Spawning gives the unused coroutine of the new token its generation. *)
LEMMA SpawnTypes ==
  ASSUME TypeOK, Spawn
  PROVE  TypeOK'
<1>1. /\ token \in Tasks /\ state[token] = "unused" /\ pc' = "keepHandle"
      /\ state' = [state EXCEPT ![token] = "spawned"]
      /\ captured' = [captured EXCEPT ![token] = generation]
      /\ UNCHANGED <<generation, handle, token, inHand, cancelled, interrupted>>
  BY DEF TypeOK, CallTypeOK, Spawn, Unused, cancelVars
<1>2. CallTypeOK'
  BY <1>1 DEF TypeOK, CallTypeOK
<1>3. TaskTypeOK'
  BY <1>1 DEF TypeOK, CallTypeOK, TaskTypeOK, States
<1>4. \A t \in Tasks : state'[t] = "handling" <=> state[t] = "handling"
  BY <1>1 DEF TypeOK, TaskTypeOK
<1>5. MessageInHand'
  BY <1>1, <1>4 DEF TypeOK, MessageInHand, LoopFree
<1> QED BY <1>2, <1>3, <1>5 DEF TypeOK

(* start() and stop() preserve the types. *)
LEMMA CallerTypes ==
  ASSUME TypeOK, Caller
  PROVE  TypeOK'
<1>1. CASE Spawn
  BY <1>1, SpawnTypes
<1>2. CASE ~Spawn
  <2>1. UNCHANGED taskVars
    BY <1>2 DEF Caller, NewToken, StartGeneration, KeepHandle, StopGeneration,
                CancelToken, CancelHandle, ClearHandle
  <2>2. MessageInHand'
    BY <2>1 DEF TypeOK, MessageInHand, LoopFree, taskVars
  <2>3. TaskTypeOK'
    BY <1>2, <2>1 DEF TypeOK, CallTypeOK, TaskTypeOK, taskVars, cancelVars, Caller, NewToken,
                StartGeneration, KeepHandle, StopGeneration, CancelToken, CancelHandle,
                ClearHandle
  <2>4. CallTypeOK'
    BY <1>2, <2>1 DEF TypeOK, CallTypeOK, Unused, taskVars, Caller, NewToken,
                StartGeneration, KeepHandle, StopGeneration, CancelToken, CancelHandle,
                ClearHandle
  <2> QED BY <2>2, <2>3, <2>4 DEF TypeOK
<1> QED BY <1>1, <1>2

(* A coroutine that moves while nothing is handled preserves the types. *)
LEMMA MovesTypes ==
  ASSUME TypeOK, NEW t \in Tasks, NEW new \in States \ {"handling", "unused"}, Moves(t, new),
         state[t] \notin {"unused", "handling"}
  PROVE  TypeOK'
<1>1. state' = [state EXCEPT ![t] = new] /\ state \in [Tasks -> States]
  BY DEF Moves, Becomes, TypeOK, TaskTypeOK
<1>2. \A u \in Tasks : /\ state'[u] = "handling" <=> state[u] = "handling"
                       /\ state'[u] = "unused" <=> state[u] = "unused"
  BY <1>1
<1>3. CallTypeOK'
  BY <1>2 DEF TypeOK, CallTypeOK, Unused, Moves, callVars
<1>4. TaskTypeOK'
  BY <1>1 DEF TypeOK, TaskTypeOK, Moves, cancelVars
<1>5. MessageInHand'
  BY <1>2 DEF TypeOK, MessageInHand, LoopFree, Moves
<1> QED BY <1>3, <1>4, <1>5 DEF TypeOK

(* The steps that neither begin nor end the handling of a message. *)
LEMMA QuietTypes ==
  ASSUME NEW t \in Tasks,
         \/ Connect(t) \/ LoopHead(t) \/ ConnectionLost(t) \/ WakeUp(t) \/ Interrupted(t)
  PROVE  /\ \E new \in States \ {"handling", "unused"} : Moves(t, new)
         /\ state[t] \notin {"unused", "handling"}
  BY DEF Connect, LoopHead, ConnectionLost, WakeUp, Interrupted, Moves, States

(* Taking a message: the loop was free, so this is the only one in hand. *)
LEMMA ReceiveTypes ==
  ASSUME TypeOK, NEW t \in Tasks, Receive(t)
  PROVE  TypeOK'
<1>1. CASE Moves(t, "connected")
  BY <1>1, MovesTypes DEF Receive, States
<1>2. CASE inHand' # {} /\ inHand' \subseteq Symbols /\ Becomes(t, "handling")
  <2>1. state' = [state EXCEPT ![t] = "handling"] /\ state \in [Tasks -> States]
    BY <1>2 DEF Becomes, TypeOK, TaskTypeOK
  <2>2. LoopFree /\ state[t] = "receiving" /\ UNCHANGED <<callVars, captured, cancelVars>>
    BY DEF Receive
  <2>3. CallTypeOK'
    BY <2>1, <2>2 DEF TypeOK, CallTypeOK, Unused, callVars
  <2>4. TaskTypeOK'
    BY <2>1, <2>2 DEF TypeOK, TaskTypeOK, States, cancelVars
  <2>5. MessageInHand'
    BY <1>2, <2>1, <2>2 DEF MessageInHand, LoopFree
  <2> QED BY <2>3, <2>4, <2>5 DEF TypeOK
<1>3. \E symbols \in SUBSET Symbols :
        IF symbols # {} /\ Current(t)
          THEN inHand' = symbols /\ Becomes(t, "handling")
          ELSE UNCHANGED inHand /\ Becomes(t, "connected")
  BY DEF Receive
<1> QED BY <1>1, <1>2, <1>3 DEF Receive, Moves

(* Handling a message to its end, or part of the way. *)
LEMMA HandlingTypes ==
  ASSUME TypeOK, NEW t \in Tasks, Reconcile(t) \/ HandlingFails(t)
  PROVE  TypeOK'
<1>1. PICK new \in States \ {"unused"} : Becomes(t, new) /\ (new = "handling" <=> inHand' # {})
  <2>1. CASE Reconcile(t)
    BY <2>1 DEF Reconcile, States
  <2>2. CASE HandlingFails(t)
    BY <2>2 DEF HandlingFails, States
  <2> QED BY <2>1, <2>2
<1>2. /\ state[t] = "handling" /\ inHand' \subseteq inHand
      /\ UNCHANGED <<callVars, captured, cancelVars>>
  BY DEF Reconcile, HandlingFails
<1>3. state' = [state EXCEPT ![t] = new] /\ state \in [Tasks -> States]
  BY <1>1 DEF Becomes, TypeOK, TaskTypeOK
<1>4. \A u \in Tasks : /\ u # t => state'[u] = state[u] /\ state[u] # "handling"
                       /\ state'[u] = "unused" <=> state[u] = "unused"
  BY <1>2, <1>3 DEF TypeOK, MessageInHand
<1>5. CallTypeOK'
  BY <1>2, <1>4 DEF TypeOK, CallTypeOK, Unused, callVars
<1>6. TaskTypeOK'
  BY <1>2, <1>3 DEF TypeOK, TaskTypeOK, cancelVars
<1>7. MessageInHand'
  BY <1>1, <1>2, <1>3, <1>4 DEF TypeOK, MessageInHand, LoopFree
<1> QED BY <1>5, <1>6, <1>7 DEF TypeOK

(* Every step preserves the types. *)
LEMMA StepTypes == TypeOK /\ [Next]_vars => TypeOK'
<1> SUFFICES ASSUME TypeOK, [Next]_vars PROVE TypeOK'
  OBVIOUS
<1>1. CASE Caller
  BY <1>1, CallerTypes
<1>2. CASE \E t \in Tasks : Coroutine(t)
  BY <1>2, QuietTypes, MovesTypes, ReceiveTypes, HandlingTypes DEF Coroutine
<1>3. CASE UNCHANGED vars
  BY <1>3 DEF TypeOK, CallTypeOK, TaskTypeOK, MessageInHand, LoopFree, Unused,
              vars, callVars, taskVars, cancelVars
<1> QED BY <1>1, <1>2, <1>3 DEF Next

(* The stream starts stopped, with its types right. *)
LEMMA InitTypes == Init => TypeOK
  BY DEF Init, TypeOK, CallTypeOK, TaskTypeOK, MessageInHand, LoopFree, States

(* The calls, the coroutines and the message in hand stay well formed: at  *)
(* no time are two messages being handled.                                 *)
THEOREM TypeCorrect == Spec => []TypeOK
  BY InitTypes, StepTypes, PTL DEF Spec

-----------------------------------------------------------------------------
(* The inductive invariant: no coroutine captured a generation still to    *)
(* come, and while the stream is not started none captured the present one.*)

Spawned == { t \in Tasks : state[t] # "unused" }

Fenced ==
  \A t \in Spawned :
    /\ captured[t] <= generation
    /\ Current(t) => Streaming

(* Every step preserves the fence. *)
LEMMA StepFenced == TypeOK /\ Fenced /\ [Next]_vars => Fenced'
<1> SUFFICES ASSUME TypeOK, Fenced, [Next]_vars PROVE Fenced'
  OBVIOUS
<1> USE DEF Fenced, Spawned, Current, Streaming
<1>0. generation \in Nat /\ \A t \in Tasks : captured[t] \in Nat
  BY DEF TypeOK, CallTypeOK, TaskTypeOK
<1>1. CASE StartGeneration \/ StopGeneration
  BY <1>0, <1>1 DEF StartGeneration, StopGeneration, taskVars
<1>2. CASE Spawn
  <2>1. /\ pc' = "keepHandle" /\ generation' = generation
        /\ captured' = [captured EXCEPT ![token] = generation]
        /\ state' = [state EXCEPT ![token] = "spawned"]
    BY <1>2 DEF Spawn
  <2> QED BY <1>0, <2>1 DEF TypeOK, TaskTypeOK
<1>3. CASE KeepHandle
  BY <1>3 DEF KeepHandle, TypeOK, CallTypeOK, taskVars, Tasks, None
<1>4. CASE NewToken \/ CancelToken \/ CancelHandle \/ ClearHandle
  BY <1>4 DEF NewToken, CancelToken, CancelHandle, ClearHandle, taskVars
<1>5. CASE \E t \in Tasks : Coroutine(t)
  <2>1. PICK t \in Tasks : Coroutine(t)
    BY <1>5
  <2>2. state[t] # "unused" /\ UNCHANGED <<callVars, captured>>
    BY <2>1 DEF Coroutine, Connect, LoopHead, Receive, Reconcile, HandlingFails,
                ConnectionLost, WakeUp, Interrupted
  <2>3. PICK new : state' = [state EXCEPT ![t] = new]
    BY <2>1 DEF Coroutine, Connect, LoopHead, Receive, Reconcile, HandlingFails,
                ConnectionLost, WakeUp, Interrupted, Becomes
  <2> QED BY <2>2, <2>3 DEF callVars, TypeOK, TaskTypeOK
<1>6. CASE UNCHANGED vars
  BY <1>6 DEF vars, callVars, taskVars
<1> QED BY <1>1, <1>2, <1>3, <1>4, <1>5, <1>6 DEF Next, Caller

(* Started or not, a step of the calls is a start, a stop or no step of    *)
(* the feed, and a step of a coroutine handles a message or is no step.    *)
LEMMA StepFeed ==
  TypeOK /\ Fenced /\ [Next]_vars => [Feed!Next]_Feed!vars
<1> SUFFICES ASSUME TypeOK, Fenced, [Next]_vars PROVE [Feed!Next]_Feed!vars
  OBVIOUS
<1>1. CASE Caller
  <2>1. inHand' = inHand
    BY <1>1 DEF Caller, NewToken, StartGeneration, Spawn, KeepHandle, StopGeneration,
                CancelToken, CancelHandle, ClearHandle, taskVars
  <2>2. Streaming' \in BOOLEAN /\ Streaming \in BOOLEAN
    BY DEF Streaming
  <2> QED BY <2>1, <2>2 DEF Feed!Next, Feed!Start, Feed!Stop
<1>2. ASSUME NEW t \in Tasks, Coroutine(t) PROVE [Feed!Next]_Feed!vars
  <2>1. Streaming' = Streaming
    BY <1>2 DEF Coroutine, Connect, LoopHead, Receive, Reconcile, HandlingFails,
                ConnectionLost, WakeUp, Interrupted, callVars, Streaming
  <2>2. CASE inHand' = inHand
    BY <2>1, <2>2 DEF Feed!vars
  <2>3. CASE Receive(t) /\ inHand' # inHand
    <3>1. Current(t) /\ state[t] = "receiving" /\ LoopFree /\ inHand' \in SUBSET Symbols
      BY <2>3 DEF Receive
    <3>2. Streaming
      BY <3>1 DEF Fenced, Spawned
    <3>3. inHand = {}
      BY <3>1 DEF TypeOK, MessageInHand
    <3> QED BY <2>1, <3>1, <3>2, <3>3 DEF Feed!Next, Feed!Receive
  <2>4. CASE Reconcile(t)
    BY <2>1, <2>4 DEF Reconcile, Feed!Next, Feed!Apply
  <2>5. CASE HandlingFails(t)
    BY <2>1, <2>5 DEF HandlingFails, Feed!Next, Feed!Drop
  <2> QED BY <1>2, <2>2, <2>3, <2>4, <2>5
          DEF Coroutine, Connect, LoopHead, ConnectionLost, WakeUp, Interrupted
<1>3. CASE UNCHANGED vars
  BY <1>3 DEF vars, callVars, taskVars, Feed!vars, Streaming
<1> QED BY <1>1, <1>2, <1>3 DEF Next

(* BUG-094's fences suffice: however start(), stop() and the event loop    *)
(* interleave, a message is taken only by the coroutine of a started       *)
(* stream, and only the message in hand outlives a stop().                 *)
THEOREM StreamImplementsAccountFeed == Spec => ImplementsAccountFeed
<1>1. Init => Fenced
  BY DEF Init, Fenced, Spawned
<1>2. Init => Feed!Init
  BY DEF Init, Feed!Init, Streaming
<1>3. Spec => [](TypeOK /\ Fenced)
  BY <1>1, InitTypes, StepTypes, StepFenced, PTL DEF Spec
<1> QED BY <1>2, <1>3, StepFeed, PTL DEF Spec, ImplementsAccountFeed, Feed!Spec
=============================================================================
