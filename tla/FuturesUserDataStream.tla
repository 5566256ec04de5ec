------------------------ MODULE FuturesUserDataStream ------------------------
(***************************************************************************)
(* The account feed as FuturesUserDataStream implements it: start() and    *)
(* stop() are called on a thread of the pool, statement by statement, while*)
(* the coroutines they spawn and cancel run on the event loop.  A coroutine*)
(* is fenced by its cancellation token and by the generation it captured.  *)
(*                                                                         *)
(* Message handling blocks the loop: no other coroutine runs meanwhile.    *)
(* Calls of start() and stop() follow one another here; overlapping calls  *)
(* are not modelled.                                                       *)
(***************************************************************************)
EXTENDS Integers, FiniteSets

CONSTANTS
  Symbols,      \* symbols an ACCOUNT_UPDATE may name
  MaxTasks      \* bound: coroutines spawned

ASSUME TasksAssumption == MaxTasks \in Nat

Tasks == 1 .. MaxTasks

(* No task handle, no token.  The token of a coroutine is named after it.  *)
None == 0

VARIABLES
  generation,   \* _generation
  handle,       \* _task_handle
  token,        \* _token
  pc,           \* the next statement of the start() or stop() being called
  state,        \* state[t]: where coroutine t is
  captured,     \* captured[t]: the generation it was spawned with
  cancelled,    \* tokens cancelled
  interrupted,  \* coroutines whose handle was cancelled
  inHand        \* symbols of the message in hand still to be reconciled

callVars == <<generation, handle, token, pc>>
taskVars == <<state, captured, inHand>>
cancelVars == <<cancelled, interrupted>>
vars == <<callVars, taskVars, cancelVars>>

Init ==
  /\ generation = 0
  /\ handle = None
  /\ token = None
  /\ pc = "idle"
  /\ state = [t \in Tasks |-> "unused"]
  /\ captured = [t \in Tasks |-> 0]
  /\ cancelled = {}
  /\ interrupted = {}
  /\ inHand = {}

Unused == { t \in Tasks : state[t] = "unused" }

-----------------------------------------------------------------------------
(* start(): refused while there is a handle. *)

NewToken ==
  /\ pc = "idle"
  /\ handle = None
  /\ \E t \in Unused :
       /\ \A u \in Unused : t <= u
       /\ token' = t
  /\ pc' = "newGeneration"
  /\ UNCHANGED <<generation, handle, taskVars, cancelVars>>

StartGeneration ==
  /\ pc = "newGeneration"
  /\ generation' = generation + 1
  /\ pc' = "spawn"
  /\ UNCHANGED <<handle, token, taskVars, cancelVars>>

(* The coroutine may run before its handle is kept. *)
Spawn ==
  /\ pc = "spawn"
  /\ state' = [state EXCEPT ![token] = "spawned"]
  /\ captured' = [captured EXCEPT ![token] = generation]
  /\ pc' = "keepHandle"
  /\ UNCHANGED <<generation, handle, token, inHand, cancelVars>>

KeepHandle ==
  /\ pc = "keepHandle"
  /\ handle' = token
  /\ pc' = "idle"
  /\ UNCHANGED <<generation, token, taskVars, cancelVars>>

-----------------------------------------------------------------------------
(* stop(): refused while there is no handle. *)

StopGeneration ==
  /\ pc = "idle"
  /\ handle # None
  /\ generation' = generation + 1
  /\ pc' = "cancelToken"
  /\ UNCHANGED <<handle, token, taskVars, cancelVars>>

CancelToken ==
  /\ pc = "cancelToken"
  /\ cancelled' = cancelled \cup {token}
  /\ pc' = "cancelHandle"
  /\ UNCHANGED <<generation, handle, token, taskVars, interrupted>>

(* Mutant: the coroutine is left to notice its token by itself.            *)
HandleNotCancelled ==
  /\ pc = "cancelHandle"
  /\ pc' = "clear"
  /\ UNCHANGED <<generation, handle, token, taskVars, cancelVars>>

CancelHandle ==
  /\ pc = "cancelHandle"
  /\ interrupted' = interrupted \cup {handle}
  /\ pc' = "clear"
  /\ UNCHANGED <<generation, handle, token, taskVars, cancelled>>

ClearHandle ==
  /\ pc = "clear"
  /\ handle' = None
  /\ token' = None
  /\ pc' = "idle"
  /\ UNCHANGED <<generation, taskVars, cancelVars>>

Caller ==
  \/ NewToken \/ StartGeneration \/ Spawn \/ KeepHandle
  \/ StopGeneration \/ CancelToken \/ CancelHandle \/ ClearHandle

-----------------------------------------------------------------------------
(* _run_stream(), on the event loop. *)

Current(t) == captured[t] = generation

LoopFree == \A t \in Tasks : state[t] # "handling"

Becomes(t, new) == state' = [state EXCEPT ![t] = new]

(* Credentials resolve and the client is created; otherwise, or when the   *)
(* coroutine is cancelled first, it ends without a connection.             *)
Connect(t) ==
  /\ state[t] = "spawned"
  /\ LoopFree
  /\ \/ t \notin interrupted /\ Becomes(t, "connected")
     \/ Becomes(t, "ended")
  /\ UNCHANGED <<callVars, captured, inHand, cancelVars>>

(* The head of either while loop.  Connecting the socket may raise OSError.*)
LoopHead(t) ==
  /\ state[t] = "connected"
  /\ LoopFree
  /\ IF t \in cancelled \/ ~Current(t)
       THEN Becomes(t, "ended")
       ELSE Becomes(t, "receiving") \/ Becomes(t, "sleeping")
  /\ UNCHANGED <<callVars, captured, inHand, cancelVars>>

(* Mutant: the generation is not checked again after recv() (BUG-094).     *)
ReceiveUnfenced(t) ==
  /\ state[t] = "receiving"
  /\ LoopFree
  /\ \E symbols \in SUBSET Symbols :
       inHand' = symbols /\ Becomes(t, IF symbols # {} THEN "handling" ELSE "connected")
  /\ UNCHANGED <<callVars, captured, cancelVars>>

(* recv() returns a message: it is handled when the generation is still    *)
(* the captured one.  The token is not looked at again.  A message without *)
(* symbols (an ORDER_TRADE_UPDATE, a balance) changes no position.         *)
Receive(t) ==
  /\ state[t] = "receiving"
  /\ LoopFree
  /\ \E symbols \in SUBSET Symbols :
       IF symbols # {} /\ Current(t)
         THEN inHand' = symbols /\ Becomes(t, "handling")
         ELSE UNCHANGED inHand /\ Becomes(t, "connected")
  /\ UNCHANGED <<callVars, captured, cancelVars>>

(* get_positions(symbol) answers and reconcile_position_state is told.     *)
Reconcile(t) ==
  /\ state[t] = "handling"
  /\ \E s \in inHand : inHand' = inHand \ {s}
  /\ Becomes(t, IF inHand' = {} THEN "connected" ELSE "handling")
  /\ UNCHANGED <<callVars, captured, cancelVars>>

(* Mutant: the rest of the message is still in hand.                       *)
HandlingFailsKeepsMessage(t) ==
  /\ state[t] = "handling"
  /\ UNCHANGED inHand
  /\ \/ t \notin cancelled /\ Becomes(t, "sleeping")
     \/ t \in cancelled /\ Becomes(t, "connected")
     \/ Becomes(t, "ended")
  /\ UNCHANGED <<callVars, captured, cancelVars>>

(* get_positions raises: a lost connection (OSError) reconnects, any other *)
(* exception ends the coroutine, whose handle stays.                       *)
HandlingFails(t) ==
  /\ state[t] = "handling"
  /\ inHand' = {}
  /\ \/ t \notin cancelled /\ Becomes(t, "sleeping")
     \/ t \in cancelled /\ Becomes(t, "connected")
     \/ Becomes(t, "ended")
  /\ UNCHANGED <<callVars, captured, cancelVars>>

(* recv() raises OSError or ReadLoopClosed: five seconds, then again.      *)
ConnectionLost(t) ==
  /\ state[t] = "receiving"
  /\ LoopFree
  /\ Becomes(t, IF t \in cancelled THEN "connected" ELSE "sleeping")
  /\ UNCHANGED <<callVars, captured, inHand, cancelVars>>

WakeUp(t) ==
  /\ state[t] = "sleeping"
  /\ LoopFree
  /\ Becomes(t, "connected")
  /\ UNCHANGED <<callVars, captured, inHand, cancelVars>>

(* The cancelled handle raises CancelledError at the await it is suspended *)
(* at; the client is closed on the way out.                                *)
Interrupted(t) ==
  /\ state[t] \in {"receiving", "sleeping"}
  /\ t \in interrupted
  /\ LoopFree
  /\ Becomes(t, "ended")
  /\ UNCHANGED <<callVars, captured, inHand, cancelVars>>

Coroutine(t) ==
  \/ Connect(t) \/ LoopHead(t) \/ Receive(t) \/ Reconcile(t) \/ HandlingFails(t)
  \/ ConnectionLost(t) \/ WakeUp(t) \/ Interrupted(t)

Next == Caller \/ \E t \in Tasks : Coroutine(t)

Spec == Init /\ [][Next]_vars

(* A call of stop() runs on.  The loop's ready queue is first in, first    *)
(* out, so a coroutine that is ready gets its turn between the messages of *)
(* the others; only a recv() may wait for ever.                            *)
FairSpec ==
  /\ Spec
  /\ WF_vars(CancelToken \/ CancelHandle \/ ClearHandle)
  /\ \A t \in Tasks :
       /\ WF_vars(Reconcile(t) \/ HandlingFails(t))
       /\ SF_vars(Connect(t))
       /\ SF_vars(LoopHead(t))
       /\ SF_vars(WakeUp(t))
       /\ SF_vars(Interrupted(t))

-----------------------------------------------------------------------------
(* Properties. *)

States == {"unused", "spawned", "connected", "receiving", "handling", "sleeping", "ended"}

CallTypeOK ==
  /\ generation \in Nat
  /\ handle \in Tasks \cup {None}
  /\ token \in Tasks \cup {None}
  /\ pc \in {"idle", "newGeneration", "spawn", "keepHandle",
             "cancelToken", "cancelHandle", "clear"}
  /\ pc \in {"newGeneration", "spawn"} => token \in Unused
  /\ pc = "keepHandle" => token \in Tasks

TaskTypeOK ==
  /\ state \in [Tasks -> States]
  /\ captured \in [Tasks -> Nat]
  /\ cancelled \subseteq Tasks \cup {None}
  /\ interrupted \subseteq Tasks \cup {None}

(* A message is in hand exactly while a coroutine handles it, and one      *)
(* coroutine at a time does.                                               *)
MessageInHand ==
  /\ inHand \subseteq Symbols
  /\ inHand # {} <=> ~LoopFree
  /\ \A t, u \in Tasks : state[t] = "handling" /\ state[u] = "handling" => t = u

(* The types of the variables, which depend on how far the call has come.  *)
TypeOK == CallTypeOK /\ TaskTypeOK /\ MessageInHand

(* Started as its callers see it, from the moment the coroutine exists to  *)
(* the moment stop() fences it.                                            *)
Streaming ==
  \/ pc = "keepHandle"
  \/ handle # None /\ pc = "idle"

(* The stream takes a message only while it is started, and only the       *)
(* message in hand outlives a stop(): the fences of BUG-094 make the       *)
(* coroutines implement the feed LiveTrading relies on.                    *)
Feed == INSTANCE AccountFeed WITH streaming <- Streaming

ImplementsAccountFeed == Feed!Spec

(* A coroutine that has been superseded comes to its end, and with it its  *)
(* connection, even when no message ever arrives on it again.              *)
SupersededEnds ==
  \A t \in Tasks :
    state[t] # "unused" /\ ~Current(t) ~> state[t] = "ended"
=============================================================================
