-------------------------- MODULE LiveStreamService --------------------------
(***************************************************************************)
(* BinanceWebsocketService: one websocket for the keys of all its owners,  *)
(* whose coroutine is replaced whenever the set of keys changes.           *)
(*                                                                         *)
(* subscribe, release_owner and stop_all run under a lock, on whatever     *)
(* thread calls them; the coroutines run on the event loop.  Klines change *)
(* nothing here: StrategySession has what becomes of them.                 *)
(***************************************************************************)
EXTENDS Integers, FiniteSets

CONSTANTS
  Owners,        \* the screens
  Symbols, Intervals,
  MaxStreams     \* bound: coroutines alive at once

ASSUME StreamsAssumption == MaxStreams \in Nat

Keys == Symbols \X Intervals

Streams == 1 .. MaxStreams

None == 0

VARIABLES
  subscriptions,  \* subscriptions[o]: the keys owner o holds
  activeKeys,     \* _active_keys
  handle,         \* _task_handle: the coroutine in charge
  running,        \* coroutines that have not ended
  carried,        \* carried[t]: the keys it was spawned with
  cancelled       \* coroutines whose token and handle were cancelled in time

serviceVars == <<subscriptions, activeKeys, handle, running, carried, cancelled>>

ServiceInit ==
  /\ subscriptions = [o \in Owners |-> {}]
  /\ activeKeys = {}
  /\ handle = None
  /\ running = {}
  /\ carried = [t \in Streams |-> {}]
  /\ cancelled = {}

Held(subs) == UNION {subs[o] : o \in Owners}

-----------------------------------------------------------------------------
(* The rest of _apply_active_set_locked, for another set of keys.          *)
Replace(desired) ==
  /\ cancelled' = cancelled \cup ({handle} \cap running)
  /\ IF desired = {}
     THEN handle' = None /\ UNCHANGED <<running, carried>>
     ELSE \E t \in Streams :
            /\ t \notin running \cup {handle}
            /\ \A s \in 1 .. t - 1 : s \in running \cup {handle}
            /\ handle' = t
            /\ running' = running \cup {t}
            /\ carried' = [carried EXCEPT ![t] = desired]

(* Mutant: a running coroutine is kept while anybody still listens.        *)
KeepRunning(subs) ==
  /\ subscriptions' = subs
  /\ activeKeys' = Held(subs)
  /\ IF Held(subs) = activeKeys \/ (handle # None /\ Held(subs) # {})
     THEN UNCHANGED <<handle, running, carried, cancelled>>
     ELSE Replace(Held(subs))

(* The registry changes; the coroutine only if the set of keys does.       *)
Apply(subs) ==
  /\ subscriptions' = subs
  /\ activeKeys' = Held(subs)
  /\ IF Held(subs) = activeKeys
     THEN UNCHANGED <<handle, running, carried, cancelled>>
     ELSE Replace(Held(subs))

(* subscribe replaces whatever the owner held.                             *)
Subscribe(owner, key) == Apply([subscriptions EXCEPT ![owner] = {key}])

(* release_owner, which applies nothing when the owner holds no key.       *)
Release(owner) == Apply([subscriptions EXCEPT ![owner] = {}])

StopAll == Apply([o \in Owners |-> {}])

-----------------------------------------------------------------------------
(* _run_stream creates its client, listens, and after an OSError waits and *)
(* connects again; any of these ends once it is cancelled. *)

(* Any other exception, of the client's creation too, ends the coroutine;  *)
(* its handle and its keys stay.                                           *)
Die(t) ==
  /\ t \in running \ cancelled
  /\ running' = running \ {t}
  /\ UNCHANGED <<subscriptions, activeKeys, handle, carried, cancelled>>

(* CancelledError at the await, or the token seen.                         *)
EndCancelled(t) ==
  /\ t \in cancelled
  /\ running' = running \ {t}
  /\ cancelled' = cancelled \ {t}
  /\ UNCHANGED <<subscriptions, activeKeys, handle, carried>>

-----------------------------------------------------------------------------
ServiceTypeOK ==
  /\ subscriptions \in [Owners -> SUBSET Keys]
  /\ activeKeys \subseteq Keys
  /\ handle \in Streams \cup {None}
  /\ running \subseteq Streams
  /\ carried \in [Streams -> SUBSET Keys]
  /\ cancelled \subseteq Streams

(* There is one websocket at most that was not told to end, and it carries *)
(* exactly the keys some screen holds: a release never takes a key from    *)
(* another owner's screen nor leaves one nobody wants, however the calls   *)
(* of several threads follow each other (BOT-126).  One that died by an    *)
(* exception is not replaced, so there may be none.                        *)
StreamCarriesSubscriptions ==
  /\ \A t \in running \ cancelled : t = handle /\ carried[t] = Held(subscriptions)
  /\ handle = None <=> Held(subscriptions) = {}
=============================================================================
