--------------------------- MODULE MarketDataProofs ---------------------------
(***************************************************************************)
(* The market data, and the screens over it.  First, of MarketDataSync:    *)
(* one download per market, no candle that closed is overwritten by a copy *)
(* taken before it did, and a resumed sync skips nothing, for every number *)
(* of workers, markets, candles, page sizes and retries, and whatever      *)
(* screens ask for.  Then, of MarketData: the handlers under the screens   *)
(* run as MarketDataSync says, each screen is freed by the work it waits   *)
(* for, and the two ways to judge a range of candles agree.                *)
(***************************************************************************)
EXTENDS MarketData, FiniteSetTheorems, SequenceTheorems, WellFoundedInduction, TLAPS

-----------------------------------------------------------------------------
(* Times and pages. *)

(* The newest of some candles is one of them and no other is newer. *)
LEMMA MaxIsNewest ==
  ASSUME NEW S \in SUBSET Times, S # {}
  PROVE  Max(S) \in S /\ \A t \in S : t <= Max(S)
<1> DEFINE Left == {MaxTime - t : t \in S}
           Less == OpToRel(<, Nat)
<1>1. Left \subseteq Nat
  <2>1. \A t \in S : MaxTime - t \in Nat
    BY TimeAssumption DEF Times
  <2> QED BY <2>1
<1>2. Left # {}
  OBVIOUS
<1>3. IsWellFoundedOn(Less, Nat)
  BY NatLessThanWellFounded
<1>4. \A i, j \in Nat : i < j => <<i, j>> \in Less
  BY DEF OpToRel
<1> HIDE DEF Less
<1>5. \E x \in Left : \A y \in Left : ~ (<<y, x>> \in Less)
  BY <1>1, <1>2, <1>3, WFMin
<1>6. PICK u \in S : \A t \in S : ~ (<<MaxTime - t, MaxTime - u>> \in Less)
  BY <1>5
<1>7. \A t \in S : u >= t
  <2>1. \A t \in S : MaxTime - t \in Nat /\ t \in Int
    BY TimeAssumption DEF Times
  <2>2. \A t \in S : ~ (MaxTime - t < MaxTime - u)
    BY <1>4, <1>6, <2>1
  <2> QED BY <2>1, <2>2, TimeAssumption DEF Times
<1> QED BY <1>7 DEF Max, Times

(* A page has a size, and its candles are candles of the exchange. *)
LEMMA PageIsFinite ==
  ASSUME now \in Times, NEW from \in Nat, NEW to \in Nat
  PROVE  /\ Cardinality(PageOf(from, to)) \in Nat
         /\ from >= 1 => PageOf(from, to) \subseteq 1 .. now
         /\ \A t \in PageOf(from, to) : to # NoTime => t <= to
<1>1. IsFiniteSet(from .. now)
  BY FS_Interval, TimeAssumption DEF Times
<1>2. PageOf(from, to) \in SUBSET (from .. now)
  BY DEF PageOf
<1>3. IsFiniteSet(PageOf(from, to))
  BY <1>1, <1>2, FS_Subset
<1>4. Cardinality(PageOf(from, to)) \in Nat
  BY <1>3, FS_CardinalityType
<1> QED BY <1>4, TimeAssumption DEF PageOf, Times, NoTime

-----------------------------------------------------------------------------
(* Types: what a busy worker relies on besides is part of the induction.   *)

CallsAndStreams ==
  \A w \in Workers :
    /\ stage[w] # "idle" => call[w].market \in Markets
    /\ stage[w] \in {"page", "save"} => stream[w].next >= 1

TypeInv == SyncTypeOK /\ CallsAndStreams

LEMMA InitTypes == SyncInit => TypeInv
<1> SUFFICES ASSUME SyncInit PROVE TypeInv
  OBVIOUS
<1>1. now \in Times /\ 1 .. now \subseteq Times
  BY TimeAssumption DEF SyncInit, Times
<1>2. NoCall \in Calls /\ NoStream \in Streams
  BY DEF NoCall, NoStream, Calls, Streams, Chunks, Nothing, NoTime
<1> QED BY <1>1, <1>2 DEF SyncInit, TypeInv, SyncTypeOK, CallsAndStreams, Stages, Outcomes

(* Listing the gaps of a market, and what a listed gap is. *)
LEMMA ListGapsTypes ==
  ASSUME TypeInv, NEW m \in Markets
  PROVE  Gaps(m) \subseteq [start : Times, end : Times]
BY DEF TypeInv, SyncTypeOK, Gaps

(* The steps by which a screen begins, cancels and collects. *)
LEMMA RequestTypes ==
  ASSUME TypeInv, NEW w \in Workers, NEW m \in Markets, NEW from \in Nat, NEW to \in Nat,
         NEW halted \in BOOLEAN, Request(w, m, from, to, halted), UNCHANGED storeVars
  PROVE  TypeInv'
<1> USE DEF TypeInv, SyncTypeOK, CallsAndStreams, Request, storeVars
<1>1. [NoCall EXCEPT !.market = m, !.from = from, !.to = to] \in Calls
  BY DEF NoCall, Calls, NoTime
<1>2. call' \in [Workers -> Calls] /\ call'[w].market = m
  BY <1>1 DEF NoCall
<1>3. stage' \in [Workers -> Stages]
  BY DEF Stages
<1>4. cancelled' \subseteq Workers
  OBVIOUS
<1>5. CallsAndStreams'
  BY <1>2
<1> QED BY <1>2, <1>3, <1>4, <1>5

LEMMA RequestRepairTypes ==
  ASSUME TypeInv, NEW w \in Workers, NEW m \in Markets, NEW g,
         NEW halted \in BOOLEAN, RequestRepair(w, m, g, halted), UNCHANGED storeVars
  PROVE  TypeInv'
<1> USE DEF TypeInv, SyncTypeOK, CallsAndStreams, RequestRepair, storeVars
<1>1. /\ FetchStart(g) \in Nat /\ FetchStart(g) >= 1
      /\ FetchEnd(g) \in Nat
  BY TimeAssumption DEF FetchStart, FetchEnd, Times
<1>2. [NoCall EXCEPT !.market = m, !.from = FetchStart(g), !.to = FetchEnd(g)] \in Calls
  BY <1>1 DEF NoCall, Calls, NoTime
<1>3. call' \in [Workers -> Calls] /\ call'[w].market = m
  BY <1>2 DEF NoCall
<1>4. stage' \in [Workers -> Stages]
  BY DEF Stages
<1>5. stream' \in [Workers -> Streams] /\ stream'[w].next = FetchStart(g)
  BY <1>1 DEF Streams
<1>6. cancelled' \subseteq Workers
  OBVIOUS
<1>7. CallsAndStreams'
  BY <1>1, <1>3, <1>5
<1> QED BY <1>3, <1>4, <1>5, <1>6, <1>7

LEMMA CollectTypes ==
  ASSUME TypeInv, NEW w \in Workers, Collect(w), UNCHANGED storeVars
  PROVE  TypeInv'
<1> USE DEF TypeInv, SyncTypeOK, CallsAndStreams, Collect, storeVars
<1>1. NoCall \in Calls /\ NoStream \in Streams
  BY DEF NoCall, NoStream, Calls, Streams, Chunks, Nothing, NoTime
<1>2. call' \in [Workers -> Calls] /\ stream' \in [Workers -> Streams]
  BY <1>1
<1>3. stage' \in [Workers -> Stages] /\ outcome' \in [Workers -> Outcomes]
  BY DEF Stages, Outcomes
<1>4. CallsAndStreams'
  OBVIOUS
<1> QED BY <1>2, <1>3, <1>4

-----------------------------------------------------------------------------
(* The steps of a handler preserve the types. *)

LEMMA EndsWithTypes ==
  ASSUME TypeInv, NEW w \in Workers, NEW how \in Outcomes, EndsWith(w, how)
  PROVE  /\ stage' \in [Workers -> Stages] /\ outcome' \in [Workers -> Outcomes]
         /\ stage'[w] \in {"release", "done"}
         /\ \A v \in Workers \ {w} : stage'[v] = stage[v]
BY DEF TypeInv, SyncTypeOK, EndsWith, Stages

LEMMA GuardTypes ==
  ASSUME TypeInv, NEW w \in Workers, Acquire(w) \/ Release(w)
  PROVE  TypeInv'
<1> USE DEF TypeInv, SyncTypeOK, CallsAndStreams, storeVars
<1>1. call[w].market \in Markets
  BY DEF Acquire, Release
<1>2. CASE Acquire(w)
  <2>1. inFlight' \subseteq Markets
    BY <1>1, <1>2 DEF Acquire
  <2>2. stage' \in [Workers -> Stages] /\ outcome' \in [Workers -> Outcomes]
    BY <1>2 DEF Acquire, Stages, Outcomes
  <2>3. CallsAndStreams'
    BY <1>2 DEF Acquire
  <2> QED BY <1>2, <2>1, <2>2, <2>3 DEF Acquire
<1>3. CASE Release(w)
  <2>1. stage' \in [Workers -> Stages] /\ CallsAndStreams'
    BY <1>3 DEF Release, Stages
  <2> QED BY <1>3, <2>1 DEF Release
<1> QED BY <1>2, <1>3

(* Where a sync starts. *)
LEMMA LatestTimes ==
  ASSUME TypeInv, NEW m \in Markets
  PROVE  /\ LatestKlineTime(m) \in Nat
         /\ rows[m] # {} => LatestKlineTime(m) \in rows[m]
         /\ LatestStart(m) \in Nat /\ LatestStart(m) >= 1
<1>1. rows[m] \in SUBSET Times /\ now \in Times
  BY DEF TypeInv, SyncTypeOK
<1>2. rows[m] # {} => Max(rows[m]) \in rows[m]
  BY <1>1, MaxIsNewest
<1>3. /\ LatestKlineTime(m) \in Nat
      /\ rows[m] # {} => LatestKlineTime(m) \in rows[m] /\ LatestKlineTime(m) >= 1
  BY <1>1, <1>2, TimeAssumption DEF LatestKlineTime, Times, NoTime
<1>4. LaterOf(1, now - DaysBack) \in Nat /\ LaterOf(1, now - DaysBack) >= 1
  BY <1>1, TimeAssumption, SyncAssumption DEF LaterOf, Times
<1> QED BY <1>3, <1>4 DEF LatestStart, LatestKlineTime, NoTime

LEMMA DetermineStartTypes ==
  ASSUME TypeInv, NEW w \in Workers, DetermineStart(w)
  PROVE  TypeInv'
<1> USE DEF TypeInv, SyncTypeOK, CallsAndStreams
<1> DEFINE m == call[w].market
           start == IF call[w].from # NoTime THEN call[w].from ELSE LatestStart(m)
           tip == IF call[w].from # NoTime THEN NoTime ELSE LatestKlineTime(m)
<1>1. m \in Markets /\ call[w] \in Calls /\ now \in Nat
  BY TimeAssumption DEF DetermineStart, Times
<1>2. start \in Nat /\ start >= 1 /\ tip \in Nat
  BY <1>1, LatestTimes DEF NoTime, Calls
<1>3. /\ call' = [call EXCEPT ![w].tip = tip, ![w].asked = now]
      /\ stream' = [stream EXCEPT ![w].next = start]
      /\ stage' = [stage EXCEPT ![w] = "page"]
      /\ UNCHANGED <<storeVars, inFlight, outcome, cancelled, listed>>
  BY DEF DetermineStart
<1> HIDE DEF m, start, tip
<1>4. call' \in [Workers -> Calls] /\ \A v \in Workers : call'[v].market = call[v].market
  BY <1>1, <1>2, <1>3 DEF Calls
<1>5. stream' \in [Workers -> Streams] /\ stream'[w].next = start
  BY <1>2, <1>3 DEF Streams
<1>6. \A v \in Workers \ {w} : stream'[v] = stream[v] /\ stage'[v] = stage[v]
  BY <1>3
<1>7. stage' \in [Workers -> Stages] /\ stage[w] = "start"
  BY <1>3 DEF Stages, DetermineStart
<1>8. CallsAndStreams'
  BY <1>2, <1>4, <1>5, <1>6, <1>7
<1> QED BY <1>3, <1>4, <1>5, <1>7, <1>8 DEF storeVars

LEMMA EndingTypes ==
  ASSUME TypeInv, NEW w \in Workers, Abandon(w) \/ Failure(w)
  PROVE  TypeInv'
<1>1. PICK how \in Outcomes : EndsWith(w, how)
  BY DEF Abandon, Failure, Outcomes
<1>2. /\ stage[w] # "idle"
      /\ UNCHANGED <<storeVars, inFlight, call, stream, cancelled, listed>>
  BY DEF Abandon, Failure
<1>3. CallsAndStreams'
  BY <1>1, <1>2, EndsWithTypes DEF TypeInv, CallsAndStreams
<1> QED BY <1>1, <1>2, <1>3, EndsWithTypes DEF TypeInv, SyncTypeOK, storeVars

LEMMA TransientFailureTypes ==
  ASSUME TypeInv, NEW w \in Workers, TransientFailure(w)
  PROVE  TypeInv'
<1> USE DEF TypeInv, SyncTypeOK, CallsAndStreams, TransientFailure, storeVars
<1>1. CASE stream[w].failures = MaxRetries
  <2>1. "failed" \in Outcomes /\ EndsWith(w, "failed")
    BY <1>1 DEF Outcomes
  <2>2. CallsAndStreams'
    BY <1>1, <2>1, EndsWithTypes
  <2> QED BY <1>1, <2>1, <2>2, EndsWithTypes
<1>2. CASE stream[w].failures # MaxRetries
  <2> DEFINE retried == [stream[w] EXCEPT !.failures = stream[w].failures + 1]
  <2>1. retried \in Streams /\ retried.next = stream[w].next
    BY DEF Streams
  <2>2. stream' = [stream EXCEPT ![w] = retried]
    BY <1>2
  <2> HIDE DEF retried
  <2>3. /\ stream' \in [Workers -> Streams]
        /\ \A v \in Workers : stream'[v].next = stream[v].next
    BY <2>1, <2>2
  <2> QED BY <1>2, <2>3
<1> QED BY <1>1, <1>2

(* The stream after a page: where it goes on and what it has gathered. *)
LEMMA ReceivePageStream ==
  ASSUME TypeInv, NEW w \in Workers, ReceivePage(w)
  PROVE  /\ stream[w].next >= 1 /\ call[w].market \in Markets
         /\ \/ /\ EndsWith(w, "synced")
               /\ stream' = stream
            \/ /\ \E received \in Streams :
                    /\ stream' = [stream EXCEPT ![w] = received]
                    /\ received.next >= 1
                    /\ LET page == PageOf(stream[w].next, call[w].to)
                           buffer == IF w \in SyncWorkers THEN Nothing ELSE stream[w].chunk
                       IN  received.chunk =
                             [rows |-> buffer.rows \cup page,
                              stale |-> buffer.stale \cup (page \cap {now})]
               /\ \E next \in {"page", "save"} :
                    /\ stage' = [stage EXCEPT ![w] = next]
                    /\ w \in SyncWorkers => next = "save"
               /\ UNCHANGED outcome
<1> DEFINE page == PageOf(stream[w].next, call[w].to)
           more == Cardinality(page) = PageSize
           buffer == IF w \in SyncWorkers THEN Nothing ELSE stream[w].chunk
           received == [next |-> stream[w].next + Cardinality(page),
                        chunk |-> [rows |-> buffer.rows \cup page,
                                   stale |-> buffer.stale \cup (page \cap {now})],
                        more |-> more,
                        failures |-> 0]
           next == IF more /\ w \in RepairWorkers THEN "page" ELSE "save"
<1>1. stream[w] \in Streams /\ call[w] \in Calls /\ now \in Times
  BY DEF TypeInv, SyncTypeOK
<1>2. stream[w].next >= 1 /\ call[w].market \in Markets
  BY DEF TypeInv, CallsAndStreams, ReceivePage
<1>3. stream[w].next \in Nat /\ call[w].to \in Nat /\ stream[w].chunk \in Chunks
  BY <1>1 DEF Streams, Calls
<1>4. Cardinality(page) \in Nat /\ page \subseteq 1 .. now
  BY <1>1, <1>2, <1>3, PageIsFinite
<1>5. page \subseteq Times
  BY <1>1, <1>4, TimeAssumption DEF Times
<1>6. buffer \in Chunks
  BY <1>3 DEF Chunks, Nothing
<1>7. IF page = {} /\ buffer = Nothing
      THEN EndsWith(w, "synced") /\ UNCHANGED stream
      ELSE /\ stream' = [stream EXCEPT ![w] = received]
           /\ stage' = [stage EXCEPT ![w] = next]
           /\ UNCHANGED outcome
  BY DEF ReceivePage
<1>8. w \in SyncWorkers => next = "save"
  BY SyncAssumption
<1>9. next \in {"page", "save"}
  OBVIOUS
<1> HIDE DEF page
<1>10. received.chunk \in Chunks
  BY <1>5, <1>6 DEF Chunks
<1> HIDE DEF buffer
<1>11. more \in BOOLEAN /\ received.next \in Nat /\ received.next >= 1
  BY <1>2, <1>3, <1>4
<1>12. received \in Streams
  BY <1>10, <1>11 DEF Streams
<1> HIDE DEF received, next
<1> QED BY <1>2, <1>7, <1>8, <1>9, <1>11, <1>12 DEF received, page, buffer

LEMMA ReceivePageTypes ==
  ASSUME TypeInv, NEW w \in Workers, ReceivePage(w)
  PROVE  TypeInv'
<1>1. UNCHANGED <<storeVars, inFlight, call, cancelled, listed>> /\ stage[w] = "page"
  BY DEF ReceivePage
<1>2. "synced" \in Outcomes
  BY DEF Outcomes
<1>3. /\ stream' \in [Workers -> Streams]
      /\ \A v \in Workers : stage'[v] \in {"page", "save"} => stream'[v].next >= 1
  <2>1. CASE EndsWith(w, "synced") /\ stream' = stream
    BY <2>1, <1>2, EndsWithTypes DEF TypeInv, SyncTypeOK, CallsAndStreams
  <2>2. ASSUME NEW received \in Streams, NEW next \in {"page", "save"},
               stream' = [stream EXCEPT ![w] = received], received.next >= 1,
               stage' = [stage EXCEPT ![w] = next]
        PROVE  /\ stream' \in [Workers -> Streams]
               /\ \A v \in Workers : stage'[v] \in {"page", "save"} => stream'[v].next >= 1
    BY <2>2 DEF TypeInv, SyncTypeOK, CallsAndStreams
  <2> QED BY <2>1, <2>2, ReceivePageStream
<1>4. stage' \in [Workers -> Stages] /\ outcome' \in [Workers -> Outcomes]
  BY ReceivePageStream, <1>2, EndsWithTypes DEF TypeInv, SyncTypeOK, Stages
<1>5. \A v \in Workers : stage'[v] # "idle" => call'[v].market \in Markets
  <2>1. \A v \in Workers \ {w} : stage'[v] = stage[v]
    <3>1. EndsWith(w, "synced") \/ \E next : stage' = [stage EXCEPT ![w] = next]
      BY ReceivePageStream
    <3> QED BY <3>1, <1>2, EndsWithTypes DEF TypeInv, SyncTypeOK
  <2> QED BY <1>1, <2>1, ReceivePageStream DEF TypeInv, CallsAndStreams
<1> QED BY <1>1, <1>3, <1>4, <1>5 DEF TypeInv, SyncTypeOK, CallsAndStreams, storeVars

LEMMA SaveChunkTypes ==
  ASSUME TypeInv, NEW w \in Workers, SaveChunk(w)
  PROVE  TypeInv'
<1> USE DEF TypeInv, SyncTypeOK, CallsAndStreams, SaveChunk
<1> DEFINE m == call[w].market
           chunk == stream[w].chunk
<1>1. m \in Markets /\ chunk \in Chunks
  BY DEF Streams
<1>2. shards' \subseteq Symbols
  BY <1>1 DEF SaveKlines, Markets, SymbolOf
<1>3. /\ rows' \in [Markets -> SUBSET Times]
      /\ stale' \in [Markets -> SUBSET Times]
  <2>1. chunk.rows \subseteq Times /\ chunk.stale \subseteq Times
    BY <1>1 DEF Chunks
  <2>2. /\ rows' = [rows EXCEPT ![m] = rows[m] \cup chunk.rows]
        /\ stale' = [stale EXCEPT ![m] = (stale[m] \ chunk.rows) \cup chunk.stale]
    BY DEF SaveKlines
  <2> HIDE DEF m, chunk
  <2> QED BY <1>1, <2>1, <2>2
<1>4. /\ stream' \in [Workers -> Streams]
      /\ \A v \in Workers : stream'[v].next = stream[v].next
  BY DEF Streams, Chunks, Nothing
<1>5. "synced" \in Outcomes
  BY DEF Outcomes
<1>6. \/ stage' = [stage EXCEPT ![w] = "page"] /\ UNCHANGED outcome
      \/ EndsWith(w, "synced")
  OBVIOUS
<1>7. stage' \in [Workers -> Stages] /\ outcome' \in [Workers -> Outcomes]
  BY <1>5, <1>6, EndsWithTypes DEF Stages
<1>8. CallsAndStreams'
  <2>1. \A v \in Workers \ {w} : stage'[v] = stage[v]
    BY <1>5, <1>6, EndsWithTypes
  <2>2. stage[w] = "save" /\ call' = call
    OBVIOUS
  <2> QED BY <1>4, <2>1, <2>2
<1> QED BY <1>2, <1>3, <1>4, <1>7, <1>8

-----------------------------------------------------------------------------
(* Every step preserves the types. *)

LEMMA WorkerTypes ==
  ASSUME TypeInv, NEW w \in Workers, WorkerStep(w)
  PROVE  TypeInv'
BY GuardTypes, DetermineStartTypes, ReceivePageTypes, TransientFailureTypes, EndingTypes,
   SaveChunkTypes DEF WorkerStep

(* Time, deletions and crashes do. *)
LEMMA StoreTypes ==
  ASSUME TypeInv,
         \/ Tick /\ UNCHANGED <<inFlight, workerVars>>
         \/ \E m \in Markets : ClearInterval(m) /\ UNCHANGED <<now, inFlight, workerVars>>
         \/ \E symbols \in SUBSET Symbols :
              RemoveShards(symbols) /\ UNCHANGED <<now, inFlight, workerVars>>
         \/ CrashSync
  PROVE  TypeInv'
<1> USE DEF TypeInv, SyncTypeOK, CallsAndStreams, workerVars
<1>1. CASE Tick /\ UNCHANGED <<inFlight, workerVars>>
  <2>1. now' \in Times
    BY <1>1, TimeAssumption DEF Tick, Times
  <2> QED BY <1>1, <2>1 DEF Tick
<1>2. CASE \E m \in Markets : ClearInterval(m) /\ UNCHANGED <<now, inFlight, workerVars>>
  <2>1. PICK m \in Markets : ClearInterval(m) /\ UNCHANGED <<now, inFlight, workerVars>>
    BY <1>2
  <2>2. shards' \subseteq Symbols
    BY <2>1 DEF ClearInterval, Markets, SymbolOf
  <2>3. rows' \in [Markets -> SUBSET Times] /\ stale' \in [Markets -> SUBSET Times]
    BY <2>1 DEF ClearInterval
  <2> QED BY <2>1, <2>2, <2>3
<1>3. CASE \E symbols \in SUBSET Symbols :
             RemoveShards(symbols) /\ UNCHANGED <<now, inFlight, workerVars>>
  <2>1. PICK symbols \in SUBSET Symbols :
          RemoveShards(symbols) /\ UNCHANGED <<now, inFlight, workerVars>>
    BY <1>3
  <2>2. rows' \in [Markets -> SUBSET Times] /\ stale' \in [Markets -> SUBSET Times]
    BY <2>1 DEF RemoveShards
  <2> QED BY <2>1, <2>2 DEF RemoveShards
<1>4. CASE CrashSync
  <2>1. NoCall \in Calls /\ NoStream \in Streams
    BY DEF NoCall, NoStream, Calls, Streams, Chunks, Nothing, NoTime
  <2> QED BY <1>4, <2>1 DEF CrashSync, storeVars, Stages, Outcomes
<1> QED BY <1>1, <1>2, <1>3, <1>4

LEMMA NextTypes == TypeInv /\ [SyncNext]_syncVars => TypeInv'
<1> SUFFICES ASSUME TypeInv, [SyncNext]_syncVars PROVE TypeInv'
  OBVIOUS
<1>1. CASE UNCHANGED syncVars
  BY <1>1 DEF syncVars, storeVars, workerVars, TypeInv, SyncTypeOK, CallsAndStreams
<1>2. CASE \E w \in Workers : WorkerStep(w)
  BY <1>2, WorkerTypes
<1>3. CASE \E w \in SyncWorkers, m \in Markets, t \in BOOLEAN :
             \E from, to \in Times \cup {NoTime} :
               Request(w, m, from, to, t) /\ UNCHANGED storeVars
  <2>1. PICK w \in SyncWorkers, m \in Markets, t \in BOOLEAN, from, to \in Times \cup {NoTime} :
          Request(w, m, from, to, t) /\ UNCHANGED storeVars
    BY <1>3
  <2>2. w \in Workers /\ from \in Nat /\ to \in Nat
    BY TimeAssumption DEF Workers, Times, NoTime
  <2> QED BY <2>1, <2>2, RequestTypes
<1>4. CASE \E w \in RepairWorkers, m \in Markets, t \in BOOLEAN :
             \E g \in listed[m] : RequestRepair(w, m, g, t) /\ UNCHANGED storeVars
  BY <1>4, RequestRepairTypes DEF Workers
<1>5. CASE \E m \in Markets : ListGaps(m)
             /\ UNCHANGED <<storeVars, inFlight, stage, call, stream, outcome, cancelled>>
  <2>1. PICK m \in Markets : ListGaps(m)
          /\ UNCHANGED <<storeVars, inFlight, stage, call, stream, outcome, cancelled>>
    BY <1>5
  <2>2. listed' \in [Markets -> SUBSET [start : Times, end : Times]]
    BY <2>1, ListGapsTypes DEF ListGaps, TypeInv, SyncTypeOK
  <2> QED BY <2>1, <2>2 DEF TypeInv, SyncTypeOK, CallsAndStreams, storeVars
<1>6. CASE \E workers \in SUBSET Workers : CancelWorkers(workers)
             /\ UNCHANGED <<storeVars, inFlight, stage, call, stream, outcome, listed>>
  BY <1>6 DEF CancelWorkers, TypeInv, SyncTypeOK, CallsAndStreams, storeVars
<1>7. CASE \E w \in Workers : Collect(w) /\ UNCHANGED storeVars
  BY <1>7, CollectTypes
<1> QED BY <1>1, <1>2, <1>3, <1>4, <1>5, <1>6, <1>7, StoreTypes DEF SyncNext

(* The types of the handlers and of the store, for any number of workers   *)
(* and markets (SyncMarketDataCommandHandler, RepairDataGapCommandHandler).*)
THEOREM SyncTypesCorrect == SyncSpec => []SyncTypeOK
<1>1. TypeInv => SyncTypeOK
  BY DEF TypeInv
<1> QED BY <1>1, InitTypes, NextTypes, PTL DEF SyncSpec

-----------------------------------------------------------------------------
(* One download per market. *)

(* A repair never passes the stages of the guard. *)
RepairsUnguarded ==
  \A w \in RepairWorkers : stage[w] \notin {"guard", "start", "release"}

GuardInv == TypeInv /\ OneFetchPerMarket /\ RepairsUnguarded

LEMMA InitGuard == SyncInit => OneFetchPerMarket /\ RepairsUnguarded
BY DEF SyncInit, OneFetchPerMarket, Fetching, Workers, RepairsUnguarded

(* A step that leaves the guard alone and moves its workers between the    *)
(* stages that hold it, or between those that do not.                      *)
LEMMA GuardLeftAlone ==
  ASSUME OneFetchPerMarket, UNCHANGED inFlight,
         \A v \in SyncWorkers :
           /\ (stage'[v] \in {"start", "page", "save", "release"})
                <=> (stage[v] \in {"start", "page", "save", "release"})
           /\ stage[v] \in {"start", "page", "save", "release"}
                => call'[v].market = call[v].market
  PROVE  OneFetchPerMarket'
<1>1. Fetching' = Fetching
  BY DEF Fetching
<1>2. \A v \in Fetching : call'[v].market = call[v].market
  BY DEF Fetching
<1> QED BY <1>1, <1>2 DEF OneFetchPerMarket

LEMMA AcquireGuard ==
  ASSUME GuardInv, NEW w \in Workers, Acquire(w)
  PROVE  OneFetchPerMarket' /\ RepairsUnguarded'
<1> USE DEF GuardInv, TypeInv, SyncTypeOK
<1>1. w \in SyncWorkers /\ stage[w] = "guard" /\ call' = call
  BY DEF Acquire, Workers, RepairsUnguarded
<1>2. RepairsUnguarded'
  BY <1>1, SyncAssumption DEF Acquire, RepairsUnguarded, Workers
<1>3. CASE stage' = [stage EXCEPT ![w] = "done"] /\ UNCHANGED inFlight
  BY <1>1, <1>2, <1>3, GuardLeftAlone
<1>4. CASE /\ call[w].market \notin inFlight
           /\ inFlight' = inFlight \cup {call[w].market}
           /\ stage' = [stage EXCEPT ![w] = "start"]
  <2>1. Fetching' = Fetching \cup {w} /\ w \notin Fetching
    BY <1>1, <1>4 DEF Fetching, Workers
  <2>2. \A v \in Fetching : call[v].market # call[w].market
    BY <1>4 DEF OneFetchPerMarket
  <2> QED BY <1>1, <1>2, <1>4, <2>1, <2>2 DEF OneFetchPerMarket
<1> QED BY <1>3, <1>4 DEF Acquire

LEMMA ReleaseGuard ==
  ASSUME GuardInv, NEW w \in Workers, Release(w)
  PROVE  OneFetchPerMarket' /\ RepairsUnguarded'
<1> USE DEF GuardInv, TypeInv, SyncTypeOK
<1>1. w \in SyncWorkers /\ stage[w] = "release" /\ call' = call
  BY DEF Release, Workers, RepairsUnguarded
<1>2. RepairsUnguarded'
  BY <1>1, SyncAssumption DEF Release, RepairsUnguarded, Workers
<1>3. w \in Fetching /\ Fetching' = Fetching \ {w}
  BY <1>1 DEF Fetching, Release, Workers
<1>4. inFlight' = inFlight \ {call[w].market}
  BY DEF Release
<1> QED BY <1>1, <1>2, <1>3, <1>4 DEF OneFetchPerMarket

(* The stages a step of a handler moves its worker to. *)
LEMMA HandlerGuard ==
  ASSUME GuardInv, NEW w \in Workers, WorkerStep(w)
  PROVE  OneFetchPerMarket' /\ RepairsUnguarded'
<1>1. CASE Acquire(w) \/ Release(w)
  BY <1>1, AcquireGuard, ReleaseGuard
<1>2. CASE \/ DetermineStart(w) \/ ReceivePage(w) \/ TransientFailure(w)
           \/ Failure(w) \/ Abandon(w) \/ SaveChunk(w)
  <2> USE DEF GuardInv, TypeInv, SyncTypeOK
  <2>1. /\ stage[w] \in {"start", "page", "save"}
        /\ UNCHANGED inFlight
        /\ \E next \in {"page", "save", "release", "done"} :
             /\ stage' = [stage EXCEPT ![w] = next]
             /\ w \in SyncWorkers => next # "done"
             /\ w \in RepairWorkers => next # "release"
    <3>1. CASE DetermineStart(w)
      BY <3>1 DEF DetermineStart
    <3>2. CASE Failure(w) \/ Abandon(w)
      BY <3>2, SyncAssumption DEF Failure, Abandon, EndsWith
    <3>3. CASE TransientFailure(w)
      BY <3>3, SyncAssumption DEF TransientFailure, EndsWith
    <3>4. CASE ReceivePage(w)
      <4>1. EndsWith(w, "synced") \/ \E next \in {"page", "save"} : stage' = [stage EXCEPT ![w] = next]
        BY <3>4, ReceivePageStream
      <4> QED BY <3>4, <4>1, SyncAssumption DEF ReceivePage, EndsWith
    <3>5. CASE SaveChunk(w)
      BY <3>5, SyncAssumption DEF SaveChunk, EndsWith
    <3> QED BY <1>2, <3>1, <3>2, <3>3, <3>4, <3>5
  <2>2. \A v \in Workers : call'[v].market = call[v].market
    <3>1. CASE DetermineStart(w)
      BY <3>1 DEF DetermineStart, Calls
    <3>2. CASE ~ DetermineStart(w)
      BY <1>2, <3>2 DEF ReceivePage, TransientFailure, Failure, Abandon, SaveChunk
    <3> QED BY <3>1, <3>2
  <2>3. OneFetchPerMarket'
    BY <2>1, <2>2, GuardLeftAlone DEF Workers
  <2>4. RepairsUnguarded'
    BY <2>1 DEF RepairsUnguarded, Workers
  <2> QED BY <2>3, <2>4
<1> QED BY <1>1, <1>2 DEF WorkerStep

LEMMA NextGuard ==
  GuardInv /\ [SyncNext]_syncVars => OneFetchPerMarket' /\ RepairsUnguarded'
<1> SUFFICES ASSUME GuardInv, [SyncNext]_syncVars
             PROVE  OneFetchPerMarket' /\ RepairsUnguarded'
  OBVIOUS
<1> USE DEF GuardInv, TypeInv, SyncTypeOK
<1>1. CASE \E w \in Workers : WorkerStep(w)
  BY <1>1, HandlerGuard
<1>2. CASE CrashSync
  BY <1>2 DEF CrashSync, OneFetchPerMarket, Fetching, RepairsUnguarded, Workers
<1>3. CASE \E w \in SyncWorkers, m \in Markets, t \in BOOLEAN :
             \E from, to \in Times \cup {NoTime} :
               Request(w, m, from, to, t) /\ UNCHANGED storeVars
  <2>1. PICK w \in SyncWorkers, m \in Markets, t \in BOOLEAN, from, to \in Times \cup {NoTime} :
          Request(w, m, from, to, t)
    BY <1>3
  <2>2. /\ UNCHANGED inFlight /\ stage[w] = "idle"
        /\ stage' = [stage EXCEPT ![w] = "guard"]
        /\ \A v \in Workers \ {w} : call'[v] = call[v]
    BY <2>1 DEF Request
  <2> QED BY <2>2, GuardLeftAlone, SyncAssumption DEF RepairsUnguarded, Workers
<1>4. CASE \E w \in RepairWorkers, m \in Markets, t \in BOOLEAN :
             \E g \in listed[m] : RequestRepair(w, m, g, t) /\ UNCHANGED storeVars
  <2>1. PICK w \in RepairWorkers, m \in Markets, t \in BOOLEAN : \E g \in listed[m] :
          RequestRepair(w, m, g, t)
    BY <1>4
  <2>2. /\ UNCHANGED inFlight
        /\ stage' = [stage EXCEPT ![w] = "page"]
        /\ \A v \in Workers \ {w} : call'[v] = call[v]
    BY <2>1 DEF RequestRepair
  <2> QED BY <2>2, GuardLeftAlone, SyncAssumption DEF RepairsUnguarded, Workers
<1>5. CASE \E w \in Workers : Collect(w) /\ UNCHANGED storeVars
  <2>1. PICK w \in Workers : Collect(w)
    BY <1>5
  <2>2. /\ UNCHANGED inFlight /\ stage[w] = "done"
        /\ stage' = [stage EXCEPT ![w] = "idle"]
        /\ \A v \in Workers \ {w} : call'[v] = call[v]
    BY <2>1 DEF Collect
  <2> QED BY <2>2, GuardLeftAlone DEF RepairsUnguarded, Workers
<1>6. CASE UNCHANGED <<inFlight, stage, call>>
  BY <1>6, GuardLeftAlone DEF RepairsUnguarded
<1> QED
  BY <1>1, <1>2, <1>3, <1>4, <1>5, <1>6
  DEF SyncNext, syncVars, workerVars, CancelWorkers, ListGaps

(* InFlightSyncGuard does what it is for, for any number of workers: it    *)
(* holds the markets being synchronised, each by one worker, whatever the  *)
(* exchange answers and whoever cancels (try/finally of                    *)
(* _sync_single_symbol).                                                   *)
THEOREM OneFetchPerMarketHolds == SyncSpec => []OneFetchPerMarket
<1>1. SyncInit => GuardInv
  BY InitTypes, InitGuard DEF GuardInv
<1>2. GuardInv /\ [SyncNext]_syncVars => GuardInv'
  BY NextTypes, NextGuard DEF GuardInv
<1>3. GuardInv => OneFetchPerMarket
  BY DEF GuardInv
<1> QED BY <1>1, <1>2, <1>3, PTL DEF SyncSpec

-----------------------------------------------------------------------------
(* Rows only get better. *)

(* Nothing stored or listed is from the future, and the candle that is     *)
(* forming is stored as such.                                              *)
StoreAge ==
  \A m \in Markets :
    /\ \A t \in rows[m] : t <= now
    /\ now \in rows[m] => now \in stale[m]
    /\ \A g \in listed[m] : g.start + 1 < g.end /\ g.end <= now

Repairing(w) == stage[w] \in {"page", "save"}

(* A repair asks for closed candles only. *)
RepairsOfClosed ==
  \A w \in RepairWorkers :
    /\ stage[w] = "idle" => stream[w].chunk = Nothing
    /\ Repairing(w) =>
         /\ 1 <= call[w].to /\ call[w].to < now
         /\ stream[w].chunk.stale = {}
         /\ \A t \in stream[w].chunk.rows : t <= call[w].to

(* No one but its holder has, or will fetch, candle t of a market. *)
OnlyInHand(m, t) ==
  /\ \A s \in rows[m] : s <= t
  /\ t \in rows[m] => t \in stale[m]
  /\ \A g \in listed[m] : g.end <= t
  /\ \A w \in RepairWorkers : Repairing(w) /\ call[w].market = m => call[w].to < t

PagesInHand ==
  \A w \in SyncWorkers : stage[w] = "save" =>
    /\ \A t \in stream[w].chunk.rows : t <= now
    /\ now \in stream[w].chunk.rows => now \in stream[w].chunk.stale
    /\ \A t \in stream[w].chunk.stale : t <= now /\ OnlyInHand(call[w].market, t)

Ages == StoreAge /\ RepairsOfClosed /\ PagesInHand
AgeInv == GuardInv /\ Ages

LEMMA InitAges == SyncInit => Ages
<1> SUFFICES ASSUME SyncInit PROVE Ages
  OBVIOUS
<1> USE DEF SyncInit, Workers
<1>1. StoreAge
  BY TimeAssumption DEF StoreAge, Times
<1>2. RepairsOfClosed
  BY DEF RepairsOfClosed, Repairing, NoStream
<1>3. PagesInHand
  BY DEF PagesInHand
<1> QED BY <1>1, <1>2, <1>3 DEF Ages

(* The worker keeps its range and its page as far as it keeps its stage. *)
KeepsPages ==
  /\ \A w \in RepairWorkers :
       /\ stage'[w] = "idle" =>
            \/ stage[w] = "idle" /\ stream'[w].chunk = stream[w].chunk
            \/ stream'[w].chunk = Nothing
       /\ Repairing(w)' =>
            /\ Repairing(w)
            /\ call'[w].market = call[w].market /\ call'[w].to = call[w].to
            /\ stream'[w].chunk = stream[w].chunk
  /\ \A w \in SyncWorkers : stage'[w] = "save" =>
       /\ stage[w] = "save"
       /\ call'[w].market = call[w].market
       /\ stream'[w].chunk = stream[w].chunk

(* Rows may go, but none gets in. *)
OnlyDeletes ==
  /\ now' = now
  /\ \A m \in Markets :
       /\ rows'[m] \subseteq rows[m]
       /\ stale[m] \cap rows'[m] \subseteq stale'[m]
       /\ listed'[m] \subseteq listed[m]

LEMMA AgesKept ==
  ASSUME AgeInv, KeepsPages, OnlyDeletes
  PROVE  Ages'
<1> USE DEF AgeInv, Ages
<1>1. StoreAge'
  BY DEF StoreAge, OnlyDeletes
<1>2. RepairsOfClosed'
  BY DEF RepairsOfClosed, KeepsPages, OnlyDeletes
<1>3. PagesInHand'
  <2> SUFFICES ASSUME NEW w \in SyncWorkers, stage'[w] = "save"
               PROVE  /\ \A t \in stream'[w].chunk.rows : t <= now'
                      /\ now' \in stream'[w].chunk.rows => now' \in stream'[w].chunk.stale
                      /\ \A t \in stream'[w].chunk.stale :
                           t <= now' /\ OnlyInHand(call[w].market, t)'
    BY DEF PagesInHand, KeepsPages
  <2>1. stage[w] = "save" /\ stream'[w].chunk = stream[w].chunk /\ now' = now
    BY DEF KeepsPages, OnlyDeletes
  <2>2. call[w].market \in Markets /\ call'[w].market = call[w].market
    BY <2>1 DEF GuardInv, TypeInv, CallsAndStreams, KeepsPages, Workers
  <2>3. ASSUME NEW t, OnlyInHand(call[w].market, t)
        PROVE  OnlyInHand(call[w].market, t)'
    BY <2>2, <2>3 DEF OnlyInHand, KeepsPages, OnlyDeletes
  <2> QED BY <2>1, <2>3 DEF PagesInHand
<1> QED BY <1>1, <1>2, <1>3

(* What does not touch a page in hand. *)
LEMMA QuietAges ==
  ASSUME AgeInv,
         \/ \E w \in Workers :
              \/ Acquire(w) \/ Release(w) \/ DetermineStart(w) \/ TransientFailure(w)
              \/ Failure(w) \/ Abandon(w)
              \/ Collect(w) /\ UNCHANGED storeVars
         \/ \E w \in SyncWorkers, m \in Markets, t \in BOOLEAN :
              \E from, to \in Times \cup {NoTime} :
                Request(w, m, from, to, t) /\ UNCHANGED storeVars
         \/ UNCHANGED <<storeVars, stage, call, stream, listed>>
         \/ CrashSync
  PROVE  Ages'
<1> USE DEF AgeInv, GuardInv, TypeInv, SyncTypeOK, storeVars
<1>1. CASE UNCHANGED <<storeVars, stage, call, stream, listed>>
  <2>1. KeepsPages
    BY <1>1 DEF KeepsPages, Repairing
  <2> QED BY <1>1, <2>1, AgesKept DEF OnlyDeletes
<1>2. CASE CrashSync
  <2>1. KeepsPages
    BY <1>2 DEF KeepsPages, Repairing, CrashSync, Workers, NoStream
  <2>2. OnlyDeletes
    BY <1>2 DEF OnlyDeletes, CrashSync
  <2> QED BY <2>1, <2>2, AgesKept
<1>3. ASSUME NEW w \in SyncWorkers, NEW m, NEW from, NEW to, NEW t,
             Request(w, m, from, to, t), UNCHANGED storeVars
      PROVE  Ages'
  <2>1. KeepsPages
    BY <1>3, SyncAssumption DEF KeepsPages, Repairing, Request, Workers
  <2>2. OnlyDeletes
    BY <1>3 DEF OnlyDeletes, Request
  <2> QED BY <2>1, <2>2, AgesKept
<1>4. ASSUME NEW w \in Workers, Acquire(w) \/ Release(w)
      PROVE  Ages'
  <2>1. KeepsPages
    BY <1>4 DEF KeepsPages, Repairing, Acquire, Release, Workers
  <2>2. OnlyDeletes
    BY <1>4 DEF OnlyDeletes, Acquire, Release
  <2> QED BY <2>1, <2>2, AgesKept
<1>5. ASSUME NEW w \in Workers, DetermineStart(w)
      PROVE  Ages'
  <2>1. w \in SyncWorkers /\ w \notin RepairWorkers
    BY <1>5, SyncAssumption DEF DetermineStart, RepairsUnguarded, Workers
  <2>2. /\ \A v \in Workers \ {w} : /\ stage'[v] = stage[v]
                                    /\ call'[v] = call[v] /\ stream'[v] = stream[v]
        /\ stage'[w] = "page"
    BY <1>5 DEF DetermineStart
  <2>3. KeepsPages
    BY <2>1, <2>2 DEF KeepsPages, Repairing, Workers
  <2>4. OnlyDeletes
    BY <1>5 DEF OnlyDeletes, DetermineStart
  <2> QED BY <2>3, <2>4, AgesKept
<1>6. ASSUME NEW w \in Workers, TransientFailure(w) \/ Failure(w) \/ Abandon(w)
      PROVE  Ages'
  <2>1. \A v \in Workers : stream'[v].chunk = stream[v].chunk
    <3>1. CASE TransientFailure(w)
      BY <3>1 DEF TransientFailure, Streams
    <3>2. CASE Failure(w) \/ Abandon(w)
      BY <3>2 DEF Failure, Abandon
    <3> QED BY <1>6, <3>1, <3>2
  <2>2. /\ UNCHANGED <<storeVars, call, listed>>
        /\ UNCHANGED stage \/ \E how : EndsWith(w, how)
    BY <1>6 DEF TransientFailure, Failure, Abandon
  <2>3. KeepsPages
    BY <2>1, <2>2 DEF KeepsPages, Repairing, EndsWith, Workers
  <2> QED BY <2>2, <2>3, AgesKept DEF OnlyDeletes
<1>7. ASSUME NEW w \in Workers, Collect(w), UNCHANGED storeVars
      PROVE  Ages'
  <2>1. KeepsPages
    BY <1>7 DEF KeepsPages, Repairing, Collect, Workers, NoStream
  <2>2. OnlyDeletes
    BY <1>7 DEF OnlyDeletes, Collect
  <2> QED BY <2>1, <2>2, AgesKept
<1> QED BY <1>1, <1>2, <1>3, <1>4, <1>5, <1>6, <1>7

LEMMA DeletedAges ==
  ASSUME AgeInv,
         \/ \E m \in Markets : ClearInterval(m) /\ UNCHANGED <<now, inFlight, workerVars>>
         \/ \E symbols \in SUBSET Symbols :
              RemoveShards(symbols) /\ UNCHANGED <<now, inFlight, workerVars>>
  PROVE  Ages'
<1>1. OnlyDeletes
  <2>1. CASE \E m \in Markets : ClearInterval(m) /\ UNCHANGED <<now, inFlight, workerVars>>
    BY <2>1 DEF AgeInv, GuardInv, TypeInv, SyncTypeOK, OnlyDeletes, ClearInterval, workerVars
  <2>2. CASE \E symbols \in SUBSET Symbols :
               RemoveShards(symbols) /\ UNCHANGED <<now, inFlight, workerVars>>
    BY <2>2 DEF OnlyDeletes, RemoveShards, workerVars
  <2> QED BY <2>1, <2>2
<1>2. KeepsPages
  BY DEF KeepsPages, Repairing, workerVars
<1> QED BY <1>1, <1>2, AgesKept

LEMMA TickAges ==
  ASSUME AgeInv, Tick, UNCHANGED <<inFlight, workerVars>>
  PROVE  Ages'
<1> USE DEF AgeInv, Ages, workerVars, Tick
<1>1. /\ now \in Int /\ now' = now + 1
      /\ \A m \in Markets : rows[m] \subseteq Int
      /\ \A m \in Markets : listed[m] \subseteq [start : Int, end : Int]
  BY TimeAssumption DEF GuardInv, TypeInv, SyncTypeOK, Times
<1>2. \A w \in Workers : call[w].to \in Int /\ stream[w].chunk.rows \subseteq Int
                         /\ stream[w].chunk.stale \subseteq Int
  BY TimeAssumption DEF GuardInv, TypeInv, SyncTypeOK, Calls, Streams, Chunks, Times
<1>3. StoreAge'
  BY <1>1 DEF StoreAge
<1>4. RepairsOfClosed'
  BY <1>1, <1>2 DEF RepairsOfClosed, Repairing, Workers
<1>5. PagesInHand'
  <2>1. \A m \in Markets : \A t : OnlyInHand(m, t) => OnlyInHand(m, t)'
    BY DEF OnlyInHand, Repairing
  <2>2. \A w \in SyncWorkers : stage[w] = "save" => call[w].market \in Markets
    BY DEF GuardInv, TypeInv, CallsAndStreams, Workers
  <2> QED BY <1>1, <1>2, <2>1, <2>2 DEF PagesInHand, Workers
<1> QED BY <1>3, <1>4, <1>5

(* A gap that is listed ends at a row. *)
LEMMA ListGapsAges ==
  ASSUME AgeInv, NEW m \in Markets, ListGaps(m),
         UNCHANGED <<storeVars, inFlight, stage, call, stream, outcome, cancelled>>
  PROVE  Ages'
<1> USE DEF AgeInv, Ages, storeVars
<1>1. \A k \in Markets : \A g \in listed'[k] :
        g \in listed[k] \/ (g.start + 1 < g.end /\ g.end \in rows[k])
  BY DEF GuardInv, TypeInv, SyncTypeOK, ListGaps, Gaps
<1>2. StoreAge'
  BY <1>1 DEF StoreAge
<1>3. RepairsOfClosed'
  BY DEF RepairsOfClosed, Repairing
<1>4. \A k \in Markets : \A t : OnlyInHand(k, t) => OnlyInHand(k, t)'
  BY <1>1 DEF OnlyInHand, Repairing
<1>5. \A w \in SyncWorkers : stage[w] = "save" => call[w].market \in Markets
  BY DEF GuardInv, TypeInv, CallsAndStreams, Workers
<1>6. PagesInHand'
  BY <1>4, <1>5 DEF PagesInHand
<1> QED BY <1>2, <1>3, <1>6

(* A repair stops before the row that ends its gap. *)
LEMMA RequestRepairAges ==
  ASSUME AgeInv, NEW w \in RepairWorkers, NEW m \in Markets, NEW g \in listed[m],
         NEW halted \in BOOLEAN, RequestRepair(w, m, g, halted), UNCHANGED storeVars
  PROVE  Ages'
<1> USE DEF AgeInv, Ages, storeVars
<1>1. /\ now \in Int /\ g.start \in Times /\ g.end \in Times
      /\ w \in Workers /\ w \notin SyncWorkers
  BY TimeAssumption, SyncAssumption DEF GuardInv, TypeInv, SyncTypeOK, Times, Workers
<1>2. 1 <= FetchEnd(g) /\ FetchEnd(g) < g.end /\ g.end <= now /\ FetchEnd(g) \in Int
  BY <1>1, TimeAssumption DEF StoreAge, FetchEnd, Times
<1>3. /\ call' = [call EXCEPT ![w] =
                    [NoCall EXCEPT !.market = m, !.from = FetchStart(g), !.to = FetchEnd(g)]]
      /\ stream' = [stream EXCEPT ![w].next = FetchStart(g)]
      /\ stage' = [stage EXCEPT ![w] = "page"] /\ stage[w] = "idle"
      /\ UNCHANGED listed
  BY DEF RequestRepair
<1>4. call'[w].market = m /\ call'[w].to = FetchEnd(g)
  BY <1>1, <1>3 DEF GuardInv, TypeInv, SyncTypeOK, NoCall
<1>5. stream'[w].chunk = Nothing
  BY <1>1, <1>3 DEF RepairsOfClosed, GuardInv, TypeInv, SyncTypeOK, Streams
<1>6. \A v \in Workers \ {w} :
        stage'[v] = stage[v] /\ call'[v] = call[v] /\ stream'[v] = stream[v]
  BY <1>3 DEF GuardInv, TypeInv, SyncTypeOK
<1>7. stage'[w] = "page"
  BY <1>1, <1>3 DEF GuardInv, TypeInv, SyncTypeOK
<1>8. StoreAge'
  BY <1>3 DEF StoreAge
<1>9. RepairsOfClosed'
  <2>1. call'[w].to < now' /\ 1 <= call'[w].to
    BY <1>1, <1>2, <1>4, TimeAssumption DEF Times
  <2>2. stream'[w].chunk.stale = {} /\ stream'[w].chunk.rows = {}
    BY <1>5 DEF Nothing
  <2>3. \A v \in RepairWorkers \ {w} :
          stage'[v] = stage[v] /\ call'[v] = call[v] /\ stream'[v] = stream[v]
    BY <1>6 DEF Workers
  <2>4. now' = now
    OBVIOUS
  <2> QED BY <1>5, <2>1, <2>2, <2>3, <2>4 DEF RepairsOfClosed, Repairing
<1>10. ASSUME NEW k \in Markets, NEW t \in Int, OnlyInHand(k, t)
       PROVE  OnlyInHand(k, t)'
  <2>1. k = m => FetchEnd(g) < t
    BY <1>1, <1>2, <1>10 DEF OnlyInHand, Times
  <2> QED BY <1>3, <1>4, <1>6, <1>10, <2>1 DEF OnlyInHand, Repairing, Workers
<1>11. \A v \in SyncWorkers : stage[v] = "save" =>
         call[v].market \in Markets /\ stream[v].chunk.stale \subseteq Int
  BY TimeAssumption
  DEF GuardInv, TypeInv, SyncTypeOK, CallsAndStreams, Workers, Streams, Chunks, Times
<1>12. PagesInHand'
  BY <1>1, <1>6, <1>10, <1>11 DEF PagesInHand, Workers
<1> QED BY <1>8, <1>9, <1>12

(* The pages of a repair hold closed candles, those of a sync the forming  *)
(* one at most.                                                            *)
LEMMA ReceivePageAges ==
  ASSUME AgeInv, NEW w \in Workers, ReceivePage(w)
  PROVE  Ages'
<1> USE DEF AgeInv, Ages
<1> DEFINE m == call[w].market
           page == PageOf(stream[w].next, call[w].to)
           buffer == IF w \in SyncWorkers THEN Nothing ELSE stream[w].chunk
<1>1. /\ UNCHANGED <<now, rows, stale, listed, call>> /\ stage[w] = "page"
      /\ stage \in [Workers -> Stages] /\ stream \in [Workers -> Streams]
  BY DEF ReceivePage, storeVars, GuardInv, TypeInv, SyncTypeOK
<1>2. CASE EndsWith(w, "synced") /\ stream' = stream
  <2>1. KeepsPages
    BY <1>1, <1>2 DEF KeepsPages, Repairing, EndsWith, Workers
  <2> QED BY <1>1, <2>1, AgesKept DEF OnlyDeletes
<1>3. ASSUME NEW received \in Streams, NEW next \in {"page", "save"},
             stream' = [stream EXCEPT ![w] = received],
             received.chunk = [rows |-> buffer.rows \cup page,
                               stale |-> buffer.stale \cup (page \cap {now})],
             stage' = [stage EXCEPT ![w] = next],
             w \in SyncWorkers => next = "save"
      PROVE  Ages'
  <2>1. /\ m \in Markets /\ stream[w].next \in Nat /\ stream[w].next >= 1
        /\ call[w].to \in Nat /\ now \in Times
    BY <1>1, ReceivePageStream DEF GuardInv, TypeInv, SyncTypeOK, Streams, Calls
  <2>2. /\ page \subseteq 1 .. now
        /\ \A t \in page : call[w].to # NoTime => t <= call[w].to
    BY <2>1, PageIsFinite
  <2>3. /\ stage'[w] = next /\ stream'[w].chunk = received.chunk
        /\ received.chunk.rows = buffer.rows \cup page
        /\ received.chunk.stale = buffer.stale \cup (page \cap {now})
        /\ \A v \in Workers \ {w} : stage'[v] = stage[v] /\ stream'[v] = stream[v]
    BY <1>1, <1>3
  <2> HIDE DEF page
  <2>4. StoreAge'
    BY <1>1 DEF StoreAge
  <2>5. RepairsOfClosed'
    <3>1. CASE w \in SyncWorkers
      <4>1. \A v \in RepairWorkers : stage'[v] = stage[v] /\ stream'[v] = stream[v]
        BY <3>1, <2>3, SyncAssumption DEF Workers
      <4> QED BY <1>1, <4>1 DEF RepairsOfClosed, Repairing
    <3>2. CASE w \in RepairWorkers
      <4>1. 1 <= call[w].to /\ call[w].to < now /\ stream[w].chunk.stale = {}
            /\ \A t \in stream[w].chunk.rows : t <= call[w].to
        BY <1>1, <3>2 DEF RepairsOfClosed, Repairing
      <4>2. buffer = stream[w].chunk
        BY <3>2, SyncAssumption
      <4>3. \A t \in page : t <= call[w].to /\ t # now
        BY <4>1, <2>1, <2>2, TimeAssumption DEF NoTime, Times
      <4>4. stream'[w].chunk.stale = {} /\ \A t \in stream'[w].chunk.rows : t <= call[w].to
        BY <2>3, <4>1, <4>2, <4>3
      <4>5. \A v \in RepairWorkers \ {w} : stage'[v] = stage[v] /\ stream'[v] = stream[v]
        BY <2>3 DEF Workers
      <4>6. stage'[w] # "idle"
        BY <2>3
      <4> QED BY <1>1, <4>1, <4>4, <4>5, <4>6 DEF RepairsOfClosed, Repairing
    <3> QED BY <3>1, <3>2 DEF Workers
  <2>6. ASSUME NEW k, NEW t, OnlyInHand(k, t)
        PROVE  OnlyInHand(k, t)'
    <3>1. \A v \in RepairWorkers : Repairing(v)' => Repairing(v)
      BY <1>1, <2>3 DEF Repairing, Workers
    <3> QED BY <1>1, <2>6, <3>1 DEF OnlyInHand
  <2>7. PagesInHand'
    <3>1. CASE w \in RepairWorkers
      <4>1. \A v \in SyncWorkers : stage'[v] = stage[v] /\ stream'[v] = stream[v]
        BY <3>1, <2>3, SyncAssumption DEF Workers
      <4> QED BY <1>1, <4>1, <2>6 DEF PagesInHand
    <3>2. CASE w \in SyncWorkers
      <4>1. stream'[w].chunk.rows = page /\ stream'[w].chunk.stale = page \cap {now}
        BY <3>2, <2>3 DEF Nothing
      <4>2. OnlyInHand(m, now)
        BY <2>1 DEF OnlyInHand, StoreAge, RepairsOfClosed
      <4>3. \A t \in page : t <= now
        BY <2>1, <2>2, TimeAssumption DEF Times
      <4>4. now <= now
        BY <2>1, TimeAssumption DEF Times
      <4>5. /\ \A t \in stream'[w].chunk.rows : t <= now'
            /\ now' \in stream'[w].chunk.rows => now' \in stream'[w].chunk.stale
            /\ \A t \in stream'[w].chunk.stale : t <= now' /\ OnlyInHand(m, t)'
        BY <1>1, <4>1, <4>2, <4>3, <4>4, <2>6
      <4>6. \A v \in SyncWorkers \ {w} : stage'[v] = stage[v] /\ stream'[v] = stream[v]
        BY <2>3 DEF Workers
      <4> QED BY <1>1, <4>5, <4>6, <2>6 DEF PagesInHand
    <3> QED BY <3>1, <3>2 DEF Workers
  <2> QED BY <2>4, <2>5, <2>7
<1> HIDE DEF page, buffer
<1>4. \/ EndsWith(w, "synced") /\ stream' = stream
      \/ \E received \in Streams, next \in {"page", "save"} :
           /\ stream' = [stream EXCEPT ![w] = received]
           /\ received.chunk = [rows |-> buffer.rows \cup page,
                                stale |-> buffer.stale \cup (page \cap {now})]
           /\ stage' = [stage EXCEPT ![w] = next]
           /\ w \in SyncWorkers => next = "save"
  BY ReceivePageStream DEF GuardInv, page, buffer
<1> QED BY <1>2, <1>3, <1>4

(* A page is saved: no one else holds a forming candle of its market. *)
LEMMA SaveChunkFacts ==
  ASSUME GuardInv, NEW w \in Workers, SaveChunk(w)
  PROVE  LET m == call[w].market
             chunk == stream[w].chunk
         IN  /\ m \in Markets
             /\ UNCHANGED <<now, call, listed>>
             /\ \A k \in Markets \ {m} : rows'[k] = rows[k] /\ stale'[k] = stale[k]
             /\ rows'[m] = rows[m] \cup chunk.rows
             /\ stale'[m] = (stale[m] \ chunk.rows) \cup chunk.stale
             /\ stage[w] = "save" /\ stage'[w] \in {"page", "release", "done"}
             /\ w \in RepairWorkers => stage'[w] = "done"
             /\ \A v \in Workers \ {w} : stage'[v] = stage[v] /\ stream'[v] = stream[v]
             /\ \A v \in SyncWorkers \ {w} :
                  w \in SyncWorkers /\ stage[v] = "save" => call[v].market # m
<1> USE DEF GuardInv, TypeInv, SyncTypeOK
<1>1. call[w].market \in Markets /\ stage[w] = "save"
  BY DEF SaveChunk, CallsAndStreams
<1>2. /\ stage'[w] \in {"page", "release", "done"}
      /\ w \in RepairWorkers => stage'[w] = "done"
      /\ \A v \in Workers \ {w} : stage'[v] = stage[v] /\ stream'[v] = stream[v]
  BY SyncAssumption DEF SaveChunk, EndsWith
<1>3. \A v \in SyncWorkers \ {w} :
        w \in SyncWorkers /\ stage[v] = "save" => call[v].market # call[w].market
  BY <1>1 DEF OneFetchPerMarket, Fetching
<1>4. UNCHANGED <<now, call, listed>>
  BY DEF SaveChunk
<1>5. /\ rows' = [rows EXCEPT ![call[w].market] = @ \cup stream[w].chunk.rows]
      /\ stale' = [stale EXCEPT ![call[w].market] =
                     (@ \ stream[w].chunk.rows) \cup stream[w].chunk.stale]
  BY DEF SaveChunk, SaveKlines
<1> QED BY <1>1, <1>2, <1>3, <1>4, <1>5

LEMMA SaveChunkAges ==
  ASSUME AgeInv, NEW w \in Workers, SaveChunk(w)
  PROVE  Ages'
<1> USE DEF AgeInv, Ages
<1> DEFINE m == call[w].market
           chunk == stream[w].chunk
<1>1. /\ m \in Markets
      /\ UNCHANGED <<now, call, listed>>
      /\ \A k \in Markets \ {m} : rows'[k] = rows[k] /\ stale'[k] = stale[k]
      /\ rows'[m] = rows[m] \cup chunk.rows
      /\ stale'[m] = (stale[m] \ chunk.rows) \cup chunk.stale
      /\ stage[w] = "save" /\ stage'[w] \in {"page", "release", "done"}
      /\ w \in RepairWorkers => stage'[w] = "done"
      /\ \A v \in Workers \ {w} : stage'[v] = stage[v] /\ stream'[v] = stream[v]
      /\ \A v \in SyncWorkers \ {w} :
           w \in SyncWorkers /\ stage[v] = "save" => call[v].market # m
  BY SaveChunkFacts
<1>2. now \in Int /\ call[w].to \in Int /\ chunk.rows \subseteq Int
  BY TimeAssumption DEF GuardInv, TypeInv, SyncTypeOK, Calls, Streams, Chunks, Times
<1> HIDE DEF m, chunk
<1>3. w \in RepairWorkers =>
        /\ call[w].to < now /\ chunk.stale = {} /\ \A t \in chunk.rows : t <= call[w].to
  BY <1>1 DEF RepairsOfClosed, Repairing, chunk
<1>4. /\ \A t \in chunk.rows : t <= now
      /\ now \in chunk.rows => now \in chunk.stale
  <2>1. CASE w \in SyncWorkers
    BY <1>1, <2>1 DEF PagesInHand, chunk
  <2>2. CASE w \in RepairWorkers
    BY <1>2, <1>3, <2>2
  <2> QED BY <2>1, <2>2 DEF Workers
<1>5. StoreAge'
  <2>1. ASSUME NEW k \in Markets
        PROVE  /\ \A t \in rows'[k] : t <= now
               /\ now \in rows'[k] => now \in stale'[k]
    BY <1>1, <1>4 DEF StoreAge
  <2> QED BY <1>1, <2>1 DEF StoreAge
<1>6. RepairsOfClosed'
  BY <1>1 DEF RepairsOfClosed, Repairing, Workers
<1>7. PagesInHand'
  <2> SUFFICES ASSUME NEW v \in SyncWorkers, stage'[v] = "save"
               PROVE  /\ \A t \in stream'[v].chunk.rows : t <= now'
                      /\ now' \in stream'[v].chunk.rows => now' \in stream'[v].chunk.stale
                      /\ \A t \in stream'[v].chunk.stale :
                           t <= now' /\ OnlyInHand(call[v].market, t)'
    BY <1>1 DEF PagesInHand
  <2>1. v # w /\ stage[v] = "save" /\ stream'[v] = stream[v] /\ v \in Workers
    BY <1>1 DEF Workers
  <2>2. call[v].market \in Markets /\ stream[v].chunk.stale \subseteq Int
    BY <2>1, TimeAssumption
    DEF GuardInv, TypeInv, SyncTypeOK, CallsAndStreams, Streams, Chunks, Times
  <2>3. \A u \in RepairWorkers : Repairing(u)' => Repairing(u)
    BY <1>1 DEF Repairing, Workers
  <2>4. ASSUME NEW t \in stream[v].chunk.stale, OnlyInHand(call[v].market, t)
        PROVE  OnlyInHand(call[v].market, t)'
    <3>1. CASE call[v].market # m
      BY <1>1, <2>2, <2>3, <2>4, <3>1 DEF OnlyInHand
    <3>2. CASE call[v].market = m
      <4>1. w \in RepairWorkers
        BY <1>1, <2>1, <3>2 DEF Workers
      <4>2. call[w].to < t
        BY <1>1, <2>4, <3>2, <4>1 DEF OnlyInHand, Repairing, m
      <4>3. \A s \in chunk.rows : s <= t /\ s # t
        BY <1>2, <1>3, <2>2, <4>1, <4>2
      <4> QED BY <1>1, <1>3, <2>3, <2>4, <3>2, <4>1, <4>3 DEF OnlyInHand
    <3> QED BY <3>1, <3>2
  <2> QED BY <1>1, <2>1, <2>4 DEF PagesInHand
<1> QED BY <1>5, <1>6, <1>7

LEMMA NextAges == AgeInv /\ [SyncNext]_syncVars => Ages'
<1> SUFFICES ASSUME AgeInv, [SyncNext]_syncVars PROVE Ages'
  OBVIOUS
<1>1. CASE \E w \in Workers : WorkerStep(w)
  BY <1>1, QuietAges, ReceivePageAges, SaveChunkAges DEF WorkerStep
<1>2. CASE UNCHANGED syncVars
  BY <1>2, QuietAges DEF syncVars, workerVars
<1>3. CASE \E workers \in SUBSET Workers : CancelWorkers(workers)
             /\ UNCHANGED <<storeVars, inFlight, stage, call, stream, outcome, listed>>
  BY <1>3, QuietAges
<1> QED
  BY <1>1, <1>2, <1>3, QuietAges, DeletedAges, TickAges, ListGapsAges, RequestRepairAges
  DEF SyncNext

(* What a step stores as forming was not there as closed. *)
LEMMA StepKeepsFinal ==
  ASSUME AgeInv, [SyncNext]_syncVars
  PROVE  \A m \in Markets : (rows[m] \ stale[m]) \cap stale'[m] = {}
<1> USE DEF AgeInv, Ages
<1>1. CASE \E w \in Workers : SaveChunk(w)
  <2>1. PICK w \in Workers : SaveChunk(w)
    BY <1>1
  <2>2. /\ call[w].market \in Markets /\ stage[w] = "save"
        /\ \A k \in Markets \ {call[w].market} : stale'[k] = stale[k]
        /\ stale'[call[w].market] \subseteq stale[call[w].market] \cup stream[w].chunk.stale
    BY <2>1, SaveChunkFacts
  <2>3. \A t \in stream[w].chunk.stale :
          t \in rows[call[w].market] => t \in stale[call[w].market]
    BY <2>2 DEF RepairsOfClosed, Repairing, PagesInHand, OnlyInHand, Workers
  <2> QED BY <2>2, <2>3
<1>2. CASE UNCHANGED stale
  BY <1>2
<1>3. CASE \E m \in Markets : ClearInterval(m)
  BY <1>3 DEF ClearInterval, GuardInv, TypeInv, SyncTypeOK
<1>4. CASE \E symbols \in SUBSET Symbols : RemoveShards(symbols)
  BY <1>4 DEF RemoveShards
<1>5. \/ \E w \in Workers : SaveChunk(w)
      \/ UNCHANGED stale
      \/ \E m \in Markets : ClearInterval(m)
      \/ \E symbols \in SUBSET Symbols : RemoveShards(symbols)
  BY DEF SyncNext, WorkerStep, syncVars, storeVars, Tick, CrashSync, Acquire, Release,
         DetermineStart, ReceivePage, TransientFailure, Failure, Abandon
<1> QED BY <1>2, <1>1, <1>3, <1>4, <1>5

(* A candle stored as it closed is never overwritten by a copy taken while *)
(* it was forming, for any number of syncs and repairs in any order: the   *)
(* guard keeps two syncs apart, and a repair stays below the row that ends *)
(* its gap (save_klines, RepairDataGapCommandHandler).                     *)
THEOREM FinalStaysFinalHolds == SyncSpec => FinalStaysFinal
<1>1. SyncInit => AgeInv
  BY InitTypes, InitGuard, InitAges DEF AgeInv, GuardInv
<1>2. AgeInv /\ [SyncNext]_syncVars => AgeInv'
  BY NextTypes, NextGuard, NextAges DEF AgeInv, GuardInv
<1>3. AgeInv /\ [SyncNext]_syncVars =>
        [\A m \in Markets : (rows[m] \ stale[m]) \cap stale'[m] = {}]_syncVars
  BY StepKeepsFinal
<1> QED BY <1>1, <1>2, <1>3, PTL DEF SyncSpec, FinalStaysFinal

-----------------------------------------------------------------------------
(* What a resumed sync leaves in the store. *)

(* A page is an interval, and a short one reaches the present. *)
LEMMA PageIsInterval ==
  ASSUME now \in Times, NEW from \in Nat, NEW to \in Nat
  PROVE  \E size \in Nat :
           /\ size = Cardinality(PageOf(from, to))
           /\ PageOf(from, to) = from .. from + size - 1
           /\ to = NoTime /\ size # PageSize => now < from + size
<1> DEFINE reach == from + PageSize - 1
           last == IF to # NoTime /\ to < now THEN to ELSE now
           end == IF reach < last THEN reach ELSE last
<1>1. now \in Nat /\ PageSize \in Nat \ {0} /\ NoTime = 0
  BY TimeAssumption, SyncAssumption DEF Times, NoTime
<1>2. end \in Int
  BY <1>1
<1>3. PageOf(from, to) = from .. end
  BY <1>1 DEF PageOf
<1>4. to = NoTime => end = (IF reach < now THEN reach ELSE now)
  OBVIOUS
<1> HIDE DEF end
<1>5. Cardinality(from .. end) = IF from > end THEN 0 ELSE end - from + 1
  BY <1>2, FS_Interval
<1>6. CASE from > end
  <2>1. Cardinality(PageOf(from, to)) = 0
    BY <1>3, <1>5, <1>6
  <2>2. from .. end = {} /\ from .. from + 0 - 1 = {}
    BY <1>2, <1>6
  <2>3. to = NoTime => now < from + 0
    BY <1>1, <1>4, <1>6
  <2> QED BY <1>3, <2>1, <2>2, <2>3, 0 \in Nat
<1>7. CASE ~(from > end)
  <2>1. PICK size \in Nat : size = end - from + 1
    BY <1>2, <1>7
  <2>2. Cardinality(PageOf(from, to)) = size
    BY <1>3, <1>5, <1>7, <2>1
  <2>3. from + size - 1 = end
    BY <1>2, <2>1
  <2>4. to = NoTime /\ size # PageSize => now < from + size
    BY <1>1, <1>2, <1>4, <2>1
  <2> QED BY <1>3, <2>2, <2>3, <2>4
<1> QED BY <1>6, <1>7

Resuming(w) ==
  \/ stage[w] \in {"page", "save"}
  \/ stage[w] = "release" /\ outcome[w] = "synced"

(* What a sync has in hand: nothing but what it is about to save, which is *)
(* the last stretch of what it went through, and closed up to the time it  *)
(* looked; it has gone past that time when its last page was a short one.  *)
StreamOf(w) ==
  /\ stage[w] \in {"idle", "guard", "start", "page"} => stream[w].chunk = Nothing
  /\ stage[w] = "release" /\ outcome[w] = "synced" =>
       /\ stream[w].chunk = Nothing
       /\ call[w].to = NoTime => call[w].asked < stream[w].next
  /\ Resuming(w) => call[w].asked <= now /\ call[w].tip <= stream[w].next
  /\ stage[w] = "save" =>
       /\ \E first \in Nat :
            call[w].tip <= first /\ stream[w].chunk.rows = first .. stream[w].next - 1
       /\ \A t \in stream[w].chunk.stale : call[w].asked <= t
       /\ call[w].to = NoTime /\ ~stream[w].more => call[w].asked < stream[w].next

StreamsInHand == \A w \in SyncWorkers : StreamOf(w)

(* The candles from the newest there was to where the sync is now are      *)
(* stored, as they closed, or in hand.                                     *)
Covered(w) ==
  \A t \in call[w].tip .. stream[w].next - 1 :
    \/ t \in stream[w].chunk.rows
    \/ /\ t \in rows[call[w].market]
       /\ t < call[w].asked => t \notin stale[call[w].market]

NothingSkipped == \A w \in SyncWorkers : Resuming(w) /\ StillAnchored(w) => Covered(w)

(* A repair stays inside a gap that was listed. *)
RepairOf(w) ==
  Repairing(w) =>
    \E g \in listed[call[w].market] :
      /\ g.start < stream[w].next /\ call[w].to < g.end
      /\ \A t \in stream[w].chunk.rows : g.start < t /\ t < g.end

RepairsInGaps == \A w \in RepairWorkers : RepairOf(w)

Progress == StreamsInHand /\ RepairsInGaps /\ NothingSkipped
ProgressInv == AgeInv /\ Progress

(* A step leaves a worker where it is, or is one of its own; what was      *)
(* listed is forgotten in a crash only, and the clock never goes back.     *)
Kept(w) ==
  /\ stage'[w] = stage[w] /\ outcome'[w] = outcome[w]
  /\ call'[w] = call[w] /\ stream'[w] = stream[w]

Requested(w) ==
  /\ UNCHANGED storeVars
  /\ \E m \in Markets, halted \in BOOLEAN :
       \/ /\ w \in SyncWorkers
          /\ \E from, to \in Times \cup {NoTime} : Request(w, m, from, to, halted)
       \/ /\ w \in RepairWorkers
          /\ \E g \in listed[m] : RequestRepair(w, m, g, halted)

OwnStep(w) == WorkerStep(w) \/ Requested(w) \/ (Collect(w) /\ UNCHANGED storeVars) \/ CrashSync

(* A handler's step leaves the other workers alone. *)
LEMMA OthersKept ==
  ASSUME TypeInv, NEW v \in Workers,
         WorkerStep(v) \/ Requested(v) \/ Collect(v), NEW w \in Workers \ {v}
  PROVE  Kept(w)
<1> USE DEF TypeInv, SyncTypeOK, Kept
<1>1. CASE Acquire(v) \/ Release(v)
  BY <1>1 DEF Acquire, Release
<1>2. CASE DetermineStart(v)
  BY <1>2 DEF DetermineStart
<1>3. CASE Failure(v) \/ Abandon(v)
  BY <1>3 DEF Failure, Abandon, EndsWith
<1>4. CASE TransientFailure(v)
  <2>1. call' = call /\ ((UNCHANGED <<stage, outcome>>) \/ EndsWith(v, "failed"))
    BY <1>4 DEF TransientFailure
  <2>2. stream'[w] = stream[w]
    BY <1>4 DEF TransientFailure
  <2> QED BY <2>1, <2>2 DEF EndsWith
<1>5. CASE SaveChunk(v)
  BY <1>5 DEF SaveChunk, EndsWith
<1>6. CASE ReceivePage(v)
  <2>1. call' = call
    BY <1>6 DEF ReceivePage
  <2>2. CASE EndsWith(v, "synced") /\ stream' = stream
    BY <2>1, <2>2 DEF EndsWith
  <2>3. CASE /\ \E received \in Streams : stream' = [stream EXCEPT ![v] = received]
             /\ \E next \in {"page", "save"} : stage' = [stage EXCEPT ![v] = next]
             /\ UNCHANGED outcome
    BY <2>1, <2>3
  <2> QED BY <1>6, <2>2, <2>3, ReceivePageStream
<1>7. CASE Collect(v)
  BY <1>7 DEF Collect
<1>8. CASE Requested(v)
  BY <1>8 DEF Requested, Request, RequestRepair
<1> QED BY <1>1, <1>2, <1>3, <1>4, <1>5, <1>6, <1>7, <1>8 DEF WorkerStep

LEMMA StepOfWorker ==
  ASSUME TypeInv, [SyncNext]_syncVars, NEW w \in Workers
  PROVE  Kept(w) \/ OwnStep(w)
<1>1. CASE \E v \in Workers :
             WorkerStep(v) \/ Requested(v) \/ (Collect(v) /\ UNCHANGED storeVars)
  BY <1>1, OthersKept DEF OwnStep
<1>2. CASE UNCHANGED <<stage, call, stream, outcome>>
  BY <1>2 DEF Kept
<1>3. CASE CrashSync
  BY <1>3 DEF OwnStep
<1>4. ASSUME NEW v \in SyncWorkers, NEW m \in Markets, NEW halted \in BOOLEAN,
             NEW from \in Times \cup {NoTime}, NEW to \in Times \cup {NoTime},
             Request(v, m, from, to, halted), UNCHANGED storeVars
      PROVE  v \in Workers /\ Requested(v)
  BY <1>4 DEF Requested, Workers
<1>5. ASSUME NEW v \in RepairWorkers, NEW m \in Markets, NEW halted \in BOOLEAN,
             NEW g \in listed[m], RequestRepair(v, m, g, halted), UNCHANGED storeVars
      PROVE  v \in Workers /\ Requested(v)
  BY <1>5 DEF Requested, Workers
<1> QED
  BY <1>1, <1>2, <1>3, <1>4, <1>5
  DEF SyncNext, syncVars, workerVars, CancelWorkers, ListGaps

LEMMA ClockAndLists ==
  ASSUME TypeInv, [SyncNext]_syncVars
  PROVE  /\ now <= now'
         /\ CrashSync \/ \A m \in Markets : listed[m] \subseteq listed'[m]
<1> DEFINE Goal == /\ now <= now'
                   /\ CrashSync \/ \A m \in Markets : listed[m] \subseteq listed'[m]
<1> SUFFICES Goal
  OBVIOUS
<1>1. now \in Int
  BY TimeAssumption DEF TypeInv, SyncTypeOK, Times
<1>2. CASE UNCHANGED <<now, listed>>
  BY <1>1, <1>2
<1>3. CASE Tick /\ UNCHANGED <<inFlight, workerVars>>
  BY <1>1, <1>3 DEF Tick, workerVars
<1>4. CASE CrashSync
  BY <1>1, <1>4 DEF CrashSync, storeVars
<1>5. ASSUME NEW m \in Markets, ListGaps(m), UNCHANGED storeVars
      PROVE  Goal
  BY <1>1, <1>5 DEF ListGaps, storeVars, TypeInv, SyncTypeOK
<1>6. ASSUME NEW w \in Workers, WorkerStep(w)
      PROVE  UNCHANGED <<now, listed>>
  BY <1>6 DEF WorkerStep, Acquire, Release, DetermineStart, ReceivePage, TransientFailure,
              Failure, Abandon, SaveChunk, storeVars
<1>7. CASE \/ \E m \in Markets : ClearInterval(m) /\ UNCHANGED <<now, inFlight, workerVars>>
           \/ \E symbols \in SUBSET Symbols :
                RemoveShards(symbols) /\ UNCHANGED <<now, inFlight, workerVars>>
  <2>1. UNCHANGED <<now, listed>>
    BY <1>7 DEF workerVars
  <2> QED BY <1>2, <2>1
<1>8. ASSUME NEW w, NEW m, NEW from, NEW to, NEW halted, Request(w, m, from, to, halted),
             UNCHANGED storeVars
      PROVE  Goal
  BY <1>2, <1>8 DEF Request, storeVars
<1>9. ASSUME NEW w, NEW m, NEW g, NEW halted, RequestRepair(w, m, g, halted),
             UNCHANGED storeVars
      PROVE  Goal
  BY <1>2, <1>9 DEF RequestRepair, storeVars
<1>10. CASE UNCHANGED <<storeVars, listed>>
  BY <1>2, <1>10 DEF storeVars
<1>11. ASSUME NEW w \in Workers, WorkerStep(w)
       PROVE  Goal
  BY <1>2, <1>6, <1>11
<1>12. ASSUME NEW w \in Workers, Collect(w), UNCHANGED storeVars
       PROVE  Goal
  BY <1>2, <1>12 DEF Collect, storeVars
<1>13. CASE UNCHANGED syncVars
  BY <1>10, <1>13 DEF syncVars, workerVars
<1> HIDE DEF Goal
<1> QED
  BY <1>3, <1>4, <1>5, <1>7, <1>8, <1>9, <1>10, <1>11, <1>12, <1>13 DEF SyncNext

(* Rows are added by a save, or a market is emptied. *)
LEMMA RowsSavedOrWiped ==
  ASSUME TypeInv, [SyncNext]_syncVars
  PROVE  \/ UNCHANGED rows
         \/ \E w \in Workers : SaveChunk(w)
         \/ \A m \in Markets : rows'[m] = rows[m] \/ rows'[m] = {}
<1>1. ASSUME NEW m \in Markets, ClearInterval(m)
      PROVE  \A k \in Markets : rows'[k] = rows[k] \/ rows'[k] = {}
  BY <1>1 DEF ClearInterval, TypeInv, SyncTypeOK
<1>2. ASSUME NEW symbols \in SUBSET Symbols, RemoveShards(symbols)
      PROVE  \A k \in Markets : rows'[k] = rows[k] \/ rows'[k] = {}
  BY <1>2 DEF RemoveShards
<1>3. ASSUME NEW w \in Workers, WorkerStep(w)
      PROVE  UNCHANGED rows \/ SaveChunk(w)
  BY <1>3 DEF WorkerStep, Acquire, Release, DetermineStart, ReceivePage, TransientFailure,
              Failure, Abandon, storeVars
<1> QED
  BY <1>1, <1>2, <1>3 DEF SyncNext, syncVars, storeVars, Tick, CrashSync

(* What the fields of a worker's command and stream are, for arithmetic. *)
LEMMA FieldTypes ==
  ASSUME TypeInv, NEW w \in Workers
  PROVE  /\ now \in Int /\ call[w].asked \in Nat /\ call[w].tip \in Nat /\ call[w].to \in Nat
         /\ stream[w].next \in Nat /\ stream[w].chunk.rows \subseteq Nat
         /\ stream[w].chunk.stale \subseteq Nat
BY TimeAssumption DEF TypeInv, SyncTypeOK, Times, Calls, Streams, Chunks

(* What a sync has in hand, step by step. *)
LEMMA ReceivedStream ==
  ASSUME TypeInv, NEW w \in SyncWorkers, StreamOf(w), ReceivePage(w)
  PROVE  StreamOf(w)'
<1> DEFINE size == Cardinality(PageOf(stream[w].next, call[w].to))
           page == PageOf(stream[w].next, call[w].to)
<1>1. /\ stage[w] = "page" /\ UNCHANGED <<now, call>> /\ w \in Workers /\ w \notin RepairWorkers
      /\ stage \in [Workers -> Stages] /\ stream \in [Workers -> Streams]
      /\ outcome \in [Workers -> Outcomes]
  BY SyncAssumption DEF ReceivePage, storeVars, Workers, TypeInv, SyncTypeOK
<1>2. /\ now \in Int /\ call[w].asked \in Nat /\ call[w].tip \in Nat /\ call[w].to \in Nat
      /\ stream[w].next \in Nat
  BY <1>1, FieldTypes
<1>3. /\ size \in Nat
      /\ page = stream[w].next .. stream[w].next + size - 1
      /\ call[w].to = NoTime /\ size # PageSize => now < stream[w].next + size
  <2>1. now \in Times
    BY DEF TypeInv, SyncTypeOK
  <2> QED BY <1>2, <2>1, PageIsInterval
<1>4. call[w].asked <= now /\ call[w].tip <= stream[w].next
  BY <1>1 DEF StreamOf, Resuming
<1>5. CASE page = {}
  <2>1. EndsWith(w, "synced") /\ stream' = stream
    BY <1>1, <1>5 DEF ReceivePage
  <2>2. size = 0
    BY <1>2, <1>3, <1>5
  <2>3. call[w].to = NoTime => call[w].asked < stream[w].next
    BY <1>2, <1>3, <1>4, <2>2, SyncAssumption
  <2>4. stage'[w] = "release" /\ stream[w].chunk = Nothing
    BY <1>1, <2>1 DEF EndsWith, StreamOf
  <2> QED BY <1>1, <1>4, <2>1, <2>3, <2>4 DEF StreamOf, Resuming
<1>6. CASE page # {}
  <2> DEFINE received == [next |-> stream[w].next + size,
                          chunk |-> [rows |-> {} \cup page, stale |-> {} \cup (page \cap {now})],
                          more |-> size = PageSize,
                          failures |-> 0]
  <2>1. /\ stream' = [stream EXCEPT ![w] = received]
        /\ stage' = [stage EXCEPT ![w] = "save"]
    BY <1>1, <1>6 DEF ReceivePage, Nothing
  <2>2. stream'[w] = received /\ stage'[w] = "save"
    BY <1>1, <2>1
  <2>3. /\ stream'[w].next = stream[w].next + size /\ stream'[w].chunk.rows = page
        /\ stream'[w].chunk.stale \subseteq {now}
    BY <2>2
  <2>4. ~stream'[w].more => size # PageSize
    <3>1. size = PageSize => received.more = TRUE
      OBVIOUS
    <3> QED BY <2>2, <3>1
  <2> HIDE DEF received, size, page
  <2>5. stream'[w].chunk.rows = stream[w].next .. stream'[w].next - 1
    BY <1>2, <1>3, <2>3
  <2>6. \A t \in stream'[w].chunk.stale : call[w].asked <= t
    BY <1>4, <2>3
  <2>7. call[w].to = NoTime /\ ~stream'[w].more => call[w].asked < stream'[w].next
    BY <1>2, <1>3, <1>4, <2>3, <2>4
  <2>8. call[w].tip <= stream'[w].next
    BY <1>2, <1>3, <1>4, <2>3
  <2> QED BY <1>1, <1>2, <1>4, <2>2, <2>5, <2>6, <2>7, <2>8 DEF StreamOf, Resuming
<1> QED BY <1>5, <1>6

(* A saved page is no longer in hand. *)
LEMMA SavedStream ==
  ASSUME TypeInv, NEW w \in SyncWorkers, StreamOf(w), SaveChunk(w)
  PROVE  /\ StreamOf(w)'
         /\ stream'[w].next = stream[w].next /\ stream'[w].chunk = Nothing
<1>1. /\ stage[w] = "save" /\ UNCHANGED <<now, call>> /\ w \in Workers
      /\ stream' = [stream EXCEPT ![w].chunk = Nothing]
  BY DEF SaveChunk, Workers
<1>2. stream'[w].next = stream[w].next /\ stream'[w].chunk = Nothing
  BY <1>1 DEF TypeInv, SyncTypeOK, Streams
<1>3. /\ call[w].asked <= now /\ call[w].tip <= stream[w].next
      /\ call[w].to = NoTime /\ ~stream[w].more => call[w].asked < stream[w].next
  BY <1>1 DEF StreamOf, Resuming
<1>4. CASE stream[w].more
  <2>1. stage'[w] = "page"
    BY <1>1, <1>4 DEF SaveChunk, TypeInv, SyncTypeOK
  <2> QED BY <1>1, <1>2, <1>3, <2>1 DEF StreamOf, Resuming
<1>5. CASE ~stream[w].more
  <2>1. stage'[w] = "release"
    BY <1>1, <1>5 DEF SaveChunk, EndsWith, TypeInv, SyncTypeOK
  <2> QED BY <1>1, <1>2, <1>3, <1>5, <2>1 DEF StreamOf, Resuming
<1> QED BY <1>2, <1>4, <1>5

(* A sync starts at its anchor, if it has one. *)
LEMMA StartedStream ==
  ASSUME TypeInv, NEW w \in SyncWorkers, StreamOf(w), DetermineStart(w)
  PROVE  /\ StreamOf(w)'
         /\ call'[w].market = call[w].market
         /\ call'[w].tip = NoTime \/ stream'[w].next = call'[w].tip
<1> DEFINE m == call[w].market
           start == IF call[w].from # NoTime THEN call[w].from ELSE LatestStart(m)
           tip == IF call[w].from # NoTime THEN NoTime ELSE LatestKlineTime(m)
<1>1. /\ stage[w] = "start" /\ w \in Workers /\ now' = now /\ stage' = [stage EXCEPT ![w] = "page"]
      /\ call' = [call EXCEPT ![w].tip = tip, ![w].asked = now]
      /\ stream' = [stream EXCEPT ![w].next = start]
  BY DEF DetermineStart, Workers, storeVars
<1>2. /\ call'[w].tip = tip /\ call'[w].asked = now /\ call'[w].market = m
      /\ stream'[w].next = start /\ stream'[w].chunk = stream[w].chunk
      /\ stage'[w] = "page"
  BY <1>1 DEF TypeInv, SyncTypeOK, Streams, Calls
<1>3. start \in Nat /\ tip \in Nat /\ (tip = NoTime \/ start = tip) /\ NoTime = 0
  <2>1. m \in Markets
    BY <1>1 DEF TypeInv, CallsAndStreams
  <2>2. call[w].from \in Nat
    BY <1>1 DEF TypeInv, SyncTypeOK, Calls
  <2>3. LatestStart(m) \in Nat /\ LatestKlineTime(m) \in Nat
    BY <2>1, LatestTimes
  <2>4. LatestKlineTime(m) # NoTime => LatestStart(m) = LatestKlineTime(m)
    BY DEF LatestStart
  <2> QED BY <2>2, <2>3, <2>4 DEF NoTime
<1>4. stream[w].chunk = Nothing /\ now \in Int
  BY <1>1, TimeAssumption DEF StreamOf, TypeInv, SyncTypeOK, Times
<1> HIDE DEF start, tip
<1> QED BY <1>1, <1>2, <1>3, <1>4 DEF StreamOf, Resuming

LEMMA StreamStep ==
  ASSUME TypeInv, [SyncNext]_syncVars, NEW w \in SyncWorkers, StreamOf(w)
  PROVE  StreamOf(w)'
<1> USE DEF Workers
<1>1. CASE Kept(w)
  <2>1. now <= now'
    BY ClockAndLists
  <2>2. now \in Int /\ now' \in Int /\ call[w].asked \in Nat
    <3>1. TypeInv'
      BY NextTypes
    <3> QED BY <3>1, FieldTypes, TimeAssumption DEF TypeInv, SyncTypeOK, Times
  <2> QED BY <1>1, <2>1, <2>2 DEF Kept, StreamOf, Resuming
<1>2. CASE CrashSync \/ Collect(w)
  <2>1. stage'[w] = "idle" /\ stream'[w].chunk = Nothing
    BY <1>2 DEF CrashSync, Collect, TypeInv, SyncTypeOK, NoStream
  <2> QED BY <2>1 DEF StreamOf, Resuming
<1>3. CASE Requested(w)
  <2>1. stage[w] = "idle" /\ stage'[w] = "guard" /\ stream' = stream
    BY <1>3, SyncAssumption DEF Requested, Request, TypeInv, SyncTypeOK
  <2> QED BY <2>1 DEF StreamOf, Resuming
<1>4. CASE Acquire(w)
  <2>1. stage[w] = "guard" /\ stage'[w] \in {"done", "start"} /\ stream' = stream
    BY <1>4 DEF Acquire, TypeInv, SyncTypeOK
  <2> QED BY <2>1 DEF StreamOf, Resuming
<1>5. CASE Release(w)
  <2>1. stage'[w] = "done"
    BY <1>5 DEF Release, TypeInv, SyncTypeOK
  <2> QED BY <2>1 DEF StreamOf, Resuming
<1>6. CASE Failure(w) \/ Abandon(w)
  <2>1. stage'[w] = "release" /\ outcome'[w] # "synced"
    BY <1>6 DEF Failure, Abandon, EndsWith, TypeInv, SyncTypeOK
  <2> QED BY <2>1 DEF StreamOf, Resuming
<1>7. CASE TransientFailure(w)
  <2>1. CASE EndsWith(w, "failed")
    <3>1. stage'[w] = "release" /\ outcome'[w] # "synced"
      BY <2>1 DEF EndsWith, TypeInv, SyncTypeOK
    <3> QED BY <3>1 DEF StreamOf, Resuming
  <2>2. CASE stream' = [stream EXCEPT ![w].failures = @ + 1] /\ UNCHANGED <<stage, outcome>>
    <3>1. /\ stream'[w].chunk = stream[w].chunk /\ stream'[w].next = stream[w].next
          /\ stage[w] = "page" /\ UNCHANGED <<stage, outcome, now, call>>
      BY <1>7, <2>2 DEF TransientFailure, storeVars, TypeInv, SyncTypeOK, Streams
    <3> QED BY <3>1 DEF StreamOf, Resuming
  <2> QED BY <1>7, <2>1, <2>2 DEF TransientFailure
<1> QED
  BY <1>1, <1>2, <1>3, <1>4, <1>5, <1>6, <1>7, StepOfWorker,
     StartedStream, ReceivedStream, SavedStream
  DEF OwnStep, WorkerStep

(* A repair keeps to its gap, step by step. *)
LEMMA RepairStep ==
  ASSUME AgeInv, [SyncNext]_syncVars, NEW w \in RepairWorkers, RepairOf(w)
  PROVE  RepairOf(w)'
<1> USE DEF AgeInv, GuardInv
<1>1. w \in Workers /\ w \notin SyncWorkers
  BY SyncAssumption DEF Workers
<1>2. stage \in [Workers -> Stages] /\ stream \in [Workers -> Streams] /\ call \in [Workers -> Calls]
  BY DEF TypeInv, SyncTypeOK
<1>3. Repairing(w) => call[w].market \in Markets
  BY <1>1 DEF Repairing, TypeInv, CallsAndStreams
<1>4. CASE CrashSync \/ Collect(w)
  <2>1. stage'[w] = "idle"
    BY <1>1, <1>2, <1>4 DEF CrashSync, Collect
  <2> QED BY <2>1 DEF RepairOf, Repairing
<1>5. CASE /\ Repairing(w)' => Repairing(w)
           /\ call'[w] = call[w] /\ stream'[w].next = stream[w].next
           /\ stream'[w].chunk = stream[w].chunk
  <2>1. CASE \A m \in Markets : listed[m] \subseteq listed'[m]
    BY <1>3, <1>5, <2>1 DEF RepairOf
  <2> QED BY <1>4, <2>1, ClockAndLists
<1>6. CASE Kept(w)
  BY <1>5, <1>6 DEF Kept, Repairing
<1>7. CASE Requested(w)
  <2> PICK m \in Markets, halted \in BOOLEAN :
        \E g \in listed[m] : RequestRepair(w, m, g, halted)
    BY <1>1, <1>7 DEF Requested
  <2>1. PICK g \in listed[m] : RequestRepair(w, m, g, halted)
    OBVIOUS
  <2>2. /\ stage[w] = "idle" /\ UNCHANGED listed
        /\ call'[w] = [NoCall EXCEPT !.market = m, !.from = FetchStart(g), !.to = FetchEnd(g)]
        /\ stream' = [stream EXCEPT ![w].next = FetchStart(g)]
    BY <1>1, <1>2, <2>1 DEF RequestRepair
  <2>3. /\ call'[w].market = m /\ call'[w].to = FetchEnd(g)
        /\ stream'[w].next = FetchStart(g) /\ stream'[w].chunk = stream[w].chunk
    BY <1>1, <1>2, <2>2 DEF NoCall, Streams
  <2>4. stream[w].chunk = Nothing
    BY <1>1, <2>2 DEF Ages, RepairsOfClosed
  <2>5. g.start < FetchStart(g) /\ FetchEnd(g) < g.end
    <3>1. g.start \in Int /\ g.end \in Int
      BY TimeAssumption DEF TypeInv, SyncTypeOK, Times
    <3> QED BY <3>1 DEF FetchStart, FetchEnd
  <2>6. g \in listed'[call'[w].market]
    BY <2>2, <2>3
  <2> QED BY <2>3, <2>4, <2>5, <2>6 DEF RepairOf, Nothing
<1>8. CASE Acquire(w) \/ DetermineStart(w) \/ Release(w)
  BY <1>8 DEF Acquire, DetermineStart, Release, RepairsUnguarded
<1>9. CASE Failure(w) \/ Abandon(w) \/ SaveChunk(w)
  <2>1. stage'[w] = "done"
    BY <1>1, <1>2, <1>9 DEF Failure, Abandon, SaveChunk, EndsWith
  <2> QED BY <2>1 DEF RepairOf, Repairing
<1>10. CASE TransientFailure(w)
  <2>1. stage[w] = "page" /\ call' = call
        /\ stream'[w].next = stream[w].next /\ stream'[w].chunk = stream[w].chunk
    BY <1>1, <1>2, <1>10 DEF TransientFailure, Streams
  <2> QED BY <1>5, <2>1 DEF Repairing
<1>11. CASE ReceivePage(w)
  <2> DEFINE page == PageOf(stream[w].next, call[w].to)
             received == [next |-> stream[w].next + Cardinality(page),
                          chunk |-> [rows |-> stream[w].chunk.rows \cup page,
                                     stale |-> stream[w].chunk.stale \cup (page \cap {now})],
                          more |-> Cardinality(page) = PageSize,
                          failures |-> 0]
  <2>1. stage[w] = "page" /\ call' = call /\ UNCHANGED listed
    BY <1>11 DEF ReceivePage
  <2>2. PICK g \in listed[call[w].market] :
          /\ g.start < stream[w].next /\ call[w].to < g.end
          /\ \A t \in stream[w].chunk.rows : g.start < t /\ t < g.end
    BY <2>1 DEF RepairOf, Repairing
  <2>3. g.start \in Int /\ g.end \in Int
    BY <1>3, <2>1, TimeAssumption DEF Repairing, TypeInv, SyncTypeOK, Times
  <2>4. /\ stream[w].next \in Nat /\ call[w].to \in Nat /\ now \in Times
        /\ call[w].to # NoTime
    BY <1>1, <2>1, FieldTypes DEF TypeInv, SyncTypeOK, Ages, RepairsOfClosed, Repairing, NoTime
  <2>5. Cardinality(page) \in Nat /\ \A t \in page : stream[w].next <= t /\ t <= call[w].to
    <3>1. Cardinality(page) \in Nat /\ \A t \in page : t <= call[w].to
      BY <2>4, PageIsFinite
    <3>2. \A t \in page : stream[w].next <= t
      BY DEF PageOf
    <3> QED BY <3>1, <3>2
  <2>6. CASE stream' = stream /\ EndsWith(w, "synced")
    BY <1>5, <2>1, <2>6 DEF Repairing
  <2>7. CASE stream' = [stream EXCEPT ![w] = received]
    <3>1. /\ stream'[w].next = stream[w].next + Cardinality(page)
          /\ stream'[w].chunk.rows = stream[w].chunk.rows \cup page
      BY <1>1, <1>2, <2>7
    <3>2. page \subseteq Int
      BY <2>4, TimeAssumption DEF PageOf, Times
    <3> HIDE DEF page, received
    <3>3. g.start < stream'[w].next
      BY <2>2, <2>3, <2>4, <2>5, <3>1
    <3>4. \A t \in page : g.start < t /\ t < g.end
      BY <2>2, <2>3, <2>4, <2>5, <3>2
    <3> QED BY <2>1, <2>2, <3>1, <3>3, <3>4 DEF RepairOf
  <2> QED BY <1>1, <1>11, <2>6, <2>7 DEF ReceivePage
<1> QED
  BY <1>4, <1>6, <1>7, <1>8, <1>9, <1>10, <1>11, <1>1, StepOfWorker DEF OwnStep, WorkerStep

(* An anchor that is there after a step was there before it: only the sync *)
(* itself may have brought it back, for repairs stay inside gaps that were *)
(* listed, and the guard keeps other syncs out.                            *)
LEMMA AnchorWasThere ==
  ASSUME AgeInv, RepairsInGaps, [SyncNext]_syncVars, NEW w \in SyncWorkers, Resuming(w),
         call'[w] = call[w], ~CrashSync, ~SaveChunk(w), StillAnchored(w)'
  PROVE  StillAnchored(w) /\ rows[call[w].market] \subseteq rows'[call[w].market]
<1> USE DEF AgeInv, GuardInv
<1> DEFINE m == call[w].market
           tip == call[w].tip
<1>1. w \in Workers /\ m \in Markets
  BY DEF Workers, Resuming, TypeInv, CallsAndStreams
<1>2. /\ tip \in rows'[m]
      /\ \A g \in listed'[m] : ~(g.start < tip /\ tip < g.end)
  BY DEF StillAnchored
<1>3. \A g \in listed[m] : ~(g.start < tip /\ tip < g.end)
  BY <1>1, <1>2, ClockAndLists
<1>4. CASE UNCHANGED rows
  BY <1>2, <1>3, <1>4 DEF StillAnchored
<1>5. CASE \A k \in Markets : rows'[k] = rows[k] \/ rows'[k] = {}
  <2>1. rows'[m] = rows[m]
    BY <1>1, <1>2, <1>5
  <2> QED BY <1>2, <1>3, <2>1 DEF StillAnchored
<1>6. ASSUME NEW v \in Workers, SaveChunk(v)
      PROVE  StillAnchored(w) /\ rows[m] \subseteq rows'[m]
  <2>1. v # w
    BY <1>6
  <2>2. CASE call[v].market # m
    <3>1. rows'[m] = rows[m]
      BY <1>1, <1>6, <2>2, SaveChunkFacts
    <3> QED BY <1>2, <1>3, <3>1 DEF StillAnchored
  <2>3. CASE call[v].market = m
    <3>1. /\ stage[v] = "save"
          /\ rows'[m] = rows[m] \cup stream[v].chunk.rows
      BY <1>6, <2>3, SaveChunkFacts
    <3>2. v \in RepairWorkers
      BY <2>1, <2>3, <3>1 DEF Workers, OneFetchPerMarket, Fetching, Resuming
    <3>3. PICK g \in listed[m] : \A t \in stream[v].chunk.rows : g.start < t /\ t < g.end
      BY <2>3, <3>1, <3>2 DEF RepairsInGaps, RepairOf, Repairing
    <3>4. tip \notin stream[v].chunk.rows
      BY <1>3, <3>3
    <3> QED BY <1>2, <1>3, <3>1, <3>4 DEF StillAnchored
  <2> QED BY <2>2, <2>3
<1> QED BY <1>4, <1>5, <1>6, RowsSavedOrWiped

(* What was gone through and stored stays stored, as it closed. *)
LEMMA StillCovered ==
  ASSUME AgeInv, RepairsInGaps, [SyncNext]_syncVars, NEW w \in SyncWorkers,
         Resuming(w), StillAnchored(w) => Covered(w), call'[w] = call[w],
         stream'[w].next = stream[w].next, stream'[w].chunk = stream[w].chunk,
         ~CrashSync, ~SaveChunk(w), StillAnchored(w)'
  PROVE  Covered(w)'
<1> DEFINE m == call[w].market
<1>1. m \in Markets
  BY DEF AgeInv, GuardInv, Workers, Resuming, TypeInv, CallsAndStreams
<1>2. Covered(w) /\ rows[m] \subseteq rows'[m]
  BY AnchorWasThere
<1>3. (rows[m] \ stale[m]) \cap stale'[m] = {}
  BY <1>1, StepKeepsFinal
<1> QED BY <1>2, <1>3 DEF Covered

(* A sync that saves its page has then stored all it went through; if the  *)
(* page brought back the anchor, it was the first.                         *)
LEMMA SavedCovers ==
  ASSUME AgeInv, NEW w \in SyncWorkers, StreamOf(w), StillAnchored(w) => Covered(w),
         SaveChunk(w), StillAnchored(w)'
  PROVE  Covered(w)'
<1> USE DEF AgeInv, GuardInv
<1> DEFINE m == call[w].market
           tip == call[w].tip
           next == stream[w].next
           chunk == stream[w].chunk
<1>1. w \in Workers
  BY DEF Workers
<1>2. /\ call' = call /\ listed' = listed
      /\ rows'[m] = rows[m] \cup chunk.rows
      /\ stale'[m] = (stale[m] \ chunk.rows) \cup chunk.stale
      /\ stage[w] = "save"
  BY <1>1, SaveChunkFacts
<1>3. stream'[w].next = next /\ stream'[w].chunk = Nothing
  BY SavedStream
<1>4. PICK first \in Nat : tip <= first /\ chunk.rows = first .. next - 1
  BY <1>2 DEF StreamOf
<1>5. \A t \in chunk.stale : call[w].asked <= t
  BY <1>2 DEF StreamOf
<1>6. tip \in Nat /\ next \in Nat /\ call[w].asked \in Nat /\ chunk.stale \subseteq Nat
  BY <1>1, FieldTypes
<1>7. tip \in rows'[m] /\ \A g \in listed[m] : ~(g.start < tip /\ tip < g.end)
  BY <1>2 DEF StillAnchored
<1> HIDE DEF m, tip, next, chunk
<1>8. ASSUME NEW t \in tip .. next - 1
      PROVE  t \in chunk.rows \/ (t \in rows[m] /\ (t < call[w].asked => t \notin stale[m]))
  <2>1. CASE tip \in rows[m]
    BY <1>7, <2>1 DEF StillAnchored, Covered, m, tip, next, chunk
  <2>2. CASE tip \in chunk.rows
    BY <1>4, <1>6, <2>2
  <2> QED BY <1>2, <1>7, <2>1, <2>2
<1>9. ASSUME NEW t \in tip .. next - 1
      PROVE  t \in rows'[m] /\ (t < call[w].asked => t \notin stale'[m])
  <2>1. t < call[w].asked => t \notin chunk.stale
    BY <1>5, <1>6
  <2> QED BY <1>2, <1>8, <2>1
<1>10. call'[w] = call[w]
  BY <1>2
<1> QED BY <1>3, <1>9, <1>10 DEF Covered, m, tip, next

(* Nothing is skipped, step by step. *)
LEMMA AnchorStep ==
  ASSUME AgeInv, RepairsInGaps, [SyncNext]_syncVars, NEW w \in SyncWorkers, StreamOf(w),
         Resuming(w) /\ StillAnchored(w) => Covered(w), Resuming(w)', StillAnchored(w)'
  PROVE  Covered(w)'
<1> USE DEF AgeInv, GuardInv
<1>1. /\ w \in Workers /\ stage \in [Workers -> Stages] /\ outcome \in [Workers -> Outcomes]
      /\ stream \in [Workers -> Streams] /\ call \in [Workers -> Calls]
  BY DEF Workers, TypeInv, SyncTypeOK
<1>2. ~CrashSync
  BY <1>1 DEF CrashSync, Resuming
<1>3. CASE /\ Resuming(w) /\ call'[w] = call[w] /\ stream'[w].next = stream[w].next
           /\ stream'[w].chunk = stream[w].chunk /\ ~SaveChunk(w)
  BY <1>2, <1>3, StillCovered
<1>4. CASE SaveChunk(w)
  <2>1. Resuming(w)
    BY <1>4 DEF SaveChunk, Resuming
  <2> QED BY <1>4, <2>1, SavedCovers
<1>5. CASE Kept(w) /\ ~SaveChunk(w)
  BY <1>3, <1>5 DEF Kept, Resuming
<1>6. CASE \/ Requested(w) \/ Collect(w) \/ Acquire(w) \/ Release(w) \/ Failure(w) \/ Abandon(w)
  <2>1. CASE Requested(w)
    BY <1>1, <2>1, SyncAssumption DEF Requested, Request, Resuming
  <2>2. CASE Collect(w) \/ Acquire(w) \/ Release(w)
    BY <1>1, <2>2 DEF Collect, Acquire, Release, Resuming
  <2>3. CASE Failure(w) \/ Abandon(w)
    BY <1>1, <2>3 DEF Failure, Abandon, EndsWith, Resuming
  <2> QED BY <1>6, <2>1, <2>2, <2>3
<1>7. CASE TransientFailure(w)
  <2>1. CASE EndsWith(w, "failed")
    BY <1>1, <2>1 DEF EndsWith, Resuming
  <2>2. CASE stream' = [stream EXCEPT ![w].failures = @ + 1]
    <3>1. /\ stage[w] = "page" /\ call' = call
          /\ stream'[w].next = stream[w].next /\ stream'[w].chunk = stream[w].chunk
      BY <1>1, <1>7, <2>2 DEF TransientFailure, Streams
    <3> QED BY <1>3, <1>4, <3>1 DEF Resuming
  <2> QED BY <1>7, <2>1, <2>2 DEF TransientFailure
<1>8. CASE DetermineStart(w)
  <2>1. /\ call'[w].market \in Markets
        /\ call'[w].tip = NoTime \/ stream'[w].next = call'[w].tip
    <3>1. call[w].market \in Markets
      BY <1>1, <1>8 DEF TypeInv, CallsAndStreams, DetermineStart
    <3> QED BY <1>8, <3>1, StartedStream
  <2>2. call'[w].tip \in rows'[call'[w].market] /\ rows' = rows
    BY <1>8 DEF StillAnchored, DetermineStart, storeVars
  <2>3. call'[w].tip # NoTime /\ call'[w].tip \in Int
    BY <2>1, <2>2, TimeAssumption DEF TypeInv, SyncTypeOK, Times, NoTime
  <2>4. call'[w].tip .. stream'[w].next - 1 = {}
    BY <2>1, <2>3
  <2> QED BY <2>4 DEF Covered
<1>9. CASE ReceivePage(w)
  <2>1. /\ stage[w] = "page" /\ call' = call /\ rows' = rows /\ stale' = stale /\ listed' = listed
    BY <1>9 DEF ReceivePage, storeVars
  <2>2. CASE stream' = stream
    BY <1>3, <1>4, <2>1, <2>2 DEF Resuming
  <2>3. CASE stream' # stream
    <3> DEFINE page == PageOf(stream[w].next, call[w].to)
               size == Cardinality(page)
               received == [next |-> stream[w].next + size,
                            chunk |-> [rows |-> {} \cup page,
                                       stale |-> {} \cup (page \cap {now})],
                            more |-> size = PageSize,
                            failures |-> 0]
    <3>1. stream' = [stream EXCEPT ![w] = received]
      BY <1>9, <2>3 DEF ReceivePage, Nothing
    <3>2. stream'[w].next = stream[w].next + size /\ stream'[w].chunk.rows = page
      BY <1>1, <3>1
    <3>3. stream[w].next \in Nat /\ call[w].to \in Nat /\ call[w].tip \in Nat /\ now \in Times
      BY <1>1, FieldTypes DEF TypeInv, SyncTypeOK
    <3>4. size \in Nat /\ page = stream[w].next .. stream[w].next + size - 1
      BY <3>3, PageIsInterval
    <3>5. StillAnchored(w)
      BY <2>1 DEF StillAnchored
    <3>6. Covered(w) /\ stream[w].chunk.rows = {}
      BY <2>1, <3>5 DEF Resuming, StreamOf, Nothing
    <3> HIDE DEF page, size, received
    <3>7. ASSUME NEW t \in call[w].tip .. stream'[w].next - 1
          PROVE  t \in page \/ t \in call[w].tip .. stream[w].next - 1
      BY <3>2, <3>3, <3>4
    <3> QED BY <2>1, <3>2, <3>6, <3>7 DEF Covered
  <2> QED BY <2>2, <2>3
<1> QED
  BY <1>1, <1>2, <1>4, <1>5, <1>6, <1>7, <1>8, <1>9, StepOfWorker DEF OwnStep, WorkerStep

LEMMA InitProgress == SyncInit => Progress
<1> SUFFICES ASSUME SyncInit PROVE Progress
  OBVIOUS
<1>1. \A w \in Workers : stage[w] = "idle" /\ stream[w].chunk = Nothing
  BY DEF SyncInit, NoStream
<1> QED
  BY <1>1
  DEF Workers, Progress, StreamsInHand, StreamOf, RepairsInGaps, RepairOf, Repairing,
      NothingSkipped, Resuming

(* The three parts together are inductive. *)
LEMMA NextProgress == ProgressInv /\ [SyncNext]_syncVars => Progress'
<1> SUFFICES ASSUME ProgressInv, [SyncNext]_syncVars PROVE Progress'
  OBVIOUS
<1> USE DEF ProgressInv, Progress
<1>1. StreamsInHand'
  BY StreamStep DEF StreamsInHand, AgeInv, GuardInv
<1>2. RepairsInGaps'
  BY RepairStep DEF RepairsInGaps
<1>3. NothingSkipped'
  BY AnchorStep DEF NothingSkipped, StreamsInHand
<1> QED BY <1>1, <1>2, <1>3

LEMMA SyncProgress == SyncSpec => []ProgressInv
<1>1. SyncInit => ProgressInv
  BY InitTypes, InitGuard, InitAges, InitProgress DEF ProgressInv, AgeInv, GuardInv
<1>2. ProgressInv /\ [SyncNext]_syncVars => ProgressInv'
  BY NextTypes, NextGuard, NextAges, NextProgress DEF ProgressInv, AgeInv, GuardInv
<1> QED BY <1>1, <1>2, PTL DEF SyncSpec

(* A resumed sync that reports success has stored every candle from the    *)
(* newest there was to the last closed when it looked, as they closed, for *)
(* any size of page, number of retries and backlog, and whatever repairs   *)
(* and deletions happen in the meantime (_determine_start_time,            *)
(* _generate_raw_klines_with_retry).                                       *)
THEOREM SyncCatchesUpHolds == SyncSpec => []SyncCatchesUp
<1>1. ProgressInv => SyncCatchesUp
  <2> SUFFICES ASSUME ProgressInv, NEW w \in SyncWorkers,
                      stage[w] = "release", outcome[w] = "synced",
                      call[w].to = NoTime, StillAnchored(w),
                      NEW t \in call[w].tip .. call[w].asked - 1
               PROVE  t \in rows[call[w].market] \ stale[call[w].market]
    BY DEF SyncCatchesUp
  <2>1. /\ Covered(w) /\ stream[w].chunk = Nothing /\ call[w].asked < stream[w].next
    BY DEF ProgressInv, Progress, NothingSkipped, StreamsInHand, StreamOf, Resuming
  <2>2. call[w].asked \in Nat /\ call[w].tip \in Nat /\ stream[w].next \in Nat
    BY FieldTypes DEF ProgressInv, AgeInv, GuardInv, Workers
  <2>3. t \in call[w].tip .. stream[w].next - 1 /\ t < call[w].asked
    BY <2>1, <2>2
  <2> QED BY <2>1, <2>3 DEF Covered, Nothing
<1> QED BY <1>1, SyncProgress, PTL

(* The holes of a market that a stretch of candles is added to: none is    *)
(* new when the stretch connects to a row there was.                       *)
LEMMA NoNewHole ==
  ASSUME NEW old \in SUBSET Nat, NEW tip \in Nat, NEW first \in Nat, NEW next \in Nat,
         tip <= first, old = {} \/ (tip \in old /\ \A t \in tip .. first - 1 : t \in old),
         NEW t \in Nat, t \notin old, t \notin first .. next - 1,
         NEW s \in old \cup (first .. next - 1), NEW u \in old \cup (first .. next - 1),
         s < t, t < u
  PROVE  \E r, v \in old : r < t /\ t < v
<1>1. CASE old = {}
  BY <1>1
<1>2. CASE tip \in old /\ \A r \in tip .. first - 1 : r \in old
  <2>1. CASE t < tip
    <3>1. s \in old
      BY <2>1
    <3> QED BY <1>2, <2>1, <3>1
  <2>2. CASE ~(t < tip)
    <3>1. t >= next /\ tip < t
      BY <1>2, <2>2
    <3>2. u \in old
      BY <3>1
    <3> QED BY <1>2, <3>1, <3>2
  <2> QED BY <2>1, <2>2
<1> QED BY <1>1, <1>2

(* A resumed sync leaves no new hole behind, whether it ends, is cancelled *)
(* between two pages or fails: what it saves connects to the candle it     *)
(* started from (_generate_raw_klines_with_retry, save_klines).            *)
THEOREM SyncLeavesNoHoleHolds == SyncSpec => SyncLeavesNoHole
<1> DEFINE Step ==
             \A w \in SyncWorkers, m \in Markets :
               /\ stage[w] = "save" /\ stage'[w] # "save"
               /\ call[w].market = m /\ call[w].from = NoTime
               /\ StillAnchored(w) \/ rows[m] = {}
               => Holes(m)' \subseteq Holes(m)
<1>1. ProgressInv /\ [SyncNext]_syncVars => Step
  <2> SUFFICES ASSUME ProgressInv, [SyncNext]_syncVars, NEW w \in SyncWorkers, NEW m \in Markets,
                      stage[w] = "save", stage'[w] # "save", call[w].market = m,
                      StillAnchored(w) \/ rows[m] = {},
                      NEW t \in Holes(m)'
               PROVE  t \in Holes(m)
    OBVIOUS
  <2> USE DEF ProgressInv, AgeInv, GuardInv
  <2>1. t \in Times \ rows'[m] /\ \E s, u \in rows'[m] : s < t /\ t < u
    BY DEF Holes
  <2>2. CASE rows'[m] = rows[m]
    BY <2>1, <2>2 DEF Holes
  <2>3. CASE SaveChunk(w)
    <3> DEFINE tip == call[w].tip
               next == stream[w].next
               chunk == stream[w].chunk
    <3>1. w \in Workers /\ rows'[m] = rows[m] \cup chunk.rows
      BY <2>3, SaveChunkFacts DEF Workers
    <3>2. PICK first \in Nat : tip <= first /\ chunk.rows = first .. next - 1
      BY DEF Progress, StreamsInHand, StreamOf
    <3>3. rows[m] = {} \/ (tip \in rows[m] /\ Covered(w))
      BY DEF Progress, NothingSkipped, StillAnchored, Resuming
    <3>4. tip \in Nat /\ next \in Nat /\ rows[m] \in SUBSET Nat /\ Times \subseteq Nat
      BY <3>1, FieldTypes, TimeAssumption DEF TypeInv, SyncTypeOK, Times
    <3>5. PICK s \in rows'[m], u \in rows'[m] : s < t /\ t < u
      BY <2>1
    <3> HIDE DEF tip, next, chunk
    <3>6. ASSUME Covered(w), NEW r \in tip .. first - 1, first <= next
          PROVE  r \in rows[m]
      <4>1. r \in tip .. next - 1 /\ r \notin chunk.rows
        BY <3>2, <3>4, <3>6
      <4> QED BY <3>6, <4>1 DEF Covered, tip, next, chunk
    <3>7. CASE first <= next
      <4>1. rows[m] = {} \/ (tip \in rows[m] /\ \A r \in tip .. first - 1 : r \in rows[m])
        BY <3>3, <3>6, <3>7
      <4>2. \E r, v \in rows[m] : r < t /\ t < v
        BY <2>1, <3>1, <3>2, <3>4, <3>5, <4>1, NoNewHole
      <4> QED BY <2>1, <3>1, <4>2 DEF Holes
    <3>8. CASE ~(first <= next)
      <4>1. chunk.rows = {}
        BY <3>2, <3>4, <3>8
      <4> QED BY <2>1, <3>1, <4>1 DEF Holes
    <3> QED BY <3>7, <3>8
  <2>4. rows'[m] = rows[m] \/ SaveChunk(w)
    <3>1. w \in Workers
      BY DEF Workers
    <3>2. ~Kept(w)
      BY DEF Kept
    <3>3. CASE CrashSync \/ Failure(w) \/ Abandon(w)
      BY <3>3 DEF CrashSync, Failure, Abandon, storeVars
    <3> QED
      BY <3>1, <3>2, <3>3, StepOfWorker
      DEF OwnStep, WorkerStep, Requested, Collect, Acquire, DetermineStart, ReceivePage,
          TransientFailure, Release, storeVars
  <2> QED BY <2>2, <2>3, <2>4
<1>2. ProgressInv /\ [SyncNext]_syncVars => [Step]_syncVars
  BY <1>1
<1> QED BY <1>2, SyncProgress, PTL DEF SyncSpec, SyncLeavesNoHole

-----------------------------------------------------------------------------
(* Coverage. *)

(* The oldest of some candles is one of them and no other is older. *)
LEMMA MinIsOldest ==
  ASSUME NEW S \in SUBSET Times, S # {}
  PROVE  Min(S) \in S /\ \A t \in S : Min(S) <= t
<1> DEFINE Less == OpToRel(<, Nat)
<1>1. S \subseteq Nat
  BY TimeAssumption DEF Times
<1>2. IsWellFoundedOn(Less, Nat)
  BY NatLessThanWellFounded
<1>3. \A i, j \in Nat : i < j => <<i, j>> \in Less
  BY DEF OpToRel
<1> HIDE DEF Less
<1>4. PICK u \in S : \A t \in S : ~ (<<t, u>> \in Less)
  BY <1>1, <1>2, WFMin
<1>5. \A t \in S : u <= t
  <2>1. \A t \in S : ~ (t < u)
    BY <1>1, <1>3, <1>4
  <2> QED BY <1>1, <2>1
<1> QED BY <1>5 DEF Min

(* What the aggregates of a range are, without CHOOSE. *)
LEMMA SnapshotFacts ==
  ASSUME TypeInv, NEW m \in Markets, NEW start \in SomeTimes, NEW end \in Int
  PROVE  LET closed == ClosedEnd(end)
             scope == {t \in rows[m] : start <= t /\ t < closed}
             broken == {t \in scope : t # Max(scope) /\ t + 1 \notin scope}
             snapshot == RangeSnapshot(m, start, end)
         IN  /\ closed \in Int /\ closed <= now /\ now \in Times
             /\ scope \subseteq Times
             /\ scope = {} => snapshot.first = NoTime /\ snapshot.last = NoTime
             /\ scope # {} =>
                  /\ snapshot.first \in scope /\ \A t \in scope : snapshot.first <= t
                  /\ snapshot.last \in scope /\ \A t \in scope : t <= snapshot.last
                  /\ snapshot.last = Max(scope)
             /\ broken = {} => snapshot.gapAfter = NoTime
             /\ broken # {} =>
                  snapshot.gapAfter \in broken /\ \A t \in broken : snapshot.gapAfter <= t
             /\ snapshot.total = Cardinality(scope)
             /\ snapshot.unclosed = 0
<1> DEFINE closed == ClosedEnd(end)
           scope == {t \in rows[m] : start <= t /\ t < closed}
           broken == {t \in scope : t # Max(scope) /\ t + 1 \notin scope}
<1>1. now \in Times /\ rows[m] \subseteq Times
  BY DEF TypeInv, SyncTypeOK
<1>2. closed \in Int /\ closed <= now
  BY <1>1, TimeAssumption DEF ClosedEnd, EarlierOf, Times
<1>3. scope \in SUBSET Times /\ broken \in SUBSET Times
  BY <1>1
<1>4. scope # {} => /\ Min(scope) \in scope /\ \A t \in scope : Min(scope) <= t
                    /\ Max(scope) \in scope /\ \A t \in scope : t <= Max(scope)
  BY <1>3, MinIsOldest, MaxIsNewest
<1>5. broken # {} => Min(broken) \in broken /\ \A t \in broken : Min(broken) <= t
  BY <1>3, MinIsOldest
<1>6. {t \in scope : t >= now} = {}
  BY <1>1, <1>2, <1>3, TimeAssumption DEF Times
<1>7. Cardinality({t \in scope : t >= now}) = 0
  BY <1>6, FS_EmptySet
<1>8. RangeSnapshot(m, start, end) =
        [first |-> IF scope = {} THEN NoTime ELSE Min(scope),
         last |-> IF scope = {} THEN NoTime ELSE Max(scope),
         total |-> Cardinality(scope),
         gapAfter |-> IF broken = {} THEN NoTime ELSE Min(broken),
         unclosed |-> Cardinality({t \in scope : t >= now})]
  BY DEF RangeSnapshot
<1> HIDE DEF closed, scope, broken
<1>9. /\ scope = {} => /\ RangeSnapshot(m, start, end).first = NoTime
                       /\ RangeSnapshot(m, start, end).last = NoTime
      /\ scope # {} => /\ RangeSnapshot(m, start, end).first = Min(scope)
                       /\ RangeSnapshot(m, start, end).last = Max(scope)
      /\ broken = {} => RangeSnapshot(m, start, end).gapAfter = NoTime
      /\ broken # {} => RangeSnapshot(m, start, end).gapAfter = Min(broken)
      /\ RangeSnapshot(m, start, end).total = Cardinality(scope)
      /\ RangeSnapshot(m, start, end).unclosed = 0
  BY <1>7, <1>8
<1>10. /\ scope # {} =>
            /\ RangeSnapshot(m, start, end).first \in scope
            /\ \A t \in scope : RangeSnapshot(m, start, end).first <= t
            /\ RangeSnapshot(m, start, end).last \in scope
            /\ \A t \in scope : t <= RangeSnapshot(m, start, end).last
       /\ broken # {} =>
            /\ RangeSnapshot(m, start, end).gapAfter \in broken
            /\ \A t \in broken : RangeSnapshot(m, start, end).gapAfter <= t
  BY <1>4, <1>5, <1>9
<1> QED BY <1>1, <1>2, <1>3, <1>9, <1>10 DEF closed, scope, broken

(* The first missing candle the aggregates can name. *)
MissingOf(m, start, end) ==
  LET snapshot == RangeSnapshot(m, start, end)
      from == IF start # NoTime THEN start ELSE snapshot.first
      last == ClosedEnd(end) - 1
  IN  {t \in {from} : snapshot.first = NoTime \/ snapshot.first > from} \cup
      {t + 1 : t \in {snapshot.gapAfter} \ {NoTime}} \cup
      {t + 1 : t \in {t \in {snapshot.last} : t # NoTime /\ t < last}}

(* Both verdicts look at the same rows, from the same candle. *)
LEMMA SameRange ==
  ASSUME TypeInv, NEW m \in Markets, NEW start \in SomeTimes, NEW end \in Int
  PROVE  LET closed == ClosedEnd(end)
             first == RangeSnapshot(m, start, end).first
             from == IF start # NoTime THEN start ELSE first
             fromRows == IF start # NoTime THEN start
                         ELSE IF rows[m] = {} THEN NoTime ELSE Min(rows[m])
         IN  /\ (from = NoTime \/ from >= closed) <=> (fromRows = NoTime \/ fromRows >= closed)
             /\ ~ (from = NoTime \/ from >= closed) =>
                  /\ fromRows = from
                  /\ from \in Times /\ closed \in Times
                  /\ {t \in rows[m] : start <= t /\ t < closed}
                       = {t \in rows[m] : from <= t /\ t < closed}
<1> DEFINE closed == ClosedEnd(end)
           scope == {t \in rows[m] : start <= t /\ t < closed}
           first == RangeSnapshot(m, start, end).first
<1>1. /\ closed \in Int /\ closed <= now /\ now \in Times /\ scope \subseteq Times
      /\ scope = {} => first = NoTime
      /\ scope # {} => first \in scope /\ \A t \in scope : first <= t
  BY SnapshotFacts
<1>2. rows[m] \in SUBSET Times
  BY DEF TypeInv, SyncTypeOK
<1>3. rows[m] # {} => Min(rows[m]) \in rows[m] /\ \A t \in rows[m] : Min(rows[m]) <= t
  BY <1>2, MinIsOldest
<1> HIDE DEF first, closed
<1>4. CASE start # NoTime
  BY <1>1, <1>2, <1>4, TimeAssumption DEF SomeTimes, Times, NoTime, closed, first
<1>5. CASE start = NoTime
  <2>1. scope = {t \in rows[m] : t < closed}
    BY <1>2, <1>5, TimeAssumption DEF Times, NoTime
  <2>2. CASE scope = {}
    <3>1. first = NoTime
      BY <1>1, <2>2
    <3>2. rows[m] # {} => Min(rows[m]) >= closed
      BY <1>1, <1>2, <1>3, <2>1, <2>2, TimeAssumption DEF Times
    <3> QED BY <1>5, <3>1, <3>2 DEF first, closed
  <2>3. CASE scope # {}
    <3>1. first \in scope /\ \A t \in scope : first <= t
      BY <1>1, <2>3
    <3>2. Min(rows[m]) \in scope /\ rows[m] # {}
      BY <1>1, <1>2, <1>3, <2>1, <2>3, TimeAssumption DEF Times
    <3>3. Min(rows[m]) = first
      BY <1>1, <1>2, <1>3, <2>1, <3>1, <3>2, TimeAssumption DEF Times
    <3>4. first \in Times /\ first # NoTime /\ first < closed /\ closed \in Times
      BY <1>1, <3>1, TimeAssumption DEF Times, NoTime
    <3>5. scope = {t \in rows[m] : first <= t /\ t < closed}
      BY <1>1, <1>2, <2>1, <3>1, TimeAssumption DEF Times
    <3> QED BY <1>5, <3>2, <3>3, <3>4, <3>5 DEF first, closed
  <2> QED BY <2>2, <2>3
<1> QED BY <1>4, <1>5

(* The aggregates name only candles that are missing, and the first one. *)
LEMMA FirstMissing ==
  ASSUME TypeInv, NEW m \in Markets, NEW start \in SomeTimes, NEW end \in Int
  PROVE  LET closed == ClosedEnd(end)
             first == RangeSnapshot(m, start, end).first
             from == IF start # NoTime THEN start ELSE first
             scope == {t \in rows[m] : start <= t /\ t < closed}
             missing == (from .. closed - 1) \ scope
         IN  ~ (from = NoTime \/ from >= closed) =>
               /\ MissingOf(m, start, end) \subseteq missing
               /\ missing # {} => Min(missing) \in MissingOf(m, start, end)
<1> DEFINE closed == ClosedEnd(end)
           scope == {t \in rows[m] : start <= t /\ t < closed}
           broken == {t \in scope : t # Max(scope) /\ t + 1 \notin scope}
           first == RangeSnapshot(m, start, end).first
           last == RangeSnapshot(m, start, end).last
           gapAfter == RangeSnapshot(m, start, end).gapAfter
           from == IF start # NoTime THEN start ELSE first
           missing == (from .. closed - 1) \ scope
           named == MissingOf(m, start, end)
<1> SUFFICES ASSUME ~ (from = NoTime \/ from >= closed)
             PROVE  /\ named \subseteq missing
                    /\ missing # {} => Min(missing) \in named
  OBVIOUS
<1>1. /\ scope \subseteq Times
      /\ scope = {} => first = NoTime /\ last = NoTime
      /\ scope # {} => /\ first \in scope /\ \A t \in scope : first <= t
                       /\ last \in scope /\ \A t \in scope : t <= last
                       /\ last = Max(scope)
      /\ broken = {} => gapAfter = NoTime
      /\ broken # {} => gapAfter \in broken /\ \A t \in broken : gapAfter <= t
  BY SnapshotFacts
<1>2. /\ from \in Times /\ closed \in Times /\ from < closed
      /\ scope = {t \in rows[m] : from <= t /\ t < closed}
  <2>1. /\ from \in Times /\ closed \in Times
        /\ scope = {t \in rows[m] : from <= t /\ t < closed}
    BY SameRange
  <2> QED BY <2>1, TimeAssumption DEF Times
<1>3. \A t \in scope : from <= t /\ t < closed
  BY <1>2
<1>4. named = {t \in {from} : first = NoTime \/ first > from} \cup
              {t + 1 : t \in {gapAfter} \ {NoTime}} \cup
              {t + 1 : t \in {t \in {last} : t # NoTime /\ t < closed - 1}}
  BY DEF MissingOf
<1>5. \A t \in broken : t \in scope /\ t # last /\ t + 1 \notin scope
  BY <1>1
<1>6. \A t \in scope : t # last /\ t + 1 \notin scope => t \in broken
  BY <1>1
<1> HIDE DEF closed, first, last, gapAfter, from, scope, broken, named
<1>7. \A t \in Times : t + 1 \in Int /\ t \in Int /\ t # NoTime /\ t >= 1
  BY TimeAssumption DEF Times, NoTime
<1>8. from \in Int /\ closed \in Int
  BY <1>2, <1>7
<1>9. named \subseteq missing
  <2>1. (first = NoTime \/ first > from) => from \in missing
    <3>1. (first = NoTime \/ first > from) => from \notin scope
      BY <1>1, <1>7, <1>8
    <3> QED BY <1>2, <1>8, <3>1
  <2>2. gapAfter # NoTime => gapAfter + 1 \in missing
    <3> SUFFICES ASSUME gapAfter # NoTime PROVE gapAfter + 1 \in missing
      OBVIOUS
    <3>1. gapAfter \in scope /\ gapAfter # last /\ gapAfter + 1 \notin scope
      BY <1>1, <1>5
    <3>2. last \in scope /\ gapAfter <= last
      BY <1>1, <3>1
    <3>3. gapAfter \in Int /\ last \in Int /\ from <= gapAfter /\ last < closed
      BY <1>1, <1>3, <1>7, <3>1, <3>2
    <3> QED BY <1>8, <3>1, <3>2, <3>3
  <2>3. last # NoTime /\ last < closed - 1 => last + 1 \in missing
    <3> SUFFICES ASSUME last # NoTime, last < closed - 1 PROVE last + 1 \in missing
      OBVIOUS
    <3>1. last \in scope /\ \A t \in scope : t <= last
      BY <1>1
    <3>2. last \in Int /\ from <= last
      BY <1>1, <1>3, <1>7, <3>1
    <3>3. last + 1 \notin scope
      BY <3>1, <3>2
    <3> QED BY <1>8, <3>2, <3>3
  <2> QED BY <1>4, <2>1, <2>2, <2>3
<1>10. ASSUME missing # {} PROVE Min(missing) \in named
  <2> DEFINE b == Min(missing)
  <2>1. missing \in SUBSET Times
    BY <1>2, TimeAssumption DEF Times
  <2>2. b \in missing /\ \A t \in missing : b <= t
    BY <1>10, <2>1, MinIsOldest
  <2>3. b \in Int /\ from <= b /\ b < closed /\ b \notin scope
    BY <1>8, <2>2
  <2> HIDE DEF b
  <2>4. CASE b = from
    <3>1. first = NoTime \/ first > from
      BY <1>1, <1>3, <1>7, <1>8, <2>3, <2>4
    <3> QED BY <1>4, <2>4, <3>1 DEF b
  <2>5. CASE b # from
    <3>1. b - 1 \in scope
      <4>1. b - 1 \in from .. closed - 1
        BY <1>8, <2>3, <2>5
      <4>2. b - 1 \notin missing
        BY <2>2, <2>3
      <4> QED BY <4>1, <4>2
    <3>2. CASE b - 1 = last
      <4>1. last < closed - 1 /\ last # NoTime
        BY <1>1, <1>7, <1>8, <2>3, <3>1, <3>2
      <4>2. b = last + 1
        BY <1>7, <1>1, <2>3, <3>1, <3>2
      <4> QED BY <1>4, <4>1, <4>2 DEF b
    <3>3. CASE b - 1 # last
      <4>1. b - 1 \in broken
        <5>1. b - 1 + 1 = b
          BY <2>3
        <5> QED BY <1>6, <2>3, <3>1, <3>3, <5>1
      <4>2. gapAfter \in broken /\ gapAfter <= b - 1
        BY <1>1, <4>1
      <4>3. gapAfter \in Int /\ gapAfter # NoTime
        BY <1>1, <1>5, <1>7, <4>2
      <4>4. gapAfter + 1 \in named
        BY <1>4, <4>3
      <4>5. b <= gapAfter + 1
        BY <1>9, <2>2, <4>4
      <4>6. b = gapAfter + 1
        BY <2>3, <4>2, <4>3, <4>5
      <4> QED BY <4>4, <4>6 DEF b
    <3> QED BY <3>2, <3>3
  <2> QED BY <2>4, <2>5
<1> QED BY <1>9, <1>10

(* The two verdicts on a range are one, and it names a candle or none. *)
LEMMA OneVerdict ==
  ASSUME TypeInv, NEW m \in Markets, NEW start \in SomeTimes, NEW end \in Int
  PROVE  /\ RangeCoverage(m, start, end) = CoverageOfRows(m, start, end)
         /\ RangeCoverage(m, start, end).missing \in SomeTimes
         /\ RangeCoverage(m, start, end).covered \in BOOLEAN
<1> DEFINE closed == ClosedEnd(end)
           snapshot == RangeSnapshot(m, start, end)
           from == IF start # NoTime THEN start ELSE snapshot.first
           fromRows == IF start # NoTime THEN start
                       ELSE IF rows[m] = {} THEN NoTime ELSE Min(rows[m])
           scope == {t \in rows[m] : start <= t /\ t < closed}
           broken == {t \in scope : t # Max(scope) /\ t + 1 \notin scope}
           missing == (from .. closed - 1) \ scope
           named == MissingOf(m, start, end)
           covered == /\ snapshot.first = from
                      /\ snapshot.last = closed - 1
                      /\ snapshot.total = closed - from
                      /\ snapshot.gapAfter = NoTime
                      /\ snapshot.unclosed = 0
<1>1. CASE from = NoTime \/ from >= closed
  <2>1. fromRows = NoTime \/ fromRows >= closed
    BY <1>1, SameRange
  <2>2. RangeCoverage(m, start, end) = NothingExpected
    BY <1>1 DEF RangeCoverage
  <2>3. CoverageOfRows(m, start, end) = NothingExpected
    BY <2>1 DEF CoverageOfRows
  <2> QED BY <2>2, <2>3 DEF NothingExpected, SomeTimes
<1>2. CASE ~ (from = NoTime \/ from >= closed)
  <2>1. /\ ~ (fromRows = NoTime \/ fromRows >= closed)
        /\ fromRows = from
        /\ from \in Times /\ closed \in Times
        /\ scope = {t \in rows[m] : from <= t /\ t < closed}
    BY <1>2, SameRange
  <2>2. RangeCoverage(m, start, end) =
          [covered |-> covered, expected |-> closed - from,
           missing |-> IF named = {} THEN NoTime ELSE Min(named)]
    BY <1>2 DEF RangeCoverage, MissingOf
  <2>3. CoverageOfRows(m, start, end) =
          [covered |-> missing = {} /\ \A t \in scope : t < now,
           expected |-> closed - from,
           missing |-> IF missing = {} THEN NoTime ELSE Min(missing)]
    BY <2>1 DEF CoverageOfRows
  <2>4. named \subseteq missing /\ (missing # {} => Min(missing) \in named)
    BY <1>2, FirstMissing
  <2>5. /\ closed <= now /\ now \in Times /\ scope \subseteq Times
        /\ scope # {} =>
             /\ snapshot.first \in scope /\ \A t \in scope : snapshot.first <= t
             /\ snapshot.last \in scope /\ \A t \in scope : t <= snapshot.last
             /\ snapshot.last = Max(scope)
        /\ broken = {} => snapshot.gapAfter = NoTime
        /\ snapshot.total = Cardinality(scope)
        /\ snapshot.unclosed = 0
    BY SnapshotFacts
  <2>6. named = {t \in {from} : snapshot.first = NoTime \/ snapshot.first > from} \cup
                {t + 1 : t \in {snapshot.gapAfter} \ {NoTime}} \cup
                {t + 1 : t \in {t \in {snapshot.last} : t # NoTime /\ t < closed - 1}}
    BY DEF MissingOf
  <2>7. from \in Int /\ closed \in Int /\ from < closed /\ from # NoTime /\ from >= 1
    BY <1>2, <2>1, TimeAssumption DEF Times
  <2>8. \A t \in scope : t < now
    <3>1. \A t \in scope : t \in Int /\ t < closed
      BY <2>1, <2>5, TimeAssumption DEF Times
    <3> QED BY <2>5, <2>7, <3>1, TimeAssumption DEF Times
  <2>9. missing \in SUBSET Times
    BY <2>1, TimeAssumption DEF Times
  <2> HIDE DEF from, closed, scope, broken, named, snapshot, missing, fromRows
  <2>10. covered => missing = {}
    <3>1. covered => named = {}
      BY <2>6, <2>7
    <3> QED BY <2>4, <3>1
  <2>11. missing = {} => covered
    <3> SUFFICES ASSUME missing = {} PROVE covered
      OBVIOUS
    <3>1. from .. closed - 1 \subseteq scope
      BY DEF missing
    <3>2. scope = from .. closed - 1
      <4>1. \A t \in scope : t \in Int /\ from <= t /\ t < closed
        BY <2>1, <2>5, TimeAssumption DEF Times
      <4>2. \A t \in scope : t \in from .. closed - 1
        BY <2>7, <4>1
      <4> QED BY <3>1, <4>2
    <3>3. from \in scope /\ closed - 1 \in scope
      BY <2>7, <3>2
    <3>4. snapshot.first = from /\ snapshot.last = closed - 1
      <4>1. /\ snapshot.first \in from .. closed - 1 /\ snapshot.last \in from .. closed - 1
            /\ snapshot.first <= from /\ closed - 1 <= snapshot.last
        BY <2>5, <3>2, <3>3
      <4> QED BY <2>7, <4>1
    <3>5. snapshot.total = closed - from
      <4>1. Cardinality(from .. closed - 1) = closed - 1 - from + 1
        BY <2>7, FS_Interval
      <4> QED BY <2>5, <2>7, <3>2, <4>1
    <3>6. broken = {}
      <4>1. Max(scope) = closed - 1
        BY <2>5, <3>3, <3>4
      <4>2. \A t \in scope : t # closed - 1 => t + 1 \in scope
        BY <2>7, <3>2
      <4> QED BY <4>1, <4>2 DEF broken
    <3> QED BY <2>5, <3>4, <3>5, <3>6
  <2>12. named = {} <=> missing = {}
    BY <2>4
  <2>13. named # {} => Min(named) = Min(missing) /\ Min(named) \in Times
    <3> SUFFICES ASSUME named # {} PROVE Min(named) = Min(missing) /\ Min(named) \in Times
      OBVIOUS
    <3>1. named \in SUBSET Times
      BY <2>4, <2>9
    <3>2. Min(named) \in named /\ \A t \in named : Min(named) <= t
      BY <3>1, MinIsOldest
    <3>3. Min(missing) \in missing /\ \A t \in missing : Min(missing) <= t
      BY <2>9, <2>12, MinIsOldest
    <3>4. Min(missing) \in named /\ Min(named) \in missing
      BY <2>4, <2>12, <3>2
    <3>5. Min(missing) <= Min(named) /\ Min(named) <= Min(missing)
      BY <3>2, <3>3, <3>4
    <3>6. Min(missing) \in Times /\ Min(named) \in Times
      BY <2>9, <3>1, <3>2, <3>3, <2>12
    <3>7. \A s, t \in Times : s <= t /\ t <= s => s = t
      BY TimeAssumption DEF Times
    <3> QED BY <3>5, <3>6, <3>7
  <2>14. covered <=> (missing = {} /\ \A t \in scope : t < now)
    BY <2>8, <2>10, <2>11
  <2>15. covered \in BOOLEAN
    OBVIOUS
  <2>16. (missing = {} /\ \A t \in scope : t < now) \in BOOLEAN
    OBVIOUS
  <2>17. covered = (missing = {} /\ \A t \in scope : t < now)
    BY <2>14, <2>15, <2>16
  <2>18. RangeCoverage(m, start, end) = CoverageOfRows(m, start, end)
    BY <2>2, <2>3, <2>12, <2>13, <2>17
  <2>19. RangeCoverage(m, start, end).missing \in SomeTimes
    BY <2>2, <2>13 DEF SomeTimes
  <2>20. RangeCoverage(m, start, end).covered \in BOOLEAN
    BY <2>2, <2>15
  <2> QED BY <2>18, <2>19, <2>20
<1> QED BY <1>1, <1>2

-----------------------------------------------------------------------------
(* The backtest screen. *)

(* What the events the presenter dispatches do in the states it is in.     *)
LEMMA Table ==
  \A t \in Transitions :
    /\ t[2] \in {"RUN_REQUESTED", "SYNC_REQUESTED"} => t[1] \in Restful
    /\ t[2] = "RUN_REQUESTED" => t[3] = "RUNNING"
    /\ t[2] = "SYNC_REQUESTED" => t[3] = "SYNCING"
    /\ t[2] = "CANCEL_REQUESTED" => t[1] \in {"RUNNING", "SYNCING"} /\ t[3] = "CANCELLING"
    /\ t[2] \in {"CONFIG_CHANGED", "CONFIG_RESTORED"} => t[3] \in Restful
    /\ t[1] = "CANCELLING" => t[3] \in Restful
    /\ t[2] \in {"BACKTEST_SUCCEEDED", "BACKTEST_EMPTY", "BACKTEST_FAILED", "SYNC_FAILED"}
         => t[3] \in Restful
    /\ t[2] = "SYNC_SUCCEEDED" => t[3] = "RUNNING"
BY DEF Transitions, Restful

LEMMA Accepted ==
  /\ \A s \in Restful : CanDispatch(s, "RUN_REQUESTED") /\ CanDispatch(s, "SYNC_REQUESTED")
  /\ CanDispatch("RUNNING", "CANCEL_REQUESTED") /\ CanDispatch("SYNCING", "CANCEL_REQUESTED")
  /\ CanDispatch("RUNNING", "BACKTEST_SUCCEEDED") /\ CanDispatch("RUNNING", "BACKTEST_EMPTY")
  /\ CanDispatch("RUNNING", "BACKTEST_FAILED")
  /\ CanDispatch("SYNCING", "SYNC_SUCCEEDED") /\ CanDispatch("SYNCING", "SYNC_FAILED")
  /\ \A previous : CanDispatch("CANCELLING", RestoreEvent(previous))
<1>1. \A s \in Restful : /\ <<s, "RUN_REQUESTED", "RUNNING">> \in Transitions
                         /\ <<s, "SYNC_REQUESTED", "SYNCING">> \in Transitions
  BY DEF Transitions
<1>2. /\ <<"RUNNING", "CANCEL_REQUESTED", "CANCELLING">> \in Transitions
      /\ <<"SYNCING", "CANCEL_REQUESTED", "CANCELLING">> \in Transitions
      /\ <<"RUNNING", "BACKTEST_SUCCEEDED", "COMPLETED">> \in Transitions
      /\ <<"RUNNING", "BACKTEST_EMPTY", "EMPTY_DATA">> \in Transitions
      /\ <<"RUNNING", "BACKTEST_FAILED", "ERROR">> \in Transitions
      /\ <<"SYNCING", "SYNC_SUCCEEDED", "RUNNING">> \in Transitions
      /\ <<"SYNCING", "SYNC_FAILED", "ERROR">> \in Transitions
  BY DEF Transitions
<1>3. \A previous : RestoreEvent(previous) \in
        {"BACKTEST_CANCELLED", "BACKTEST_CANCELLED_TO_CONFIG_DIRTY",
         "BACKTEST_CANCELLED_TO_COMPLETED"}
  BY DEF RestoreEvent
<1>4. /\ <<"CANCELLING", "BACKTEST_CANCELLED", "IDLE">> \in Transitions
      /\ <<"CANCELLING", "BACKTEST_CANCELLED_TO_CONFIG_DIRTY", "CONFIG_DIRTY">> \in Transitions
      /\ <<"CANCELLING", "BACKTEST_CANCELLED_TO_COMPLETED", "COMPLETED">> \in Transitions
  BY DEF Transitions
<1>5. \A s, e, n : <<s, e, n>> \in Transitions => CanDispatch(s, e)
  BY DEF CanDispatch
<1> HIDE DEF Transitions
<1>6. \A previous : CanDispatch("CANCELLING", RestoreEvent(previous))
  BY <1>3, <1>4, <1>5
<1> QED BY <1>1, <1>2, <1>5, <1>6

LEMMA Dispatched ==
  ASSUME NEW s, NEW e, CanDispatch(s, e)
  PROVE  \E t \in Transitions : t[1] = s /\ t[2] = e /\ After(s, e) = t[3]
BY DEF CanDispatch, After

LEMMA RestfulAfter ==
  /\ \A s \in Restful : /\ After(s, "RUN_REQUESTED") = "RUNNING"
                        /\ After(s, "SYNC_REQUESTED") = "SYNCING"
                        /\ After(s, "CONFIG_CHANGED") \in Restful
                        /\ After(s, "CONFIG_RESTORED") \in Restful
  /\ \A s : CanDispatch(s, "RUN_REQUESTED") \/ CanDispatch(s, "SYNC_REQUESTED")
              => s \in Restful
<1>1. \A s \in Restful : /\ After(s, "RUN_REQUESTED") = "RUNNING"
                         /\ After(s, "SYNC_REQUESTED") = "SYNCING"
  BY Accepted, Dispatched, Table
<1>2. ASSUME NEW s \in Restful, NEW e \in {"CONFIG_CHANGED", "CONFIG_RESTORED"}
      PROVE  After(s, e) \in Restful
  <2>1. CASE CanDispatch(s, e)
    BY <2>1, Dispatched, Table
  <2>2. CASE ~ CanDispatch(s, e)
    BY <2>2 DEF After
  <2> QED BY <2>1, <2>2
<1>3. \A s : CanDispatch(s, "RUN_REQUESTED") \/ CanDispatch(s, "SYNC_REQUESTED")
               => s \in Restful
  BY Table DEF CanDispatch
<1> QED BY <1>1, <1>2, <1>3

LEMMA BusyAfter ==
  /\ \A s : CanDispatch(s, "CANCEL_REQUESTED") =>
              s \in {"RUNNING", "SYNCING"} /\ After(s, "CANCEL_REQUESTED") = "CANCELLING"
  /\ \A e \in {"BACKTEST_SUCCEEDED", "BACKTEST_EMPTY", "BACKTEST_FAILED"} :
       After("RUNNING", e) \in Restful
  /\ After("SYNCING", "SYNC_SUCCEEDED") = "RUNNING"
  /\ After("SYNCING", "SYNC_FAILED") \in Restful
  /\ \A previous : After("CANCELLING", RestoreEvent(previous)) \in Restful
<1>1. \A s : CanDispatch(s, "CANCEL_REQUESTED") =>
               s \in {"RUNNING", "SYNCING"} /\ After(s, "CANCEL_REQUESTED") = "CANCELLING"
  BY Dispatched, Table
<1>2. \A e \in {"BACKTEST_SUCCEEDED", "BACKTEST_EMPTY", "BACKTEST_FAILED"} :
        CanDispatch("RUNNING", e) /\ After("RUNNING", e) \in Restful
  BY Accepted, Dispatched, Table
<1>3. /\ After("SYNCING", "SYNC_SUCCEEDED") = "RUNNING"
      /\ After("SYNCING", "SYNC_FAILED") \in Restful
  BY Accepted, Dispatched, Table
<1>4. \A previous : After("CANCELLING", RestoreEvent(previous)) \in Restful
  BY Accepted, Dispatched, Table
<1> QED BY <1>1, <1>2, <1>3, <1>4

(* The screen rests with nothing left to come, or is busy with the action  *)
(* it shows, of which one worker or one report is left; only a cancelled   *)
(* run can have lost its report.                                           *)

ActionKinds == {"none", "BACKTEST", "SYNC"}
ActionOutcomes ==
  {"none", "PENDING", "INVALIDATED", "CANCELLED", "SUCCEEDED", "FAILED", "EMPTY"}
Actions == [id : Nat, kind : ActionKinds, previous : Restful \cup Busy \cup {"none"},
            outcome : ActionOutcomes]

Steps == {"probe", "engine", "dispatch", "waiting", "verify"}
Tasks == [id : Nat, kind : {"BACKTEST", "SYNC"}, config : Configs, gap : SomeTimes,
          auto : BOOLEAN, step : Steps, cancelled : BOOLEAN]

BacktestSignals == {"coverage missing", "succeeded", "empty", "failed", "cancelled"}
SyncSignals == {"sync succeeded", "sync failed", "cancelled"}
Reports == [signal : BacktestSignals \cup SyncSignals, id : Nat, config : Configs,
            gap : SomeTimes, auto : BOOLEAN]

ScreenTypes ==
  /\ toolbar \in Toolbars
  /\ noData = NoConfig \/ noData \in Offers
  /\ action \in Actions

NothingLeft == tasks = {} /\ inbox = << >>

OneTask ==
  \E t \in Tasks :
    /\ tasks = {t} /\ inbox = << >>
    /\ t.id = action.id /\ t.kind = action.kind
    /\ t.cancelled => uiState = "CANCELLING"
    /\ t.kind = "BACKTEST" /\ t.auto => action.previous \in Restful

OneReport ==
  \E r \in Reports :
    /\ tasks = {} /\ inbox = <<r>>
    /\ r.id = action.id
    /\ r.signal \in IF action.kind = "SYNC" THEN SyncSignals ELSE BacktestSignals
    /\ r.signal = "cancelled" => uiState = "CANCELLING"
    /\ action.kind = "BACKTEST" /\ r.auto => action.previous \in Restful

OnePiece == OneTask \/ OneReport

AtRest == uiState \in Restful /\ NothingLeft

Running ==
  /\ uiState = "RUNNING" /\ OnePiece
  /\ action.outcome = "PENDING" /\ action.kind = "BACKTEST"

Syncing ==
  /\ uiState = "SYNCING" /\ OnePiece /\ noData \in Offers
  /\ action.outcome = "PENDING" /\ action.kind = "SYNC"

Cancelling ==
  /\ uiState = "CANCELLING" /\ cancelling = action.id
  /\ action.outcome = "INVALIDATED"
  /\ \/ action.kind \in {"BACKTEST", "SYNC"} /\ OnePiece
     \/ action.kind = "BACKTEST" /\ NothingLeft

ScreenInv == ScreenTypes /\ (AtRest \/ Running \/ Syncing \/ Cancelling)

(* What beginning and finishing an action leaves in the tracker. *)
LEMMA BegunAction ==
  ASSUME NEW tracker \in Actions, NEW kind \in {"BACKTEST", "SYNC"},
         NEW previous \in Restful \cup Busy
  PROVE  /\ BeginAction(tracker, kind, previous) \in Actions
         /\ BeginAction(tracker, kind, previous).id = tracker.id + 1
         /\ BeginAction(tracker, kind, previous).kind = kind
         /\ BeginAction(tracker, kind, previous).previous = previous
         /\ BeginAction(tracker, kind, previous).outcome = "PENDING"
         /\ tracker.id + 1 \in Nat /\ tracker.id + 1 # tracker.id
<1>1. tracker.id \in Nat
  BY DEF Actions
<1> QED BY <1>1 DEF BeginAction, Actions, ActionKinds, ActionOutcomes

LEMMA FinishedAction ==
  ASSUME NEW tracker \in Actions, NEW id, NEW outcome0 \in ActionOutcomes
  PROVE  /\ FinishAction(tracker, id, outcome0) \in Actions
         /\ FinishAction(tracker, id, outcome0).id = tracker.id
         /\ FinishAction(tracker, id, outcome0).kind = tracker.kind
         /\ FinishAction(tracker, id, outcome0).previous = tracker.previous
BY DEF FinishAction, Actions

(* How the screen begins a run and a sync, and how it comes to rest. *)
LEMMA StartRunInv ==
  ASSUME NEW tracker \in Actions, NEW config \in Configs, NEW previous \in Restful \cup Busy,
         NEW auto \in BOOLEAN, auto => previous \in Restful,
         StartRun(config, tracker, previous, auto),
         tasks = {}, inbox' = << >>, uiState' = "RUNNING",
         toolbar' \in Toolbars, noData' = NoConfig \/ noData' \in Offers
  PROVE  ScreenInv'
<1> DEFINE t == Task(tracker.id + 1, "BACKTEST", config, NoTime, auto)
<1>1. /\ action' \in Actions /\ action'.id = tracker.id + 1 /\ tracker.id + 1 \in Nat
      /\ action'.kind = "BACKTEST" /\ action'.previous = previous
      /\ action'.outcome = "PENDING"
  BY BegunAction DEF StartRun
<1>2. NoTime \in SomeTimes
  BY DEF SomeTimes
<1>3. /\ t \in Tasks /\ t.id = tracker.id + 1 /\ t.kind = "BACKTEST" /\ t.auto = auto
      /\ t.cancelled = FALSE
  BY <1>1, <1>2 DEF Task, Tasks, Steps
<1>4. tasks' = {t}
  BY DEF StartRun
<1> HIDE DEF t
<1>5. OneTask'
  BY <1>1, <1>3, <1>4 DEF OneTask
<1> QED BY <1>1, <1>5 DEF ScreenInv, ScreenTypes, Running, OnePiece

LEMMA StartSyncInv ==
  ASSUME NEW tracker \in Actions, NEW config \in Configs, NEW gap \in SomeTimes,
         NEW state \in Restful, StartSync(config, gap, tracker, state),
         tasks = {}, inbox' = << >>, toolbar' \in Toolbars, noData' \in Offers
  PROVE  /\ ScreenInv'
         /\ action' = BeginAction(tracker, "SYNC", state)
<1> DEFINE t == Task(tracker.id + 1, "SYNC", config, gap, FALSE)
<1>1. /\ uiState' = "SYNCING" /\ action' = BeginAction(tracker, "SYNC", state)
      /\ tasks' = {t}
  BY Accepted, RestfulAfter DEF StartSync
<1>2. /\ action' \in Actions /\ action'.id = tracker.id + 1 /\ tracker.id + 1 \in Nat
      /\ action'.kind = "SYNC" /\ action'.outcome = "PENDING"
  BY <1>1, BegunAction
<1>3. /\ t \in Tasks /\ t.id = tracker.id + 1 /\ t.kind = "SYNC"
      /\ t.cancelled = FALSE
  BY <1>2 DEF Task, Tasks, Steps
<1> HIDE DEF t
<1>4. OneTask'
  BY <1>1, <1>2, <1>3 DEF OneTask
<1> QED BY <1>1, <1>2, <1>4 DEF ScreenInv, ScreenTypes, Syncing, OnePiece

LEMMA RestInv ==
  ASSUME action' \in Actions, uiState' \in Restful, tasks' = {}, inbox' = << >>,
         toolbar' \in Toolbars, noData' = NoConfig \/ noData' \in Offers
  PROVE  ScreenInv'
BY DEF ScreenInv, ScreenTypes, AtRest, NothingLeft

(* The commands. *)
LEMMA ConfigTypes ==
  ASSUME TypeInv, ScreenInv
  PROVE  RunConfig \in Configs
<1>1. toolbar \in [market : Markets, from : SomeTimes] /\ now \in Times
  BY ScreenAssumption DEF ScreenInv, ScreenTypes, TypeInv, SyncTypeOK
<1>2. now - 1 \in 0 .. MaxTime - 1
  BY <1>1, TimeAssumption DEF Times
<1> QED BY <1>1, <1>2 DEF RunConfig, Configs

LEMMA OffersTypes ==
  ASSUME ScreenInv, noData # NoConfig
  PROVE  noData.config \in Configs /\ noData.gap \in SomeTimes
BY DEF ScreenInv, ScreenTypes, Offers

LEMMA RestfulRests ==
  ASSUME ScreenInv, uiState \notin Busy
  PROVE  uiState \in Restful /\ tasks = {} /\ inbox = << >>
BY DEF ScreenInv, AtRest, Running, Syncing, Cancelling, NothingLeft, Busy

LEMMA CancelInv ==
  ASSUME ScreenInv, CancelBacktest
  PROVE  ScreenInv'
<1>1. /\ uiState \in {"RUNNING", "SYNCING"} /\ uiState' = "CANCELLING"
      /\ cancelling' = action.id
      /\ UNCHANGED <<noData, toolbar, inbox>>
      /\ tasks' = {IF t.id = action.id THEN [t EXCEPT !.cancelled = TRUE] ELSE t : t \in tasks}
  BY BusyAfter DEF CancelBacktest
<1>2. /\ action \in Actions /\ action.outcome = "PENDING"
      /\ action.kind \in {"BACKTEST", "SYNC"} /\ OnePiece
  BY <1>1 DEF ScreenInv, ScreenTypes, AtRest, Running, Syncing, Cancelling, Restful
<1>3. action' = [action EXCEPT !.outcome = "INVALIDATED"]
  BY <1>2 DEF CancelBacktest, InvalidateActive
<1>4. /\ action' \in Actions /\ action'.outcome = "INVALIDATED"
      /\ action'.id = action.id /\ action'.kind = action.kind
      /\ action'.previous = action.previous
  BY <1>2, <1>3 DEF Actions, ActionOutcomes
<1>5. CASE OneTask
  <2>1. PICK t \in Tasks :
          /\ tasks = {t} /\ inbox = << >>
          /\ t.id = action.id /\ t.kind = action.kind
          /\ t.kind = "BACKTEST" /\ t.auto => action.previous \in Restful
    BY <1>5 DEF OneTask
  <2> DEFINE u == [t EXCEPT !.cancelled = TRUE]
  <2>2. tasks' = {u}
    BY <1>1, <2>1
  <2>3. u \in Tasks /\ u.id = t.id /\ u.kind = t.kind /\ u.auto = t.auto
    BY DEF Tasks
  <2> HIDE DEF u
  <2>4. OneTask'
    BY <1>1, <1>4, <2>1, <2>2, <2>3 DEF OneTask
  <2> QED BY <1>1, <1>2, <1>4, <2>4 DEF ScreenInv, ScreenTypes, Cancelling, OnePiece
<1>6. CASE OneReport
  <2>1. OneReport'
    BY <1>1, <1>4, <1>6 DEF OneReport
  <2> QED BY <1>1, <1>2, <1>4, <2>1 DEF ScreenInv, ScreenTypes, Cancelling, OnePiece
<1> QED BY <1>2, <1>5, <1>6 DEF OnePiece

LEMMA BacktestCommandInv ==
  ASSUME TypeInv, ScreenInv, BacktestCommand
  PROVE  ScreenInv'
<1>1. action \in Actions /\ toolbar \in Toolbars /\ (noData = NoConfig \/ noData \in Offers)
  BY DEF ScreenInv, ScreenTypes
<1>2. ASSUME uiState \in Restful
      PROVE  tasks = {} /\ inbox = << >>
  BY <1>2, RestfulRests DEF Restful, Busy
<1>3. CASE RunBacktest
  <2>1. uiState \in Restful /\ uiState' = "RUNNING"
    BY <1>3, RestfulAfter DEF RunBacktest
  <2>2. UNCHANGED <<noData, toolbar, inbox>>
    BY <1>3 DEF RunBacktest
  <2>3. StartRun(RunConfig, action, uiState, TRUE) /\ RunConfig \in Configs
    BY <1>3, ConfigTypes DEF RunBacktest
  <2>4. uiState \in Restful \cup Busy /\ TRUE \in BOOLEAN
    BY <2>1
  <2>5. /\ tasks = {} /\ inbox' = << >>
        /\ toolbar' \in Toolbars /\ (noData' = NoConfig \/ noData' \in Offers)
    BY <1>1, <1>2, <2>1, <2>2
  <2> QED BY <1>1, <2>1, <2>3, <2>4, <2>5, StartRunInv
<1>4. CASE RequestSync
  <2>1. uiState \in Restful
    BY <1>4, RestfulAfter DEF RequestSync
  <2>2. UNCHANGED <<noData, toolbar, inbox>>
    BY <1>4 DEF RequestSync
  <2>3. StartSync(noData.config, noData.gap, action, uiState)
    BY <1>4 DEF RequestSync
  <2>4. noData.config \in Configs /\ noData.gap \in SomeTimes
    BY <1>4, OffersTypes DEF RequestSync
  <2>5. tasks = {} /\ inbox' = << >> /\ toolbar' \in Toolbars /\ noData' \in Offers
    BY <1>1, <1>2, <1>4, <2>1, <2>2 DEF RequestSync
  <2> QED BY <1>1, <2>1, <2>3, <2>4, <2>5, StartSyncInv
<1>5. CASE \E inputs \in Toolbars : ChangeToolbar(inputs)
  <2>1. PICK inputs \in Toolbars : ChangeToolbar(inputs)
    BY <1>5
  <2>2. /\ uiState \in Restful /\ tasks = {} /\ inbox = << >>
        /\ toolbar' = inputs /\ UNCHANGED <<action, noData, tasks, inbox>>
        /\ \E e \in {"CONFIG_CHANGED", "CONFIG_RESTORED"} : uiState' = After(uiState, e)
    BY <2>1, RestfulRests DEF ChangeToolbar
  <2>3. uiState' \in Restful
    BY <2>2, RestfulAfter
  <2> QED BY <1>1, <2>2, <2>3, RestInv
<1>6. CASE CancelBacktest
  BY <1>6, CancelInv
<1> QED BY <1>3, <1>4, <1>5, <1>6 DEF BacktestCommand

(* The reports: one that is handled is the only piece that was left. *)
LEMMA LastReport ==
  ASSUME ScreenInv, inbox # << >>
  PROVE  /\ Report \in Reports /\ tasks = {} /\ Tail(inbox) = << >>
         /\ Report.id = action.id
         /\ Report.signal \in IF action.kind = "SYNC" THEN SyncSignals ELSE BacktestSignals
         /\ action.kind \in {"BACKTEST", "SYNC"}
         /\ Report.signal = "cancelled" => uiState = "CANCELLING"
         /\ action.kind = "BACKTEST" /\ Report.auto => action.previous \in Restful
         /\ Running \/ Syncing \/ Cancelling
<1>1. /\ OneReport /\ (Running \/ Syncing \/ Cancelling)
      /\ action.kind \in {"BACKTEST", "SYNC"}
  BY DEF ScreenInv, AtRest, Running, Syncing, Cancelling, NothingLeft, OnePiece, OneTask
<1>2. PICK r \in Reports :
        /\ tasks = {} /\ inbox = <<r>>
        /\ r.id = action.id
        /\ r.signal \in IF action.kind = "SYNC" THEN SyncSignals ELSE BacktestSignals
        /\ r.signal = "cancelled" => uiState = "CANCELLING"
        /\ action.kind = "BACKTEST" /\ r.auto => action.previous \in Restful
  BY <1>1 DEF OneReport
<1>3. Report = r /\ Tail(inbox) = << >>
  BY <1>2 DEF Report
<1> QED BY <1>1, <1>2, <1>3

LEMMA CancelledRests ==
  ASSUME ScreenInv, inbox # << >>, inbox' = Tail(inbox), CompleteCancelled
  PROVE  ScreenInv'
<1>1. uiState = "CANCELLING" /\ uiState' = After(uiState, RestoreEvent(action.previous))
  BY DEF CompleteCancelled, IsCancelling
<1>2. uiState' \in Restful
  BY <1>1, BusyAfter
<1>3. /\ action \in Actions /\ toolbar \in Toolbars
      /\ noData = NoConfig \/ noData \in Offers
  BY DEF ScreenInv, ScreenTypes
<1>4. "CANCELLED" \in ActionOutcomes
  BY DEF ActionOutcomes
<1>5. action' \in Actions
  BY <1>3, <1>4, FinishedAction DEF CompleteCancelled
<1>6. UNCHANGED <<noData, toolbar, tasks>>
  BY DEF CompleteCancelled
<1> QED BY <1>2, <1>3, <1>5, <1>6, LastReport, RestInv

LEMMA CurrentOrCancelling ==
  ASSUME ScreenInv, inbox # << >>, ~IsCancelling(Report.id)
  PROVE  /\ IsCurrentPending(action, Report.id, action.kind)
         /\ \/ Running /\ action.kind = "BACKTEST" /\ Report.signal \in BacktestSignals
            \/ Syncing /\ action.kind = "SYNC" /\ Report.signal \in SyncSignals
         /\ Report.signal # "cancelled"
<1>1. ~ Cancelling
  BY LastReport DEF Cancelling, IsCancelling
<1> QED BY <1>1, LastReport DEF Running, Syncing, IsCurrentPending, IsCurrent

LEMMA PendingIsBusy ==
  ASSUME ScreenInv, inbox # << >>, NEW kind, IsCurrentPending(action, Report.id, kind)
  PROVE  /\ kind = action.kind
         /\ \/ Running /\ uiState = "RUNNING" /\ action.kind = "BACKTEST"
            \/ Syncing /\ uiState = "SYNCING" /\ action.kind = "SYNC"
BY LastReport DEF Running, Syncing, Cancelling, IsCurrentPending, IsCurrent

(* A report of a run ends it, and what it leaves is at rest. *)
LEMMA RunEndsInv ==
  ASSUME ScreenInv, inbox # << >>, inbox' = Tail(inbox),
         IsCurrentPending(action, Report.id, "BACKTEST"),
         NEW event \in {"BACKTEST_SUCCEEDED", "BACKTEST_EMPTY", "BACKTEST_FAILED"},
         NEW how \in ActionOutcomes,
         uiState' = After(uiState, event),
         action' = FinishAction(action, Report.id, how),
         UNCHANGED <<toolbar, tasks>>, noData' = NoConfig \/ noData' \in Offers
  PROVE  ScreenInv'
<1>1. uiState = "RUNNING"
  BY PendingIsBusy
<1>2. uiState' \in Restful
  BY <1>1, BusyAfter
<1>3. action \in Actions /\ toolbar \in Toolbars
  BY DEF ScreenInv, ScreenTypes
<1>4. action' \in Actions
  BY <1>3, FinishedAction
<1> QED BY <1>2, <1>3, <1>4, LastReport, RestInv

LEMMA CoverageMissingInv ==
  ASSUME ScreenInv, CoverageMissing
  PROVE  ScreenInv'
<1>1. /\ inbox # << >> /\ inbox' = Tail(inbox) /\ Report.signal = "coverage missing"
  BY DEF CoverageMissing
<1>2. /\ action \in Actions /\ toolbar \in Toolbars
      /\ noData = NoConfig \/ noData \in Offers
  BY DEF ScreenInv, ScreenTypes
<1>3. tasks = {} /\ Tail(inbox) = << >> /\ Report \in Reports
  BY <1>1, LastReport
<1>4. Report.signal \in BacktestSignals /\ Report.signal \notin SyncSignals
  BY <1>1 DEF BacktestSignals, SyncSignals
<1>5. action.kind = "BACKTEST"
  BY <1>1, <1>4, LastReport
<1>6. CASE IgnoreStale("BACKTEST")
  <2>1. /\ ~IsCurrentPending(action, Report.id, "BACKTEST")
        /\ UNCHANGED <<uiState, action, cancelling, noData, toolbar, tasks>>
    BY <1>6 DEF IgnoreStale
  <2>2. Cancelling
    BY <1>1, <1>5, <2>1, LastReport, CurrentOrCancelling DEF Running, Syncing, IsCurrentPending, IsCurrent
  <2>3. NothingLeft'
    BY <1>1, <1>3, <2>1 DEF NothingLeft
  <2>4. Cancelling'
    BY <1>5, <2>1, <2>2, <2>3 DEF Cancelling
  <2> QED BY <1>2, <2>1, <2>4 DEF ScreenInv, ScreenTypes
<1>7. CASE IsCurrentPending(action, Report.id, "BACKTEST") /\ ~IgnoreStale("BACKTEST")
  <2> DEFINE finished == FinishAction(action, Report.id, "EMPTY")
             offer == [config |-> Report.config, gap |-> Report.gap]
  <2>1. /\ noData' = offer
        /\ IF Report.auto
           THEN /\ StartSync(Report.config, Report.gap, finished,
                             After(uiState, "BACKTEST_EMPTY"))
                /\ UNCHANGED result
           ELSE /\ uiState' = After(uiState, "BACKTEST_FAILED")
                /\ action' = finished
                /\ result' = 0
                /\ UNCHANGED tasks
        /\ UNCHANGED <<cancelling, toolbar, lastRun>>
    BY <1>7 DEF CoverageMissing
  <2>2. Report.config \in Configs /\ Report.gap \in SomeTimes
    BY <1>3 DEF Reports
  <2>3. offer \in Offers
    BY <2>2 DEF Offers
  <2>4. "EMPTY" \in ActionOutcomes
    BY DEF ActionOutcomes
  <2>5. CASE Report.auto
    <3>1. uiState = "RUNNING"
      <4>1. inbox # << >> /\ IsCurrentPending(action, Report.id, "BACKTEST")
        BY <1>1, <1>7
      <4> HIDE DEF finished, offer
      <4> QED BY <4>1, PendingIsBusy
    <3>2. After(uiState, "BACKTEST_EMPTY") \in Restful
      BY <3>1, BusyAfter
    <3>3. finished \in Actions
      BY <1>2, <2>4, FinishedAction
    <3>4. StartSync(Report.config, Report.gap, finished, After(uiState, "BACKTEST_EMPTY"))
      BY <2>1, <2>5
    <3>5. inbox' = << >> /\ toolbar' \in Toolbars /\ noData' \in Offers
      BY <1>1, <1>2, <1>3, <2>1, <2>3
    <3> HIDE DEF finished
    <3> QED BY <1>3, <2>2, <3>2, <3>3, <3>4, <3>5, StartSyncInv
  <2>6. CASE ~Report.auto
    <3>1. /\ uiState' = After(uiState, "BACKTEST_FAILED")
          /\ action' = FinishAction(action, Report.id, "EMPTY")
          /\ UNCHANGED <<toolbar, tasks>>
      BY <2>1, <2>6
    <3>2. "BACKTEST_FAILED" \in {"BACKTEST_SUCCEEDED", "BACKTEST_EMPTY", "BACKTEST_FAILED"}
      OBVIOUS
    <3>3. noData' = NoConfig \/ noData' \in Offers
      BY <2>1, <2>3
    <3> QED BY <1>1, <1>7, <2>4, <3>1, <3>2, <3>3, RunEndsInv
  <2> QED BY <2>5, <2>6
<1> QED BY <1>6, <1>7 DEF CoverageMissing

LEMMA RunReportInv ==
  ASSUME ScreenInv, BacktestSucceeded \/ BacktestEmpty \/ BacktestFailed
  PROVE  ScreenInv'
<1>1. inbox # << >> /\ inbox' = Tail(inbox)
  BY DEF BacktestSucceeded, BacktestEmpty, BacktestFailed, Reported
<1>2. Report.signal \in {"succeeded", "empty", "failed"}
  BY DEF BacktestSucceeded, BacktestEmpty, BacktestFailed
<1>3. Report.signal \notin SyncSignals
  BY <1>2 DEF SyncSignals
<1>4. \/ CompleteCancelled
      \/ ~IsCancelling(Report.id) /\ IgnoreStale("BACKTEST")
      \/ IsCurrentPending(action, Report.id, "BACKTEST") /\ ~CompleteCancelled
           /\ ~ (~IsCancelling(Report.id) /\ IgnoreStale("BACKTEST"))
  BY DEF BacktestSucceeded, BacktestEmpty, BacktestFailed, Reported
<1>5. CASE ~IsCancelling(Report.id) /\ IgnoreStale("BACKTEST")
  BY <1>1, <1>3, <1>5, CurrentOrCancelling DEF IgnoreStale
<1>6. CASE IsCurrentPending(action, Report.id, "BACKTEST") /\ ~CompleteCancelled
             /\ ~ (~IsCancelling(Report.id) /\ IgnoreStale("BACKTEST"))
  <2>1. noData = NoConfig \/ noData \in Offers
    BY DEF ScreenInv, ScreenTypes
  <2>2. Report.config \in Configs
    BY <1>1, LastReport DEF Reports
  <2>3. [config |-> Report.config, gap |-> NoTime] \in Offers
    BY <2>2 DEF Offers, SomeTimes
  <2>4. /\ UNCHANGED <<toolbar, tasks>>
        /\ noData' = NoConfig \/ noData' \in Offers
        /\ \E event \in {"BACKTEST_SUCCEEDED", "BACKTEST_EMPTY", "BACKTEST_FAILED"} :
             uiState' = After(uiState, event)
        /\ \E how \in ActionOutcomes : action' = FinishAction(action, Report.id, how)
    <3>1. CASE BacktestSucceeded
      BY <1>6, <3>1 DEF BacktestSucceeded, Reported, ActionOutcomes
    <3>2. CASE BacktestEmpty
      BY <1>6, <2>3, <3>2 DEF BacktestEmpty, Reported, ActionOutcomes
    <3>3. CASE BacktestFailed
      BY <1>6, <2>1, <3>3 DEF BacktestFailed, Reported, ActionOutcomes
    <3> QED BY <3>1, <3>2, <3>3
  <2> QED BY <1>1, <1>6, <2>4, RunEndsInv
<1> QED BY <1>1, <1>4, <1>5, <1>6, CancelledRests

LEMMA WorkCancelledInv ==
  ASSUME ScreenInv, WorkCancelled
  PROVE  ScreenInv'
<1>1. inbox # << >> /\ inbox' = Tail(inbox) /\ Report.signal = "cancelled"
  BY DEF WorkCancelled
<1>2. CompleteCancelled
  BY <1>1, CurrentOrCancelling DEF WorkCancelled
<1> QED BY <1>1, <1>2, CancelledRests

LEMMA SyncReportInv ==
  ASSUME ScreenInv, SyncSucceeded \/ SyncFailed
  PROVE  ScreenInv'
<1>1. inbox # << >> /\ inbox' = Tail(inbox)
  BY DEF SyncSucceeded, SyncFailed, Reported
<1>2. Report.signal \in {"sync succeeded", "sync failed"}
  BY DEF SyncSucceeded, SyncFailed
<1>3. Report.signal \notin BacktestSignals
  BY <1>2 DEF BacktestSignals
<1>4. /\ action \in Actions /\ toolbar \in Toolbars
      /\ noData = NoConfig \/ noData \in Offers
  BY DEF ScreenInv, ScreenTypes
<1>5. tasks = {} /\ Tail(inbox) = << >>
  BY <1>1, LastReport
<1>6. CASE CompleteCancelled
  BY <1>1, <1>6, CancelledRests
<1>7. CASE ~IsCancelling(Report.id) /\ IgnoreStale("SYNC")
  BY <1>1, <1>3, <1>7, CurrentOrCancelling DEF IgnoreStale
<1>8. CASE /\ SyncSucceeded /\ ~CompleteCancelled
           /\ ~ (~IsCancelling(Report.id) /\ IgnoreStale("SYNC"))
  <2> DEFINE finished == FinishAction(action, Report.id, "SUCCEEDED")
             state == After(uiState, "SYNC_SUCCEEDED")
  <2>1. /\ IsCurrentPending(action, Report.id, "SYNC")
        /\ noData' = NoConfig
        /\ uiState' = state
        /\ IF noData # NoConfig THEN StartRun(noData.config, finished, state, FALSE)
           ELSE action' = finished /\ UNCHANGED <<tasks, cancelling>>
        /\ UNCHANGED <<toolbar, lastRun, result>>
    BY <1>8 DEF SyncSucceeded, Reported
  <2>2. uiState = "SYNCING"
    BY <1>1, <2>1, PendingIsBusy
  <2>3. state = "RUNNING" /\ state \in Restful \cup Busy
    BY <2>2, BusyAfter DEF Busy
  <2>4. "SUCCEEDED" \in ActionOutcomes
    BY DEF ActionOutcomes
  <2>5. finished \in Actions
    BY <1>4, <2>4, FinishedAction
  <2>6. noData # NoConfig
    <3>1. Syncing
      BY <1>1, <2>1, PendingIsBusy
    <3> QED BY <3>1, ScreenAssumption DEF Syncing
  <2>7. StartRun(noData.config, finished, state, FALSE)
    BY <2>1, <2>6
  <2>8. noData.config \in Configs
    BY <2>6, OffersTypes
  <2>9. FALSE \in BOOLEAN /\ inbox' = << >> /\ uiState' = "RUNNING"
    BY <1>1, <1>5, <2>1, <2>3
  <2>10. toolbar' \in Toolbars /\ (noData' = NoConfig \/ noData' \in Offers)
    BY <1>4, <2>1
  <2> HIDE DEF finished, state
  <2> QED BY <1>5, <2>3, <2>5, <2>7, <2>8, <2>9, <2>10, StartRunInv
<1>9. CASE /\ SyncFailed /\ ~CompleteCancelled
           /\ ~ (~IsCancelling(Report.id) /\ IgnoreStale("SYNC"))
  <2>1. /\ IsCurrentPending(action, Report.id, "SYNC")
        /\ uiState' = After(uiState, "SYNC_FAILED")
        /\ action' = FinishAction(action, Report.id, "FAILED")
        /\ UNCHANGED <<cancelling, noData, toolbar, lastRun, result, tasks>>
    BY <1>9 DEF SyncFailed, Reported
  <2>2. uiState = "SYNCING"
    BY <1>1, <2>1, PendingIsBusy
  <2>3. "FAILED" \in ActionOutcomes
    BY DEF ActionOutcomes
  <2>4. uiState' \in Restful /\ action' \in Actions
    BY <1>4, <2>1, <2>2, <2>3, BusyAfter, FinishedAction
  <2> QED BY <1>1, <1>4, <1>5, <2>1, <2>4, RestInv
<1> QED BY <1>6, <1>7, <1>8, <1>9

LEMMA BacktestReportInv ==
  ASSUME ScreenInv, BacktestReport
  PROVE  ScreenInv'
BY CoverageMissingInv, RunReportInv, WorkCancelledInv, SyncReportInv DEF BacktestReport

(* The workers. *)
LEMMA OnlyWorker ==
  ASSUME ScreenInv, NEW t \in tasks
  PROVE  /\ t \in Tasks /\ tasks = {t} /\ inbox = << >>
         /\ t.id = action.id /\ t.kind = action.kind
         /\ t.cancelled => uiState = "CANCELLING"
         /\ t.kind = "BACKTEST" /\ t.auto => action.previous \in Restful
         /\ Running \/ Syncing \/ Cancelling
<1>1. OneTask /\ (Running \/ Syncing \/ Cancelling)
  BY DEF ScreenInv, AtRest, Running, Syncing, Cancelling, NothingLeft, OnePiece, OneReport
<1> QED BY <1>1 DEF OneTask

(* What is left may change as long as it is one piece. *)
LEMMA StillOnePiece ==
  ASSUME ScreenInv, Running \/ Syncing \/ Cancelling,
         action.kind \in {"BACKTEST", "SYNC"}, OnePiece', OnlyTasks
  PROVE  ScreenInv'
BY DEF ScreenInv, ScreenTypes, Running, Syncing, Cancelling, OnlyTasks

LEMMA GoesOnInv ==
  ASSUME ScreenInv, NEW t \in tasks, NEW next \in Steps, GoesTo(t, next),
         OnlyTasks, UNCHANGED inbox
  PROVE  ScreenInv'
<1> DEFINE u == [t EXCEPT !.step = next]
<1>1. /\ t \in Tasks /\ tasks = {t} /\ inbox = << >>
      /\ t.id = action.id /\ t.kind = action.kind
      /\ t.cancelled => uiState = "CANCELLING"
      /\ t.kind = "BACKTEST" /\ t.auto => action.previous \in Restful
      /\ Running \/ Syncing \/ Cancelling
  BY OnlyWorker
<1>2. tasks' = {u}
  BY <1>1 DEF GoesTo
<1>3. /\ u \in Tasks /\ u.id = t.id /\ u.kind = t.kind /\ u.auto = t.auto
      /\ u.cancelled = t.cancelled
  BY <1>1 DEF Tasks
<1>4. action.kind \in {"BACKTEST", "SYNC"}
  BY <1>1 DEF Tasks
<1> HIDE DEF u
<1>5. OneTask'
  BY <1>1, <1>2, <1>3 DEF OneTask, OnlyTasks
<1> QED BY <1>1, <1>4, <1>5, StillOnePiece DEF OnePiece

LEMMA PostedInv ==
  ASSUME ScreenInv, NEW t \in tasks, NEW u \in Tasks,
         u.id = t.id, u.auto = t.auto,
         NEW signal \in IF t.kind = "SYNC" THEN SyncSignals ELSE BacktestSignals,
         signal = "cancelled" => t.cancelled,
         Ends(t), Post(u, signal), OnlyTasks
  PROVE  ScreenInv'
<1> DEFINE r == [signal |-> signal, id |-> u.id, config |-> u.config,
                 gap |-> u.gap, auto |-> u.auto]
<1>1. /\ t \in Tasks /\ tasks = {t} /\ inbox = << >>
      /\ t.id = action.id /\ t.kind = action.kind
      /\ t.cancelled => uiState = "CANCELLING"
      /\ t.kind = "BACKTEST" /\ t.auto => action.previous \in Restful
      /\ Running \/ Syncing \/ Cancelling
  BY OnlyWorker
<1>2. signal \in BacktestSignals \cup SyncSignals
  OBVIOUS
<1>3. r \in Reports /\ r.id = t.id /\ r.auto = t.auto /\ r.signal = signal
  BY <1>2 DEF Reports, Tasks
<1>4. inbox' = Append(inbox, r)
  BY DEF Post
<1> HIDE DEF r
<1>5. inbox' = <<r>> /\ tasks' = {}
  BY <1>1, <1>4 DEF Ends
<1>6. action.kind \in {"BACKTEST", "SYNC"}
  BY <1>1 DEF Tasks
<1>7. /\ UNCHANGED <<uiState, action>>
      /\ r.signal \in IF action.kind = "SYNC" THEN SyncSignals ELSE BacktestSignals
  BY <1>1, <1>3 DEF OnlyTasks
<1>8. OneReport'
  BY <1>1, <1>3, <1>5, <1>7 DEF OneReport
<1> QED BY <1>1, <1>6, <1>8, StillOnePiece DEF OnePiece

(* The range a worker probes is one of a market. *)
LEMMA MarketsOfTasks ==
  ASSUME ScreenInv, NEW t \in tasks
  PROVE  /\ MarketOf(t.config) \in Markets
         /\ t.config.from \in SomeTimes /\ t.config.end \in Int
         /\ t.config.end + 1 \in Times
<1>1. t.config \in Configs /\ toolbar.market \in Markets
  BY OnlyWorker, ScreenAssumption DEF Tasks, ScreenInv, ScreenTypes
<1>2. MarketOf(t.config) \in Markets
  BY <1>1 DEF MarketOf, Markets, SymbolOf, Configs
<1> QED BY <1>1, <1>2, TimeAssumption DEF Configs, Times

LEMMA BacktestTaskInv ==
  ASSUME TypeInv, ScreenInv, BacktestTask
  PROVE  ScreenInv'
<1>1. PICK t \in tasks : \/ ProbeCoverage(t) \/ RunEngine(t) \/ VerifyCoverage(t)
                         \/ DispatchSync(t) \/ EndSync(t)
  BY DEF BacktestTask
<1>2. t \in Tasks
  BY OnlyWorker
<1>3. CASE ProbeCoverage(t)
  <2> DEFINE u == [t EXCEPT !.gap = Probe(t.config).missing]
  <2>1. Probe(t.config).missing \in SomeTimes
    BY OneVerdict, MarketsOfTasks DEF Probe
  <2>2. u \in Tasks /\ u.id = t.id /\ u.auto = t.auto
    BY <1>2, <2>1 DEF Tasks
  <2>3. /\ t.kind = "BACKTEST" /\ OnlyTasks
        /\ \/ GoesTo(t, "engine") /\ UNCHANGED inbox
           \/ Ends(t) /\ Post(u, "coverage missing")
    BY <1>3 DEF ProbeCoverage
  <2>4. /\ "engine" \in Steps
        /\ "coverage missing" \in IF t.kind = "SYNC" THEN SyncSignals ELSE BacktestSignals
    BY <2>3 DEF Steps, BacktestSignals
  <2> HIDE DEF u
  <2> QED BY <2>2, <2>3, <2>4, GoesOnInv, PostedInv
<1>4. CASE RunEngine(t)
  <2>1. PICK signal \in {"succeeded", "empty", "failed", "cancelled"} :
          (signal = "cancelled" => t.cancelled) /\ Post(t, signal)
    BY <1>4 DEF RunEngine
  <2>2. t.kind = "BACKTEST" /\ Ends(t) /\ OnlyTasks
    BY <1>4 DEF RunEngine
  <2>3. signal \in IF t.kind = "SYNC" THEN SyncSignals ELSE BacktestSignals
    BY <2>2 DEF BacktestSignals
  <2> QED BY <1>2, <2>1, <2>2, <2>3, PostedInv
<1>5. CASE VerifyCoverage(t)
  <2>1. PICK signal \in {"sync succeeded", "sync failed"} : Post(t, signal)
    BY <1>5 DEF VerifyCoverage
  <2>2. t.kind = "SYNC" /\ Ends(t) /\ OnlyTasks
    BY <1>5 DEF VerifyCoverage
  <2>3. signal \in IF t.kind = "SYNC" THEN SyncSignals ELSE BacktestSignals
    BY <2>2 DEF SyncSignals
  <2> QED BY <1>2, <2>1, <2>2, <2>3, PostedInv
<1>6. CASE DispatchSync(t)
  <2>1. GoesTo(t, "waiting") /\ OnlyTasks /\ UNCHANGED inbox /\ "waiting" \in Steps
    BY <1>6 DEF DispatchSync, Steps
  <2> QED BY <2>1, GoesOnInv
<1>7. CASE EndSync(t)
  <2>1. /\ t.kind = "SYNC" /\ OnlyTasks
        /\ \/ Ends(t) /\ Post(t, "sync failed")
           \/ t.cancelled /\ Ends(t) /\ Post(t, "cancelled")
           \/ GoesTo(t, "verify") /\ UNCHANGED inbox
    BY <1>7 DEF EndSync
  <2>2. /\ "sync failed" \in IF t.kind = "SYNC" THEN SyncSignals ELSE BacktestSignals
        /\ "cancelled" \in IF t.kind = "SYNC" THEN SyncSignals ELSE BacktestSignals
        /\ "verify" \in Steps
    BY <2>1 DEF SyncSignals, Steps
  <2> QED BY <1>2, <2>1, <2>2, GoesOnInv, PostedInv
<1> QED BY <1>1, <1>3, <1>4, <1>5, <1>6, <1>7

(* Every step of the program preserves the screen. *)
LEMMA InitScreen == Init => ScreenInv
<1>1. NoAction \in Actions
  BY DEF NoAction, Actions, ActionKinds, ActionOutcomes
<1> QED BY <1>1 DEF Init, ScreenInit, ScreenInv, ScreenTypes, AtRest, NothingLeft, Restful

LEMMA NextScreen == TypeInv /\ ScreenInv /\ [Next]_vars => ScreenInv'
<1> SUFFICES ASSUME TypeInv, ScreenInv, [Next]_vars PROVE ScreenInv'
  OBVIOUS
<1>1. CASE UNCHANGED screenVars
  BY <1>1 DEF screenVars, ScreenInv, ScreenTypes, AtRest, Running, Syncing, Cancelling,
     NothingLeft, OnePiece, OneTask, OneReport
<1>2. CASE BacktestCommand
  BY <1>2, BacktestCommandInv
<1>3. CASE BacktestReport
  BY <1>3, BacktestReportInv
<1>4. CASE BacktestTask
  BY <1>4, BacktestTaskInv
<1>5. CASE Restart
  <2>1. action' = NoAction /\ uiState' \in Restful /\ tasks' = {} /\ inbox' = << >>
        /\ toolbar' \in Toolbars /\ noData' = NoConfig
    BY <1>5 DEF Restart, Restful
  <2>2. NoAction \in Actions
    BY DEF NoAction, Actions, ActionKinds, ActionOutcomes
  <2> QED BY <2>1, <2>2, RestInv
<1> QED BY <1>1, <1>2, <1>3, <1>4, <1>5
   DEF Next, vars, Clock, Download, ManagementCommand, ManagementSignal, ManagementJob,
       NoBacktest

-----------------------------------------------------------------------------
(* The data management screen. *)

(* While its buttons are disabled a worker that unlocks it is left, or a   *)
(* signal of one; every worker knows the markets it is for.                *)

Modes == {"IDLE", "SCANNING", "SYNCING", "CLEARING", "CANCELLING"}
OneMarket == {"single", "repair", "repair all", "clear", "inspect"}
JobKinds == OneMarket \cup {"bulk", "check", "scan", "purge"}
JobSteps == {"begin", "waiting", "targets", "gaps", "scan", "prune", "remove"}
AllGaps == [start : Times, end : Times]

Jobs == [number : Nat, kind : JobKinds, markets : SUBSET (Markets \cup Symbols),
         gaps : SUBSET AllGaps, symbols : SUBSET Symbols, id : Nat, step : JobSteps,
         cancelled : BOOLEAN]

JobOK(j) ==
  /\ j \in Jobs
  /\ j.kind \in OneMarket => \E m \in Markets : j.markets = {m}
  /\ j.kind = "scan" => j.markets \subseteq Symbols

Owners == [id : Nat, kind : JobKinds \cup {"none"}, previous : Modes \cup {"none"},
           outcome : ActionOutcomes]

ManagementInv ==
  /\ mode \in Modes
  /\ submitted \in Nat
  /\ owner \in Owners
  /\ signals \in Seq({"unlock", "complete"})
  /\ \A j \in jobs : JobOK(j)
  /\ mode # "IDLE" => signals # << >> \/ \E j \in jobs : j.kind # "inspect"

(* What the tracker can be changed into. *)
LEMMA NextOwner ==
  ASSUME NEW tracker \in Owners, NEW kind \in JobKinds, NEW previous \in Modes
  PROVE  /\ BeginAction(tracker, kind, previous) \in Owners
         /\ \A id : \A how \in ActionOutcomes : FinishAction(tracker, id, how) \in Owners
         /\ InvalidateActive(tracker) \in Owners
         /\ tracker.id + 1 \in Nat
<1>1. tracker.id \in Nat
  BY DEF Owners
<1>2. BeginAction(tracker, kind, previous) \in Owners
  BY <1>1 DEF BeginAction, Owners, ActionOutcomes
<1>3. \A id : \A how \in ActionOutcomes : FinishAction(tracker, id, how) \in Owners
  BY DEF FinishAction, Owners
<1>4. InvalidateActive(tracker) \in Owners
  BY DEF InvalidateActive, Owners, ActionOutcomes
<1> QED BY <1>1, <1>2, <1>3, <1>4

(* A worker that goes on, one that ends and one that is submitted. *)
LEMMA ReplaceInv ==
  ASSUME ManagementInv, NEW j \in jobs, NEW next, JobOK(next), next.kind = j.kind,
         Replace(j, next), owner' \in Owners, UNCHANGED <<mode, submitted, signals>>
  PROVE  ManagementInv'
BY DEF ManagementInv, Replace

LEMMA EndInv ==
  ASSUME ManagementInv, NEW j \in jobs, NEW queued \in Seq({"unlock", "complete"}),
         queued # << >>, Finishes(j), Emit(queued), owner' \in Owners,
         UNCHANGED <<mode, submitted>>
  PROVE  ManagementInv'
<1>1. signals' \in Seq({"unlock", "complete"}) /\ signals' # << >>
  BY DEF ManagementInv, Emit
<1> QED BY <1>1 DEF ManagementInv, Finishes

LEMMA SubmitInv ==
  ASSUME ManagementInv, NEW kind \in JobKinds, NEW markets \in SUBSET Markets,
         NEW gaps \in SUBSET AllGaps,
         kind \in OneMarket => \E m \in Markets : markets = {m},
         kind = "scan" => markets = {},
         Submit(kind, markets, gaps), UNCHANGED owner,
         mode' \in Modes, mode' # "IDLE" => kind # "inspect",
         signals' \in Seq({"unlock", "complete"})
  PROVE  ManagementInv'
<1> DEFINE j == Job(kind, markets, gaps)
<1>1. submitted \in Nat /\ submitted + 1 \in Nat
  BY DEF ManagementInv
<1>2. JobOK(j) /\ j.kind = kind
  BY <1>1 DEF Job, JobOK, Jobs, JobSteps
<1>3. jobs' = jobs \cup {j} /\ submitted' = submitted + 1
  BY DEF Submit
<1> HIDE DEF j
<1> QED BY <1>1, <1>2, <1>3 DEF ManagementInv

(* The main thread. *)
LEMMA ManagementCommandInv ==
  ASSUME TypeInv, ManagementInv, ManagementCommand
  PROVE  ManagementInv'
<1>1. /\ "SYNCING" \in Modes /\ "SCANNING" \in Modes /\ "CLEARING" \in Modes
      /\ \A n \in Modes : TransitionTo(n) \in Modes
      /\ mode \in Modes /\ signals \in Seq({"unlock", "complete"})
  BY DEF Modes, TransitionTo, ManagementInv
<1>2. ASSUME NEW kind \in {"single", "bulk"}, NEW markets \in SUBSET Markets,
             kind = "single" => \E m \in Markets : markets = {m}, StartSyncing(kind, markets)
      PROVE  ManagementInv'
  <2>1. kind \in JobKinds /\ kind # "inspect" /\ {} \in SUBSET AllGaps /\ kind # "scan"
    BY DEF JobKinds, OneMarket
  <2>2. kind \in OneMarket => \E m \in Markets : markets = {m}
    BY <1>2 DEF OneMarket
  <2>3. /\ Submit(kind, markets, {}) /\ UNCHANGED owner
        /\ mode' \in Modes /\ signals' \in Seq({"unlock", "complete"})
    BY <1>1, <1>2 DEF StartSyncing
  <2> QED BY <2>1, <2>2, <2>3, SubmitInv
<1>3. ASSUME NEW kind \in {"repair", "repair all"}, NEW m \in Markets,
             NEW gaps \in SUBSET AllGaps, StartRepair(kind, m, gaps)
      PROVE  ManagementInv'
  <2>1. kind \in JobKinds /\ kind # "inspect" /\ {m} \in SUBSET Markets /\ kind # "scan"
    BY DEF JobKinds, OneMarket
  <2>2. \E n \in Markets : {m} = {n}
    OBVIOUS
  <2>3. /\ Submit(kind, {m}, gaps) /\ UNCHANGED owner
        /\ mode' \in Modes /\ signals' \in Seq({"unlock", "complete"})
    BY <1>1, <1>3 DEF StartRepair
  <2> QED BY <2>1, <2>2, <2>3, SubmitInv
<1>4. ASSUME NEW kind \in {"clear", "inspect", "check", "scan", "purge"},
             NEW markets \in SUBSET Markets,
             kind \in {"clear", "inspect"} => \E m \in Markets : markets = {m},
             kind \notin {"clear", "inspect"} => markets = {},
             StartOther(kind, markets)
      PROVE  ManagementInv'
  <2>1. kind \in JobKinds /\ {} \in SUBSET AllGaps
    BY DEF JobKinds, OneMarket
  <2>2. kind \in OneMarket => \E m \in Markets : markets = {m}
    BY <1>4 DEF OneMarket
  <2>3. kind = "scan" => markets = {}
    BY <1>4
  <2>4. /\ Submit(kind, markets, {}) /\ UNCHANGED owner
        /\ signals' \in Seq({"unlock", "complete"})
    BY <1>1, <1>4 DEF StartOther
  <2>5. mode' \in Modes /\ (mode' # "IDLE" => kind # "inspect")
    <3>1. CASE kind \in {"check", "scan"}
      BY <1>1, <1>4, <3>1 DEF StartOther
    <3>2. CASE kind \in {"clear", "purge"}
      BY <1>1, <1>4, <3>2 DEF StartOther
    <3>3. CASE kind = "inspect"
      BY <1>1, <1>4, <3>3 DEF StartOther
    <3> QED BY <3>1, <3>2, <3>3
  <2> QED BY <2>1, <2>2, <2>3, <2>4, <2>5, SubmitInv
<1>5. ASSUME CancelManagement PROVE ManagementInv'
  <2>1. mode # "IDLE" /\ "CANCELLING" \in Modes
    BY <1>5 DEF CancelManagement, Modes
  <2>2. /\ mode' \in Modes /\ owner' = InvalidateActive(owner)
        /\ UNCHANGED <<submitted, signals>>
    BY <1>1, <1>5, <2>1 DEF CancelManagement
  <2>3. jobs' = {IF j.number = token \/ j.kind = "scan"
                 THEN [j EXCEPT !.cancelled = TRUE] ELSE j : j \in jobs}
    BY <1>5 DEF CancelManagement
  <2>4. owner' \in Owners
    <3>1. "check" \in JobKinds /\ owner \in Owners
      BY DEF JobKinds, ManagementInv
    <3> QED BY <1>1, <2>2, <3>1, NextOwner
  <2>5. \A j \in jobs : /\ JobOK(j) /\ JobOK([j EXCEPT !.cancelled = TRUE])
                        /\ [j EXCEPT !.cancelled = TRUE].kind = j.kind
    BY DEF ManagementInv, JobOK, Jobs
  <2>6. \A j \in jobs' : JobOK(j)
    BY <2>3, <2>5
  <2>7. signals # << >> \/ \E j \in jobs' : j.kind # "inspect"
    <3>1. ASSUME NEW j \in jobs, j.kind # "inspect"
          PROVE  \E i \in jobs' : i.kind # "inspect"
      BY <2>3, <2>5, <3>1
    <3> QED BY <2>1, <3>1 DEF ManagementInv
  <2> QED BY <2>2, <2>4, <2>6, <2>7 DEF ManagementInv
<1>6. ASSUME NEW m \in Markets, NEW g \in listed[m] PROVE {g} \in SUBSET AllGaps
  BY DEF TypeInv, SyncTypeOK, AllGaps
<1>7. CASE \E m \in Markets :
             \/ StartSyncing("single", {m})
             \/ \E g \in listed[m] : StartRepair("repair", m, {g})
             \/ StartRepair("repair all", m, {})
             \/ \E kind \in {"clear", "inspect"} : StartOther(kind, {m})
  <2>1. PICK m \in Markets :
             \/ StartSyncing("single", {m})
             \/ \E g \in listed[m] : StartRepair("repair", m, {g})
             \/ StartRepair("repair all", m, {})
             \/ \E kind \in {"clear", "inspect"} : StartOther(kind, {m})
    BY <1>7
  <2>2. {m} \in SUBSET Markets /\ \E n \in Markets : {m} = {n}
    OBVIOUS
  <2>3. CASE StartSyncing("single", {m})
    BY <1>2, <2>2, <2>3
  <2>4. CASE \E g \in listed[m] : StartRepair("repair", m, {g})
    BY <1>3, <1>6, <2>4
  <2>5. CASE StartRepair("repair all", m, {})
    <3>1. {} \in SUBSET AllGaps /\ "repair all" \in {"repair", "repair all"}
      OBVIOUS
    <3> QED BY <1>3, <2>5, <3>1
  <2>6. CASE \E kind \in {"clear", "inspect"} : StartOther(kind, {m})
    BY <1>4, <2>2, <2>6
  <2> QED BY <2>1, <2>3, <2>4, <2>5, <2>6
<1>8. CASE \E kind \in {"check", "scan", "purge"} : StartOther(kind, {})
  BY <1>4, <1>8
<1>9. CASE \E batch \in Selections : StartSyncing("bulk", batch)
  BY <1>2, <1>9, SelectionsAssumption
<1> QED BY <1>5, <1>7, <1>8, <1>9 DEF ManagementCommand

LEMMA ManagementSignalInv ==
  ASSUME ManagementInv, ManagementSignal
  PROVE  ManagementInv'
<1>1. signals \in Seq({"unlock", "complete"}) /\ signals # << >> /\ signals' = Tail(signals)
  BY DEF ManagementInv, ManagementSignal, SyncComplete, Unlock
<1>2. signals' \in Seq({"unlock", "complete"})
  BY <1>1
<1>3. CASE SyncComplete
  <2>1. /\ Submit("check", {}, {}) /\ UNCHANGED owner /\ mode' = "SCANNING"
    BY <1>3 DEF SyncComplete
  <2>2. /\ "check" \in JobKinds /\ "check" \notin OneMarket /\ mode' \in Modes
        /\ {} \in SUBSET Markets /\ {} \in SUBSET AllGaps
    BY <2>1 DEF JobKinds, OneMarket, Modes
  <2> QED BY <1>2, <2>1, <2>2, SubmitInv
<1>4. CASE Unlock
  <2>1. mode' = "IDLE"
    BY <1>4 DEF Unlock, TransitionTo, Allowed, ManagementInv, Modes
  <2>2. UNCHANGED <<owner, submitted, jobs>>
    BY <1>4 DEF Unlock
  <2> QED BY <1>2, <2>1, <2>2 DEF ManagementInv, Modes
<1> QED BY <1>3, <1>4 DEF ManagementSignal

(* The workers. *)
LEMMA JobStepFacts ==
  ASSUME ManagementInv, NEW j \in jobs
  PROVE  /\ JobOK(j) /\ j.kind \in JobKinds /\ j.cancelled \in BOOLEAN
         /\ owner \in Owners /\ mode \in Modes /\ owner.id + 1 \in Nat
         /\ j.kind \in OneMarket => MarketOfJob(j) \in Markets /\ j.markets = {MarketOfJob(j)}
         /\ BeginAction(owner, j.kind, mode) \in Owners
         /\ \A id : \A how \in ActionOutcomes : FinishAction(owner, id, how) \in Owners
         /\ BeginAndFinish(j) => owner' \in Owners
<1>1. JobOK(j) /\ j.kind \in JobKinds /\ owner \in Owners /\ mode \in Modes
      /\ j.cancelled \in BOOLEAN
  BY DEF ManagementInv, JobOK, Jobs
<1>2. j.kind \in OneMarket => MarketOfJob(j) \in Markets /\ j.markets = {MarketOfJob(j)}
  BY <1>1 DEF JobOK, MarketOfJob
<1>3. /\ BeginAction(owner, j.kind, mode) \in Owners
      /\ \A id : \A how \in ActionOutcomes : FinishAction(owner, id, how) \in Owners
      /\ owner.id + 1 \in Nat
  BY <1>1, NextOwner
<1>4. "SUCCEEDED" \in ActionOutcomes
  BY DEF ActionOutcomes
<1>5. BeginAndFinish(j) => owner' \in Owners
  BY <1>1, <1>3, <1>4, NextOwner DEF BeginAndFinish
<1> QED BY <1>1, <1>2, <1>3, <1>5

LEMMA Queued ==
  /\ <<"unlock">> \in Seq({"unlock", "complete"}) /\ <<"unlock">> # << >>
  /\ <<"complete", "unlock">> \in Seq({"unlock", "complete"}) /\ <<"complete", "unlock">> # << >>
  /\ <<"unlock", "unlock">> \in Seq({"unlock", "complete"}) /\ <<"unlock", "unlock">> # << >>
  /\ <<"complete", "unlock", "unlock">> \in Seq({"unlock", "complete"})
  /\ <<"complete", "unlock", "unlock">> # << >>
  /\ << >> \in Seq({"unlock", "complete"})
OBVIOUS

(* One that begins: its owner is new and it goes to its next step. *)
LEMMA BeginInv ==
  ASSUME ManagementInv, NEW j \in jobs, NEW step \in JobSteps,
         Begin(j), Replace(j, Begun(j, step)), UNCHANGED <<mode, submitted, signals>>
  PROVE  ManagementInv'
<1>1. JobOK(j) /\ owner' \in Owners /\ owner.id + 1 \in Nat
  BY JobStepFacts DEF Begin
<1>2. JobOK(Begun(j, step)) /\ Begun(j, step).kind = j.kind
  BY <1>1 DEF Begun, JobOK, Jobs
<1> QED BY <1>1, <1>2, ReplaceInv

LEMMA SyncJobInv ==
  ASSUME ManagementInv, NEW j \in jobs,
         \/ BeginSingle(j) \/ EndSingle(j) \/ BeginBulk(j) \/ EndBulk(j)
         \/ \E m \in Markets : SyncTarget(j, m) \/ TargetDone(j, m)
  PROVE  ManagementInv'
<1>1. /\ JobOK(j) /\ owner \in Owners
      /\ \A id : \A how \in ActionOutcomes : FinishAction(owner, id, how) \in Owners
  BY JobStepFacts
<1>2. {"SUCCEEDED", "FAILED", "CANCELLED"} \subseteq ActionOutcomes
  BY DEF ActionOutcomes
<1>3. CASE BeginSingle(j)
  BY <1>3, BeginInv DEF BeginSingle, JobSteps
<1>4. CASE BeginBulk(j)
  BY <1>4, BeginInv DEF BeginBulk, JobSteps
<1>5. CASE EndSingle(j)
  <2>1. Finishes(j) /\ UNCHANGED <<mode, submitted>>
    BY <1>5 DEF EndSingle
  <2>2. \/ Emit(<<"complete", "unlock">>) \/ Emit(<<"unlock">>)
    BY <1>5 DEF EndSingle
  <2>3. owner' = owner \/ \E how \in ActionOutcomes : owner' = FinishAction(owner, j.id, how)
    BY <1>2, <1>5 DEF EndSingle
  <2> QED BY <1>1, <2>1, <2>2, <2>3, Queued, EndInv
<1>6. CASE EndBulk(j)
  <2>1. Finishes(j) /\ UNCHANGED <<mode, submitted>> /\ Emit(<<"complete", "unlock", "unlock">>)
    BY <1>6 DEF EndBulk
  <2>2. owner' = owner \/ \E how \in ActionOutcomes : owner' = FinishAction(owner, j.id, how)
    BY <1>2, <1>6 DEF EndBulk
  <2> QED BY <1>1, <2>1, <2>2, Queued, EndInv
<1>7. ASSUME NEW m \in Markets, SyncTarget(j, m) PROVE ManagementInv'
  <2> DEFINE next == [j EXCEPT !.markets = j.markets \ {m}]
  <2>1. /\ j.kind = "bulk" /\ Replace(j, next)
        /\ UNCHANGED <<mode, owner, submitted, signals>>
    BY <1>7 DEF SyncTarget
  <2>2. JobOK(next) /\ next.kind = j.kind
    BY <1>1, <2>1 DEF JobOK, Jobs, OneMarket
  <2> HIDE DEF next
  <2> QED BY <1>1, <2>1, <2>2, ReplaceInv
<1>8. ASSUME NEW m \in Markets, TargetDone(j, m) PROVE ManagementInv'
  <2>1. UNCHANGED <<mode, owner, submitted, jobs>> /\ j.kind = "bulk"
    BY <1>8 DEF TargetDone
  <2>2. signals \in Seq({"unlock", "complete"})
    BY DEF ManagementInv
  <2>3. signals' \in Seq({"unlock", "complete"})
    <3>1. PICK queued \in Seq({"unlock", "complete"}) : signals' = signals \o queued
      BY <1>8, Queued DEF TargetDone, Emit
    <3> QED BY <2>2, <3>1
  <2>4. j \in jobs' /\ j.kind # "inspect"
    BY <2>1
  <2> QED BY <2>1, <2>3, <2>4 DEF ManagementInv
<1> QED BY <1>3, <1>4, <1>5, <1>6, <1>7, <1>8

LEMMA RepairJobInv ==
  ASSUME TypeInv, ManagementInv, NEW j \in jobs,
         BeginRepair(j) \/ RepairNext(j) \/ RepairDone(j) \/ EndRepair(j)
  PROVE  ManagementInv'
<1>1. /\ JobOK(j) /\ owner \in Owners /\ owner.id + 1 \in Nat
      /\ \A id : \A how \in ActionOutcomes : FinishAction(owner, id, how) \in Owners
      /\ j.kind \in OneMarket => MarketOfJob(j) \in Markets
      /\ BeginAction(owner, j.kind, mode) \in Owners
  BY JobStepFacts
<1>2. {"SUCCEEDED", "FAILED", "CANCELLED"} \subseteq ActionOutcomes
  BY DEF ActionOutcomes
<1>3. CASE BeginRepair(j)
  <2>1. /\ j.kind \in OneMarket /\ owner' \in Owners
        /\ UNCHANGED <<mode, submitted, signals>>
    BY <1>1, <1>3 DEF BeginRepair, Repairs, OneMarket, Begin
  <2>2. CASE Replace(j, Begun(j, "gaps"))
    BY <1>3, <2>1, <2>2, BeginInv DEF BeginRepair, JobSteps
  <2>3. CASE Replace(j, [Begun(j, "gaps") EXCEPT !.gaps = Gaps(MarketOfJob(j))])
    <3> DEFINE next == [Begun(j, "gaps") EXCEPT !.gaps = Gaps(MarketOfJob(j))]
    <3>1. Gaps(MarketOfJob(j)) \in SUBSET AllGaps
      BY <1>1, <2>1, ListGapsTypes DEF AllGaps
    <3>2. "gaps" \in JobSteps
      BY DEF JobSteps
    <3>3. JobOK(Begun(j, "gaps")) /\ Begun(j, "gaps").kind = j.kind
      BY <1>1, <3>2 DEF Begun, JobOK, Jobs
    <3>4. JobOK(next) /\ next.kind = j.kind
      BY <3>1, <3>3 DEF JobOK, Jobs
    <3> HIDE DEF next
    <3> QED BY <2>1, <2>3, <3>4, ReplaceInv DEF next
  <2> QED BY <1>3, <2>2, <2>3 DEF BeginRepair
<1>4. CASE RepairNext(j)
  <2>1. PICK g \in j.gaps : Replace(j, [j EXCEPT !.gaps = j.gaps \ {g}, !.step = "waiting"])
    BY <1>4 DEF RepairNext
  <2> DEFINE next == [j EXCEPT !.gaps = j.gaps \ {g}, !.step = "waiting"]
  <2>2. JobOK(next) /\ next.kind = j.kind
    BY <1>1 DEF JobOK, Jobs, JobSteps
  <2>3. UNCHANGED <<mode, owner, submitted, signals>> /\ Replace(j, next)
    BY <1>4, <2>1 DEF RepairNext
  <2> HIDE DEF next
  <2> QED BY <1>1, <2>2, <2>3, ReplaceInv
<1>5. CASE RepairDone(j)
  <2>1. UNCHANGED <<mode, submitted>>
    BY <1>5 DEF RepairDone
  <2>2. CASE Replace(j, [j EXCEPT !.step = "gaps"]) /\ UNCHANGED <<owner, signals>>
    <3> DEFINE next == [j EXCEPT !.step = "gaps"]
    <3>1. JobOK(next) /\ next.kind = j.kind
      BY <1>1 DEF JobOK, Jobs, JobSteps
    <3> HIDE DEF next
    <3> QED BY <1>1, <2>1, <2>2, <3>1, ReplaceInv DEF next
  <2>3. CASE owner' = FinishAction(owner, j.id, "FAILED") /\ UnlockAndFinish(j)
    BY <1>1, <1>2, <2>1, <2>3, Queued, EndInv DEF UnlockAndFinish
  <2> QED BY <1>5, <2>2, <2>3 DEF RepairDone
<1>6. CASE EndRepair(j)
  <2>1. Finishes(j) /\ UNCHANGED <<mode, submitted>>
    BY <1>6 DEF EndRepair
  <2>2. Emit(<<"unlock", "unlock">>) \/ Emit(<<"unlock">>)
    BY <1>6 DEF EndRepair
  <2>3. owner' \in Owners
    <3> DEFINE done == FinishAction(owner, j.id, "SUCCEEDED")
               next == [done EXCEPT !.id = done.id + 2, !.kind = "check"]
    <3>1. done \in Owners
      BY <1>1, <1>2
    <3> HIDE DEF done
    <3>2. next \in Owners
      <4>1. done.id + 2 \in Nat /\ "check" \in JobKinds
        BY <3>1 DEF Owners, JobKinds
      <4> QED BY <3>1, <4>1 DEF Owners
    <3>3. \/ owner' = next
          \/ owner' = owner
          \/ \E how \in ActionOutcomes : owner' = FinishAction(owner, j.id, how)
      BY <1>2, <1>6 DEF EndRepair, done
    <3> HIDE DEF next
    <3> QED BY <1>1, <3>2, <3>3
  <2> QED BY <2>1, <2>2, <2>3, Queued, EndInv
<1> QED BY <1>3, <1>4, <1>5, <1>6

LEMMA ReadOrClearInv ==
  ASSUME ManagementInv, NEW j \in jobs, ReadOnly(j) \/ Clear(j)
  PROVE  ManagementInv'
<1>1. owner' \in Owners
  BY JobStepFacts DEF ReadOnly, Clear
<1>2. UNCHANGED <<mode, submitted>>
  BY DEF ReadOnly, Clear
<1>3. CASE UnlockAndFinish(j)
  BY <1>1, <1>2, <1>3, Queued, EndInv DEF UnlockAndFinish
<1>4. CASE j.kind = "inspect" /\ Finishes(j) /\ UNCHANGED signals
  BY <1>1, <1>2, <1>4 DEF ManagementInv, Finishes
<1> QED BY <1>3, <1>4 DEF ReadOnly, Clear

LEMMA ScanJobInv ==
  ASSUME TypeInv, ManagementInv, NEW j \in jobs,
         BeginScan(j) \/ EndScan(j) \/ CheckShard(j) \/ PruneShard(j) \/ EndPrune(j)
  PROVE  ManagementInv'
<1>1. /\ JobOK(j) /\ owner \in Owners
      /\ \A id : \A how \in ActionOutcomes : FinishAction(owner, id, how) \in Owners
  BY JobStepFacts
<1>2. {"SUCCEEDED", "FAILED"} \subseteq ActionOutcomes
  BY DEF ActionOutcomes
<1>3. shards \in SUBSET Symbols
  BY DEF TypeInv, SyncTypeOK
<1>4. CASE BeginScan(j)
  BY <1>4, BeginInv DEF BeginScan, JobSteps
<1>5. CASE EndScan(j)
  <2>1. UNCHANGED <<mode, submitted>>
    BY <1>5 DEF EndScan
  <2>2. CASE /\ Replace(j, [j EXCEPT !.step = "prune", !.symbols = shards])
             /\ UNCHANGED <<owner, signals>>
    <3> DEFINE next == [j EXCEPT !.step = "prune", !.symbols = shards]
    <3>1. JobOK(next) /\ next.kind = j.kind
      BY <1>1, <1>3 DEF JobOK, Jobs, JobSteps
    <3> HIDE DEF next
    <3> QED BY <1>1, <2>1, <2>2, <3>1, ReplaceInv DEF next
  <2>3. CASE /\ UnlockAndFinish(j)
             /\ owner' = owner \/ owner' = FinishAction(owner, j.id, "FAILED")
    BY <1>1, <1>2, <2>1, <2>3, Queued, EndInv DEF UnlockAndFinish
  <2> QED BY <1>5, <2>2, <2>3 DEF EndScan
<1>6. CASE CheckShard(j)
  <2>1. /\ j.kind = "scan" /\ UNCHANGED <<mode, owner, submitted, signals>>
        /\ \E s \in j.symbols :
             \/ Replace(j, [j EXCEPT !.symbols = j.symbols \ {s}])
             \/ Replace(j, [j EXCEPT !.step = "remove", !.markets = {s}])
    BY <1>6 DEF CheckShard
  <2>2. PICK s \in j.symbols :
          \/ Replace(j, [j EXCEPT !.symbols = j.symbols \ {s}])
          \/ Replace(j, [j EXCEPT !.step = "remove", !.markets = {s}])
    BY <2>1
  <2> DEFINE fewer == [j EXCEPT !.symbols = j.symbols \ {s}]
             empty == [j EXCEPT !.step = "remove", !.markets = {s}]
  <2>3. s \in Symbols /\ j.kind \notin OneMarket
    BY <1>1, <2>1 DEF JobOK, Jobs, OneMarket
  <2>4. JobOK(fewer) /\ fewer.kind = j.kind
    BY <1>1 DEF JobOK, Jobs
  <2>5. JobOK(empty) /\ empty.kind = j.kind
    BY <1>1, <2>3 DEF JobOK, Jobs, JobSteps
  <2> HIDE DEF fewer, empty
  <2> QED BY <1>1, <2>1, <2>2, <2>4, <2>5, ReplaceInv DEF fewer, empty
<1>7. CASE PruneShard(j)
  <2> DEFINE next == [j EXCEPT !.step = "prune", !.symbols = j.symbols \ j.markets,
                               !.markets = {}]
  <2>1. /\ j.kind = "scan" /\ Replace(j, next)
        /\ UNCHANGED <<mode, owner, submitted, signals>>
    BY <1>7 DEF PruneShard
  <2>2. JobOK(next) /\ next.kind = j.kind
    BY <1>1, <2>1 DEF JobOK, Jobs, JobSteps, OneMarket
  <2> HIDE DEF next
  <2> QED BY <1>1, <2>1, <2>2, ReplaceInv
<1>8. CASE EndPrune(j)
  BY <1>1, <1>2, <1>8, Queued, EndInv DEF EndPrune, UnlockAndFinish
<1> QED BY <1>4, <1>5, <1>6, <1>7, <1>8

(* Every step of the program preserves the screen. *)
LEMMA InitManagement == Init => ManagementInv
<1> SUFFICES ASSUME Init PROVE ManagementInv
  OBVIOUS
<1>1. NoAction \in Owners
  BY DEF NoAction, Owners, ActionOutcomes
<1>2. mode = "IDLE" /\ submitted = 0 /\ owner = NoAction /\ jobs = {} /\ signals = << >>
  BY DEF Init, ManagementInit
<1> QED BY <1>1, <1>2 DEF ManagementInv, Modes

LEMMA NextManagement == TypeInv /\ ManagementInv /\ [Next]_vars => ManagementInv'
<1> SUFFICES ASSUME TypeInv, ManagementInv, [Next]_vars PROVE ManagementInv'
  OBVIOUS
<1>1. CASE UNCHANGED managementVars
  BY <1>1 DEF managementVars, ManagementInv
<1>2. CASE ManagementCommand
  BY <1>2, ManagementCommandInv
<1>3. CASE ManagementSignal
  BY <1>3, ManagementSignalInv
<1>4. CASE ManagementJob
  <2>1. PICK j \in jobs : JobStep(j)
    BY <1>4 DEF ManagementJob
  <2> QED BY <2>1, SyncJobInv, RepairJobInv, ReadOrClearInv, ScanJobInv DEF JobStep
<1>5. CASE Restart
  <2>1. mode' = "IDLE" /\ owner' = NoAction /\ submitted' = 0 /\ jobs' = {} /\ signals' = << >>
    BY <1>5 DEF Restart
  <2>2. NoAction \in Owners
    BY DEF NoAction, Owners, ActionOutcomes
  <2> QED BY <2>1, <2>2 DEF ManagementInv, Modes
<1> QED BY <1>1, <1>2, <1>3, <1>4, <1>5
   DEF Next, vars, Clock, Download, BacktestCommand, BacktestReport, BacktestTask,
       NoManagement

-----------------------------------------------------------------------------
(* The screens ask of the handlers only what MarketDataSync lets anyone    *)
(* ask of them: every step of the program is one of the service, or none.  *)

LEMMA BacktestWorkers == BacktestSync \in Workers /\ BacktestSync \in SyncWorkers
BY ScreenAssumption DEF Workers

LEMMA ManagementWorkers ==
  /\ SingleSync \in SyncWorkers /\ Repairer \in RepairWorkers
  /\ \A m \in Markets : BulkSync[m] \in SyncWorkers
  /\ SyncWorkers \subseteq Workers /\ RepairWorkers \subseteq Workers
BY ManagementAssumption DEF Workers

LEMMA BacktestTaskSyncs ==
  ASSUME TypeInv, ScreenInv, BacktestTask
  PROVE  [SyncNext]_syncVars
<1>1. PICK t \in tasks :
        \/ (ProbeCoverage(t) \/ RunEngine(t) \/ VerifyCoverage(t)) /\ NoWorker
        \/ (DispatchSync(t) \/ EndSync(t)) /\ UNCHANGED storeVars
  BY DEF BacktestTask
<1>2. CASE NoWorker
  BY <1>2 DEF NoWorker, syncVars
<1>3. CASE DispatchSync(t) /\ UNCHANGED storeVars
  <2> DEFINE from == IF t.gap # NoTime THEN t.gap ELSE t.config.from
  <2>1. /\ MarketOf(t.config) \in Markets /\ t.cancelled \in BOOLEAN
        /\ from \in Times \cup {NoTime} /\ t.config.end + 1 \in Times \cup {NoTime}
    BY OnlyWorker, MarketsOfTasks DEF Tasks, SomeTimes
  <2>2. Request(BacktestSync, MarketOf(t.config), from, t.config.end + 1, t.cancelled)
    BY <1>3 DEF DispatchSync
  <2> HIDE DEF from
  <2>3. SyncNext
    BY <1>3, <2>1, <2>2, BacktestWorkers DEF SyncNext
  <2> QED BY <2>3
<1>4. CASE EndSync(t) /\ UNCHANGED storeVars
  <2>1. Collect(BacktestSync)
    BY <1>4 DEF EndSync
  <2>2. SyncNext
    BY <1>4, <2>1, BacktestWorkers DEF SyncNext
  <2> QED BY <2>2
<1> QED BY <1>1, <1>2, <1>3, <1>4

LEMMA ManagementJobSyncs ==
  ASSUME TypeInv, ManagementInv, ManagementJob
  PROVE  [SyncNext]_syncVars
<1>1. PICK j \in jobs : JobStep(j)
  BY DEF ManagementJob
<1>2. /\ JobOK(j) /\ j.cancelled \in BOOLEAN
      /\ j.kind \in OneMarket => MarketOfJob(j) \in Markets
  BY JobStepFacts
<1>3. CASE BeginSingle(j)
  <2>1. MarketOfJob(j) \in Markets
    BY <1>2, <1>3 DEF BeginSingle, OneMarket
  <2>2. /\ Request(SingleSync, MarketOfJob(j), NoTime, NoTime, j.cancelled)
        /\ UNCHANGED storeVars
    BY <1>3 DEF BeginSingle
  <2>3. SyncNext
    BY <1>2, <2>1, <2>2, ManagementWorkers DEF SyncNext
  <2> QED BY <2>3
<1>4. CASE EndSingle(j)
  <2>1. Collect(SingleSync) /\ UNCHANGED storeVars
    BY <1>4 DEF EndSingle
  <2>2. SyncNext
    BY <2>1, ManagementWorkers DEF SyncNext
  <2> QED BY <2>2
<1>5. CASE BeginBulk(j) \/ EndBulk(j) \/ BeginScan(j) \/ EndScan(j) \/ CheckShard(j)
             \/ EndPrune(j)
  BY <1>5 DEF BeginBulk, EndBulk, BeginScan, EndScan, CheckShard, EndPrune, syncVars
<1>6. ASSUME NEW m \in Markets, SyncTarget(j, m) PROVE SyncNext
  <2>1. Request(BulkSync[m], m, NoTime, NoTime, FALSE) /\ UNCHANGED storeVars
    BY <1>6 DEF SyncTarget
  <2> QED BY <2>1, ManagementWorkers DEF SyncNext
<1>7. ASSUME NEW m \in Markets, TargetDone(j, m) PROVE SyncNext
  <2>1. Collect(BulkSync[m]) /\ UNCHANGED storeVars
    BY <1>7 DEF TargetDone
  <2> QED BY <2>1, ManagementWorkers DEF SyncNext
<1>8. ASSUME NEW m \in Markets, ListGaps(m) \/ UNCHANGED listed,
             UNCHANGED <<storeVars, inFlight, stage, call, stream, outcome, cancelled>>
      PROVE  [SyncNext]_syncVars
  <2>1. CASE ListGaps(m)
    <3>1. SyncNext
      BY <1>8, <2>1 DEF SyncNext
    <3> QED BY <3>1
  <2>2. CASE UNCHANGED listed
    BY <1>8, <2>2 DEF syncVars, workerVars
  <2> QED BY <1>8, <2>1, <2>2
<1>9. CASE BeginRepair(j) \/ EndRepair(j) \/ (ReadOnly(j) /\ j.kind = "inspect")
  <2>1. MarketOfJob(j) \in Markets
    BY <1>2, <1>9 DEF BeginRepair, EndRepair, Repairs, OneMarket
  <2>2. /\ ListGaps(MarketOfJob(j)) \/ UNCHANGED listed
        /\ UNCHANGED <<storeVars, inFlight, stage, call, stream, outcome, cancelled>>
    BY <1>9 DEF BeginRepair, EndRepair, ReadOnly
  <2> QED BY <1>8, <2>1, <2>2
<1>10. CASE ReadOnly(j) /\ j.kind # "inspect"
  BY <1>10 DEF ReadOnly, syncVars, workerVars
<1>11. CASE RepairNext(j)
  <2>1. MarketOfJob(j) \in Markets
    BY <1>2, <1>11 DEF RepairNext, Repairs, OneMarket
  <2>2. PICK g : RequestRepair(Repairer, MarketOfJob(j), g, j.cancelled)
    BY <1>11 DEF RepairNext
  <2>3. g \in listed[MarketOfJob(j)] /\ UNCHANGED storeVars
    BY <1>11, <2>2 DEF RequestRepair, RepairNext
  <2>4. SyncNext
    BY <1>2, <2>1, <2>2, <2>3, ManagementWorkers DEF SyncNext
  <2> QED BY <2>4
<1>12. CASE RepairDone(j)
  <2>1. Collect(Repairer) /\ UNCHANGED storeVars
    BY <1>12 DEF RepairDone
  <2>2. SyncNext
    BY <2>1, ManagementWorkers DEF SyncNext
  <2> QED BY <2>2
<1>13. CASE Clear(j)
  <2>1. UNCHANGED <<now, inFlight, workerVars>>
    BY <1>13 DEF Clear
  <2>2. CASE j.kind = "clear" /\ ClearInterval(MarketOfJob(j))
    <3>1. MarketOfJob(j) \in Markets
      BY <1>2, <2>2 DEF OneMarket
    <3>2. SyncNext
      BY <2>1, <2>2, <3>1 DEF SyncNext
    <3> QED BY <3>2
  <2>3. CASE PurgeAll
    <3>1. RemoveShards(shards) /\ shards \in SUBSET Symbols
      BY <2>3 DEF PurgeAll, TypeInv, SyncTypeOK
    <3>2. SyncNext
      BY <2>1, <3>1 DEF SyncNext
    <3> QED BY <3>2
  <2>4. CASE UNCHANGED <<shards, rows, stale>>
    BY <2>1, <2>4 DEF syncVars, storeVars
  <2> QED BY <1>13, <2>2, <2>3, <2>4 DEF Clear
<1>14. CASE PruneShard(j)
  <2>1. RemoveShards(j.markets) /\ UNCHANGED <<now, inFlight, workerVars>> /\ j.kind = "scan"
    BY <1>14 DEF PruneShard
  <2>2. j.markets \in SUBSET Symbols
    BY <1>2, <2>1 DEF JobOK
  <2>3. SyncNext
    BY <2>1, <2>2 DEF SyncNext
  <2> QED BY <2>3
<1> QED
  BY <1>1, <1>3, <1>4, <1>5, <1>6, <1>7, <1>9, <1>10, <1>11, <1>12, <1>13, <1>14 DEF JobStep

LEMMA StepIsSync == TypeInv /\ ScreenInv /\ ManagementInv /\ [Next]_vars => [SyncNext]_syncVars
<1> SUFFICES ASSUME TypeInv, ScreenInv, ManagementInv, [Next]_vars
             PROVE  [SyncNext]_syncVars
  OBVIOUS
<1>1. CASE UNCHANGED vars
  BY <1>1 DEF vars
<1>2. CASE Clock \/ \E w \in Workers : Download(w)
  BY <1>2 DEF Clock, Download, SyncNext
<1>3. CASE NoWorker
  BY <1>3 DEF NoWorker, syncVars
<1>4. ASSUME NEW workers \in SUBSET Workers, CancelWorkers(workers),
             UNCHANGED <<storeVars, inFlight, stage, call, stream, outcome, listed>>
      PROVE  SyncNext
  BY <1>4 DEF SyncNext
<1>5. CASE BacktestCommand
  <2>1. CASE CancelBacktest /\ UNCHANGED <<storeVars, inFlight, stage, call, stream, outcome, listed>>
    <3>1. \E workers \in SUBSET Workers : CancelWorkers(workers)
      BY <2>1, BacktestWorkers DEF CancelBacktest
    <3> QED BY <1>4, <2>1, <3>1
  <2> QED BY <1>3, <1>5, <2>1 DEF BacktestCommand
<1>6. CASE ManagementCommand
  <2>1. CASE CancelManagement /\ UNCHANGED <<storeVars, inFlight, stage, call, stream, outcome, listed>>
    <3>1. \E workers \in SUBSET Workers : CancelWorkers(workers)
      BY <2>1 DEF CancelManagement
    <3> QED BY <1>4, <2>1, <3>1
  <2> QED BY <1>3, <1>6, <2>1 DEF ManagementCommand
<1>7. CASE BacktestReport \/ ManagementSignal
  BY <1>3, <1>7 DEF BacktestReport, ManagementSignal
<1>8. CASE Restart
  <2>1. CrashSync
    BY <1>8 DEF Restart
  <2> QED BY <2>1 DEF SyncNext
<1> QED
  BY <1>1, <1>2, <1>5, <1>6, <1>7, <1>8, BacktestTaskSyncs, ManagementJobSyncs DEF Next

-----------------------------------------------------------------------------
(* The theorems of the program. *)

ProgramInv == TypeInv /\ ScreenInv /\ ManagementInv /\ commands \in Nat

LEMMA NextCommands == commands \in Nat /\ [Next]_vars => commands' \in Nat
<1> SUFFICES ASSUME commands \in Nat, [Next]_vars PROVE commands' \in Nat
  OBVIOUS
<1>1. \A batch \in Selections : Cardinality(batch) \in Nat
  BY SelectionsAssumption, FS_CardinalityType
<1>2. \A cost \in Nat : Command(cost) => commands' \in Nat
  BY DEF Command
<1>3. CASE UNCHANGED commands
  BY <1>3
<1>4. CASE Command(1)
  BY <1>2, <1>4
<1>5. CASE \E batch \in Selections : Command(1 + Cardinality(batch))
  BY <1>1, <1>2, <1>5
<1> QED BY <1>3, <1>4, <1>5
   DEF Next, vars, Clock, Download, BacktestCommand, BacktestReport, BacktestTask,
       ManagementCommand, ManagementSignal, ManagementJob, Restart, NoCommand

LEMMA ProgramInvHolds == Spec => []ProgramInv
<1>1. Init => ProgramInv
  BY InitTypes, InitScreen, InitManagement DEF Init, ProgramInv
<1>2. ProgramInv /\ [Next]_vars => ProgramInv'
  BY NextTypes, StepIsSync, NextScreen, NextManagement, NextCommands DEF ProgramInv
<1> QED BY <1>1, <1>2, PTL DEF Spec

(* The program implements the service: whatever the two screens do, the    *)
(* handlers and the store behave as MarketDataSync allows.                 *)
THEOREM ProgramIsSync == Spec => SyncSpec
<1>1. Init => SyncInit
  BY DEF Init
<1>2. ProgramInv /\ [Next]_vars => [SyncNext]_syncVars
  BY StepIsSync DEF ProgramInv
<1> QED BY <1>1, <1>2, ProgramInvHolds, PTL DEF Spec, SyncSpec

(* In the program, too, the variables have their types, ...                *)
THEOREM ProgramTypesCorrect == Spec => []SyncTypeOK
BY ProgramIsSync, SyncTypesCorrect, PTL

(* ... a market is downloaded by one sync at a time and released after it, *)
(* whichever screens want it (InFlightSyncGuard), ...                      *)
THEOREM ProgramFetchesOnce == Spec => []OneFetchPerMarket
BY ProgramIsSync, OneFetchPerMarketHolds, PTL

(* ... no closed candle is overwritten by an older copy (save_klines), ... *)
THEOREM ProgramKeepsFinal == Spec => FinalStaysFinal
BY ProgramIsSync, FinalStaysFinalHolds, PTL

(* ... a resumed sync that succeeds has caught up (_determine_start_time), *)
THEOREM ProgramCatchesUp == Spec => []SyncCatchesUp
BY ProgramIsSync, SyncCatchesUpHolds, PTL

(* ... and none leaves a new hole behind, however it ends (save_klines).   *)
THEOREM ProgramLeavesNoHole == Spec => SyncLeavesNoHole
BY ProgramIsSync, SyncLeavesNoHoleHolds, PTL

(* The aggregates SQL computes and the rows give one verdict on a range,   *)
(* and name the same first missing candle (backtest_range_coverage.py).    *)
THEOREM CoverageVerdictsAgreeHolds == Spec => []CoverageVerdictsAgree
<1>1. ProgramInv => CoverageVerdictsAgree
  <2> SUFFICES ASSUME ProgramInv, NEW t \in tasks, NEW start \in Times \cup {NoTime},
                      NEW end \in Times
               PROVE  RangeCoverage(MarketOf(t.config), start, end) =
                        CoverageOfRows(MarketOf(t.config), start, end)
    BY DEF CoverageVerdictsAgree
  <2>1. MarketOf(t.config) \in Markets
    BY MarketsOfTasks DEF ProgramInv
  <2>2. start \in SomeTimes /\ end \in Int
    BY TimeAssumption DEF SomeTimes, Times
  <2> QED BY <2>1, <2>2, OneVerdict DEF ProgramInv
<1> QED BY <1>1, ProgramInvHolds, PTL

(* The backtest screen has one worker at a time: no click starts a second  *)
(* while a cancelled one has not reported (BACKTEST_STATE_TRANSITIONS).    *)
THEOREM OneLiveWorkerHolds == Spec => []OneLiveWorker
<1>1. ProgramInv => OneLiveWorker
  <2> SUFFICES ASSUME ProgramInv PROVE Cardinality(tasks) <= 1
    BY DEF OneLiveWorker
  <2>1. tasks = {} \/ \E t : tasks = {t}
    BY OnlyWorker DEF ProgramInv
  <2>2. CASE tasks = {}
    BY <2>2, FS_EmptySet
  <2>3. CASE \E t : tasks = {t}
    <3>1. PICK t : tasks = {t}
      BY <2>3
    <3>2. Cardinality({t}) = 1
      BY FS_Singleton
    <3> QED BY <3>1, <3>2
  <2> QED BY <2>1, <2>2, <2>3
<1> QED BY <1>1, ProgramInvHolds, PTL

(* A screen that shows a run or a sync has exactly one worker or report of *)
(* it left, and a sync being cancelled one too (_on_cancel_backtest).      *)
THEOREM BusyHasOwnerHolds == Spec => []BusyHasOwner
<1>1. ScreenInv => BusyHasOwner
  <2> SUFFICES ASSUME ScreenInv PROVE BusyHasOwner
    OBVIOUS
  <2> DEFINE owned == {t \in tasks : t.id = action.id}
             reported == {i \in DOMAIN inbox : inbox[i].id = action.id}
  <2>1. ASSUME OnePiece
        PROVE  Owned /\ Cardinality(owned) + Cardinality(reported) = 1
    <3>1. CASE OneTask
      <4>1. PICK t \in Tasks : tasks = {t} /\ inbox = << >> /\ t.id = action.id
        BY <3>1 DEF OneTask
      <4>2. owned = {t} /\ reported = {}
        BY <4>1
      <4>3. Cardinality(owned) = 1 /\ Cardinality(reported) = 0
        BY <4>2, FS_Singleton, FS_EmptySet
      <4> HIDE DEF owned, reported
      <4> QED BY <4>1, <4>3 DEF Owned
    <3>2. CASE OneReport
      <4>1. PICK r \in Reports : tasks = {} /\ inbox = <<r>> /\ r.id = action.id
        BY <3>2 DEF OneReport
      <4>2. owned = {} /\ reported = {1}
        BY <4>1
      <4>3. Cardinality(owned) = 0 /\ Cardinality(reported) = 1
        BY <4>2, FS_Singleton, FS_EmptySet
      <4>4. Owned
        BY <4>1, <4>2 DEF Owned
      <4> HIDE DEF owned, reported
      <4> QED BY <4>3, <4>4
    <3> QED BY <2>1, <3>1, <3>2 DEF OnePiece
  <2>2. CASE AtRest
    BY <2>2 DEF AtRest, Restful, BusyHasOwner
  <2>3. CASE Running
    BY <2>1, <2>3 DEF Running, BusyHasOwner
  <2>4. CASE Syncing
    BY <2>1, <2>4 DEF Syncing, BusyHasOwner
  <2>5. CASE Cancelling
    BY <2>1, <2>5 DEF Cancelling, BusyHasOwner
  <2> QED BY <2>2, <2>3, <2>4, <2>5 DEF ScreenInv
<1> QED BY <1>1, ProgramInvHolds, PTL DEF ProgramInv

(* A result on screen changes only by a report of the run that is shown as *)
(* running, never by one of a run that was cancelled or superseded.        *)
THEOREM NoResultAfterCancelHolds == Spec => NoResultAfterCancel
<1>1. ASSUME ProgramInv, [Next]_vars, result' # result, action'.id # 0
      PROVE  uiState = "RUNNING" /\ result' \in {0, action.id}
  <2>1. CASE BacktestReport
    <3>1. ScreenInv /\ inbox # << >>
      BY <1>1, <2>1 DEF ProgramInv, BacktestReport, CoverageMissing, BacktestSucceeded,
         BacktestEmpty, BacktestFailed, WorkCancelled, SyncSucceeded, SyncFailed, Reported
    <3>2. IsCurrentPending(action, Report.id, "BACKTEST")
      BY <1>1, <2>1 DEF BacktestReport, CoverageMissing, BacktestSucceeded, BacktestEmpty,
         BacktestFailed, WorkCancelled, SyncSucceeded, SyncFailed, Reported, IgnoreStale,
         CompleteCancelled
    <3>3. uiState = "RUNNING" /\ Report.id = action.id
      BY <3>1, <3>2, PendingIsBusy, LastReport
    <3>4. result' \in {0, Report.id}
      BY <1>1, <2>1 DEF BacktestReport, CoverageMissing, BacktestSucceeded, BacktestEmpty,
         BacktestFailed, WorkCancelled, SyncSucceeded, SyncFailed, Reported, IgnoreStale,
         CompleteCancelled
    <3> QED BY <3>3, <3>4
  <2>2. CASE Restart
    BY <1>1, <2>2 DEF Restart, NoAction
  <2>3. CASE BacktestCommand
    BY <1>1, <2>3 DEF BacktestCommand, RunBacktest, RequestSync, ChangeToolbar, CancelBacktest
  <2>4. CASE BacktestTask
    BY <1>1, <2>4 DEF BacktestTask, ProbeCoverage, RunEngine, VerifyCoverage, DispatchSync,
       EndSync, OnlyTasks
  <2> QED
    BY <1>1, <2>1, <2>2, <2>3, <2>4
    DEF Next, vars, Clock, Download, ManagementCommand, ManagementSignal, ManagementJob,
        NoBacktest, screenVars
<1>2. ProgramInv /\ [Next]_vars =>
        [result' # result /\ action'.id # 0 =>
           uiState = "RUNNING" /\ result' \in {0, action.id}]_screenVars
  BY <1>1
<1> QED BY <1>2, ProgramInvHolds, PTL DEF Spec, NoResultAfterCancel

(* A sync that starts by itself serves a run the user started: a range the *)
(* exchange cannot complete does not make a loop of syncs (auto_sync).     *)
THEOREM NoSyncLoopHolds == Spec => NoSyncLoop
<1>1. ASSUME ProgramInv, [Next]_vars, action'.kind = "SYNC", action'.id # action.id,
             UNCHANGED commands
      PROVE  action.kind = "BACKTEST" /\ action.previous \in Restful
  <2>1. ~ Command(1)
    BY <1>1 DEF Command, ProgramInv
  <2>2. BacktestReport
    BY <1>1, <2>1
    DEF Next, vars, Clock, Download, ManagementCommand, ManagementSignal, ManagementJob,
        NoBacktest, screenVars, BacktestCommand, Restart, BacktestTask, ProbeCoverage,
        RunEngine, VerifyCoverage, DispatchSync, EndSync, OnlyTasks
  <2>3. \A outcome0 \in ActionOutcomes : FinishAction(action, Report.id, outcome0).id = action.id
    BY <1>1, FinishedAction DEF ProgramInv, ScreenInv, ScreenTypes
  <2>4. {"EMPTY", "SUCCEEDED", "FAILED", "CANCELLED"} \subseteq ActionOutcomes
    BY DEF ActionOutcomes
  <2>5. ~ CompleteCancelled /\ ~ UNCHANGED action
    BY <1>1, <2>3, <2>4 DEF CompleteCancelled
  <2>6. ~ (BacktestSucceeded \/ BacktestEmpty \/ BacktestFailed \/ WorkCancelled \/ SyncFailed)
    BY <1>1, <2>3, <2>4, <2>5 DEF BacktestSucceeded, BacktestEmpty, BacktestFailed,
       WorkCancelled, SyncFailed, Reported, IgnoreStale
  <2>7. ~ SyncSucceeded
    <3> DEFINE finished == FinishAction(action, Report.id, "SUCCEEDED")
               resumed == BeginAction(finished, "BACKTEST", After(uiState, "SYNC_SUCCEEDED"))
    <3>1. resumed.kind = "BACKTEST"
      BY DEF BeginAction
    <3>2. SyncSucceeded => CompleteCancelled \/ UNCHANGED action \/ action' = finished
                             \/ action' = resumed
      BY DEF SyncSucceeded, Reported, IgnoreStale, StartRun
    <3>3. finished.id = action.id
      BY <2>3, <2>4
    <3> HIDE DEF finished, resumed
    <3> QED BY <1>1, <2>5, <3>1, <3>2, <3>3
  <2>8. CoverageMissing
    BY <2>2, <2>6, <2>7 DEF BacktestReport
  <2>9. /\ inbox # << >> /\ IsCurrentPending(action, Report.id, "BACKTEST") /\ Report.auto
    BY <1>1, <2>3, <2>4, <2>5, <2>8 DEF CoverageMissing, IgnoreStale
  <2>10. action.kind = "BACKTEST"
    BY <2>9 DEF IsCurrentPending, IsCurrent
  <2> QED BY <1>1, <2>9, <2>10, LastReport DEF ProgramInv
<1>2. ProgramInv /\ [Next]_vars =>
        [action'.kind = "SYNC" /\ action'.id # action.id /\ UNCHANGED commands
           => action.kind = "BACKTEST" /\ action.previous \in Restful]_vars
  BY <1>1
<1> QED BY <1>2, ProgramInvHolds, PTL DEF Spec, NoSyncLoop

(* The buttons of data management are never disabled for good: a worker    *)
(* that enables them on every path, or its signal, is still to come.       *)
THEOREM UnlockAlwaysComesHolds == Spec => []UnlockAlwaysComes
<1>1. ProgramInv => UnlockAlwaysComes
  <2> SUFFICES ASSUME ProgramInv, mode # "IDLE", \A j \in jobs : j.kind = "inspect"
               PROVE  \E i \in DOMAIN signals : signals[i] \in {"unlock", "complete"}
    BY DEF UnlockAlwaysComes
  <2>1. signals \in Seq({"unlock", "complete"}) /\ signals # << >>
    BY DEF ProgramInv, ManagementInv
  <2>2. 1 \in DOMAIN signals /\ signals[1] \in {"unlock", "complete"}
    BY <2>1
  <2> QED BY <2>2
<1> QED BY <1>1, ProgramInvHolds, PTL

=============================================================================
