---------------------------- MODULE MarketDataSync ----------------------------
(***************************************************************************)
(* Downloading candles: SyncMarketDataCommandHandler behind its            *)
(* InFlightSyncGuard, RepairDataGapCommandHandler beside it, and the       *)
(* exchange client both stream from, with its retries and cancellation.    *)
(*                                                                         *)
(* A worker is a thread that runs one of the two handlers on behalf of a   *)
(* screen.  The exchange answers a request with a page of candles, with a  *)
(* network error, which the client retries, or with another error.  A      *)
(* chunk is a page: _KLINE_STREAM_CHUNK_SIZE is the page limit.            *)
(***************************************************************************)
EXTENDS CandleStore

CONSTANTS
  SyncWorkers,
  RepairWorkers,
  NoMarket,
  PageSize,      \* candles of a page
  MaxRetries,    \* _MAX_TRANSIENT_RETRIES
  DaysBack       \* days_back_if_empty, in candles

ASSUME SyncAssumption ==
  /\ SyncWorkers \cap RepairWorkers = {}
  /\ NoMarket \notin Markets
  /\ PageSize \in Nat \ {0} /\ MaxRetries \in Nat /\ DaysBack \in Nat

Workers == SyncWorkers \cup RepairWorkers

VARIABLES
  inFlight,     \* the markets InFlightSyncGuard holds
  stage,        \* how far a worker is with its handler
  call,         \* its command, with the start time it resolved
  stream,       \* its generator: where it resumes, its buffer, its failures
  outcome,      \* how its handler ended
  cancelled,    \* the workers whose cancellation token is set
  listed        \* the gaps a query has returned since the program started

workerVars == <<stage, call, stream, outcome, cancelled, listed>>
syncVars == <<storeVars, inFlight, workerVars>>

Nothing == [rows |-> {}, stale |-> {}]

NoCall == [market |-> NoMarket, from |-> NoTime, to |-> NoTime,
           tip |-> NoTime, asked |-> NoTime]
NoStream == [next |-> NoTime, chunk |-> Nothing, more |-> FALSE, failures |-> 0]

SyncInit ==
  /\ now \in Times
  /\ shards \in SUBSET Symbols
  /\ rows \in [Markets -> SUBSET (1 .. now)]
  /\ stale \in [Markets -> SUBSET (1 .. now)]
  /\ \A m \in Markets :
       /\ rows[m] # {} => SymbolOf(m) \in shards
       /\ stale[m] \subseteq rows[m]
       /\ now \in rows[m] => now \in stale[m]
  /\ inFlight = {}
  /\ stage = [w \in Workers |-> "idle"]
  /\ call = [w \in Workers |-> NoCall]
  /\ stream = [w \in Workers |-> NoStream]
  /\ outcome = [w \in Workers |-> "none"]
  /\ cancelled = {}
  /\ listed = [m \in Markets |-> {}]

-----------------------------------------------------------------------------
(* What a screen does with a worker. *)

(* SyncMarketDataCommand: without a start time, it resumes at the newest   *)
(* candle stored.  Its token may have been cancelled before the worker ran.*)
Request(w, m, from, to, token) ==
  /\ w \in SyncWorkers
  /\ stage[w] = "idle"
  /\ stage' = [stage EXCEPT ![w] = "guard"]
  /\ call' = [call EXCEPT ![w] = [NoCall EXCEPT !.market = m, !.from = from, !.to = to]]
  /\ cancelled' = IF token THEN cancelled \cup {w} ELSE cancelled
  /\ UNCHANGED <<inFlight, stream, outcome, listed>>

(* GetDatabaseGapsQuery.                                                   *)
ListGaps(m) == listed' = [listed EXCEPT ![m] = @ \cup Gaps(m)]

(* Mutant: a gap is fetched up to the candle that ends it, and beyond it.  *)
RequestRepairBeyond(w, m, g, token) ==
  /\ w \in RepairWorkers
  /\ stage[w] = "idle"
  /\ g \in listed[m]
  /\ stage' = [stage EXCEPT ![w] = "page"]
  /\ call' = [call EXCEPT ![w] = [NoCall EXCEPT !.market = m, !.from = FetchStart(g)]]
  /\ stream' = [stream EXCEPT ![w].next = FetchStart(g)]
  /\ cancelled' = IF token THEN cancelled \cup {w} ELSE cancelled
  /\ UNCHANGED <<inFlight, outcome, listed>>

(* RepairDataGapCommand: the candles strictly inside a gap that was listed *)
(* earlier, without the guard.                                             *)
RequestRepair(w, m, g, token) ==
  /\ w \in RepairWorkers
  /\ stage[w] = "idle"
  /\ g \in listed[m]
  /\ stage' = [stage EXCEPT ![w] = "page"]
  /\ call' = [call EXCEPT ![w] =
                [NoCall EXCEPT !.market = m, !.from = FetchStart(g), !.to = FetchEnd(g)]]
  /\ stream' = [stream EXCEPT ![w].next = FetchStart(g)]
  /\ cancelled' = IF token THEN cancelled \cup {w} ELSE cancelled
  /\ UNCHANGED <<inFlight, outcome, listed>>

(* The token a command carries is cancelled by its screen.                 *)
CancelWorkers(workers) == cancelled' = cancelled \cup workers

(* The screen takes the outcome: the thread goes back to the pool.         *)
Collect(w) ==
  /\ stage[w] = "done"
  /\ stage' = [stage EXCEPT ![w] = "idle"]
  /\ call' = [call EXCEPT ![w] = NoCall]
  /\ stream' = [stream EXCEPT ![w] = NoStream]
  /\ outcome' = [outcome EXCEPT ![w] = "none"]
  /\ cancelled' = cancelled \ {w}
  /\ UNCHANGED <<inFlight, listed>>

-----------------------------------------------------------------------------
(* The handlers. *)

(* Mutant: the guard is read but not taken.                                *)
AcquireUnlocked(w) ==
  /\ stage[w] = "guard"
  /\ \/ /\ w \in cancelled \/ call[w].market \in inFlight
        /\ stage' = [stage EXCEPT ![w] = "done"]
        /\ outcome' = [outcome EXCEPT ![w] =
                         IF w \in cancelled THEN "cancelled" ELSE "skipped"]
     \/ /\ w \notin cancelled /\ call[w].market \notin inFlight
        /\ stage' = [stage EXCEPT ![w] = "start"]
        /\ UNCHANGED outcome
  /\ UNCHANGED <<storeVars, inFlight, call, stream, cancelled, listed>>

(* The cancellation check of execute, then try_acquire.                    *)
Acquire(w) ==
  /\ stage[w] = "guard"
  /\ \/ /\ w \in cancelled \/ call[w].market \in inFlight
        /\ stage' = [stage EXCEPT ![w] = "done"]
        /\ outcome' = [outcome EXCEPT ![w] =
                         IF w \in cancelled THEN "cancelled" ELSE "skipped"]
        /\ UNCHANGED inFlight
     \/ /\ w \notin cancelled /\ call[w].market \notin inFlight
        /\ inFlight' = inFlight \cup {call[w].market}
        /\ stage' = [stage EXCEPT ![w] = "start"]
        /\ UNCHANGED outcome
  /\ UNCHANGED <<storeVars, call, stream, cancelled, listed>>

LaterOf(s, t) == IF s < t THEN t ELSE s

(* Mutant: a sync resumes after the newest candle stored.                  *)
StartAfter(m) ==
  IF LatestKlineTime(m) # NoTime THEN LatestKlineTime(m) + 1
  ELSE LaterOf(1, now - DaysBack)

(* Mutant: no newest candle counts as the beginning of time.               *)
StartAtEpoch(m) == LatestKlineTime(m)

(* _determine_start_time without an explicit one: the newest candle stored *)
(* is downloaded again, for it may have been forming.                      *)
LatestStart(m) ==
  IF LatestKlineTime(m) # NoTime THEN LatestKlineTime(m)
  ELSE LaterOf(1, now - DaysBack)

DetermineStart(w) ==
  /\ stage[w] = "start"
  /\ LET m == call[w].market
         start == IF call[w].from # NoTime THEN call[w].from ELSE LatestStart(m)
     IN  /\ call' = [call EXCEPT ![w].tip =
                       IF call[w].from # NoTime THEN NoTime ELSE LatestKlineTime(m),
                       ![w].asked = now]
         /\ stream' = [stream EXCEPT ![w].next = start]
  /\ stage' = [stage EXCEPT ![w] = "page"]
  /\ UNCHANGED <<storeVars, inFlight, outcome, cancelled, listed>>

(* A handler ends: the guard is released in a finally.                     *)
EndsWith(w, how) ==
  /\ stage' = [stage EXCEPT ![w] = IF w \in SyncWorkers THEN "release" ELSE "done"]
  /\ outcome' = [outcome EXCEPT ![w] = how]

(* _raise_if_cancelled and _cancellable_sleep, before a request, during    *)
(* the backoff, and at each candle of a page.                              *)
Abandon(w) ==
  /\ stage[w] \in {"page", "save"}
  /\ w \in cancelled
  /\ EndsWith(w, "cancelled")
  /\ UNCHANGED <<storeVars, inFlight, call, stream, cancelled, listed>>

(* What the exchange has of a range: the forming candle is the last of it. *)
PageOf(from, to) ==
  {t \in from .. now : (to = NoTime \/ t <= to) /\ t < from + PageSize}

(* A page arrives.  A sync saves each page as it comes; a repair saves all *)
(* its pages together.                                                     *)
ReceivePage(w) ==
  /\ stage[w] = "page"
  /\ w \notin cancelled
  /\ LET page == PageOf(stream[w].next, call[w].to)
         more == Cardinality(page) = PageSize
         buffer == IF w \in SyncWorkers THEN Nothing ELSE stream[w].chunk
     IN  IF page = {} /\ buffer = Nothing
         THEN /\ EndsWith(w, "synced")
              /\ UNCHANGED stream
         ELSE /\ stream' = [stream EXCEPT ![w] =
                   [next |-> stream[w].next + Cardinality(page),
                    chunk |-> [rows |-> buffer.rows \cup page,
                               stale |-> buffer.stale \cup (page \cap {now})],
                    more |-> more,
                    failures |-> 0]]
              /\ stage' = [stage EXCEPT ![w] =
                             IF more /\ w \in RepairWorkers THEN "page" ELSE "save"]
              /\ UNCHANGED outcome
  /\ UNCHANGED <<storeVars, inFlight, call, cancelled, listed>>

(* Mutant: a retry restarts behind the page that failed.                   *)
SkipFailedPage(w) ==
  /\ stage[w] = "page"
  /\ w \notin cancelled
  /\ IF stream[w].failures = MaxRetries
     THEN /\ EndsWith(w, "failed")
          /\ UNCHANGED stream
     ELSE /\ stream' = [stream EXCEPT ![w].failures = @ + 1,
                                      ![w].next = @ + PageSize]
          /\ UNCHANGED <<stage, outcome>>
  /\ UNCHANGED <<storeVars, inFlight, call, cancelled, listed>>

(* A RequestException: resume where the last candle ended, or give up      *)
(* after too many without a candle in between.                             *)
TransientFailure(w) ==
  /\ stage[w] = "page"
  /\ w \notin cancelled
  /\ IF stream[w].failures = MaxRetries
     THEN /\ EndsWith(w, "failed")
          /\ UNCHANGED stream
     ELSE /\ stream' = [stream EXCEPT ![w].failures = @ + 1]
          /\ UNCHANGED <<stage, outcome>>
  /\ UNCHANGED <<storeVars, inFlight, call, cancelled, listed>>

(* Any other error of the exchange, or of save_klines.                     *)
Failure(w) ==
  /\ stage[w] \in {"page", "save"}
  /\ EndsWith(w, "failed")
  /\ UNCHANGED <<storeVars, inFlight, call, stream, cancelled, listed>>

SaveChunk(w) ==
  /\ stage[w] = "save"
  /\ w \notin cancelled
  /\ SaveKlines(call[w].market, stream[w].chunk)
  /\ stream' = [stream EXCEPT ![w].chunk = Nothing]
  /\ IF w \in SyncWorkers /\ stream[w].more
     THEN stage' = [stage EXCEPT ![w] = "page"] /\ UNCHANGED outcome
     ELSE EndsWith(w, "synced")
  /\ UNCHANGED <<now, inFlight, call, cancelled, listed>>

(* Mutant: the guard is not released when the download failed.             *)
ReleaseUnlessFailed(w) ==
  /\ stage[w] = "release"
  /\ inFlight' = IF outcome[w] = "failed" THEN inFlight
                 ELSE inFlight \ {call[w].market}
  /\ stage' = [stage EXCEPT ![w] = "done"]
  /\ UNCHANGED <<storeVars, call, stream, outcome, cancelled, listed>>

Release(w) ==
  /\ stage[w] = "release"
  /\ inFlight' = inFlight \ {call[w].market}
  /\ stage' = [stage EXCEPT ![w] = "done"]
  /\ UNCHANGED <<storeVars, call, stream, outcome, cancelled, listed>>

WorkerStep(w) ==
  \/ Acquire(w)
  \/ DetermineStart(w)
  \/ ReceivePage(w)
  \/ TransientFailure(w)
  \/ Failure(w)
  \/ Abandon(w)
  \/ SaveChunk(w)
  \/ Release(w)

(* The process dies: the disk and the exchange's clock go on.              *)
CrashSync ==
  /\ inFlight' = {}
  /\ stage' = [w \in Workers |-> "idle"]
  /\ call' = [w \in Workers |-> NoCall]
  /\ stream' = [w \in Workers |-> NoStream]
  /\ outcome' = [w \in Workers |-> "none"]
  /\ cancelled' = {}
  /\ listed' = [m \in Markets |-> {}]
  /\ UNCHANGED storeVars

-----------------------------------------------------------------------------
(* The service on its own: whatever screens ask of it, and whatever they   *)
(* delete in the meantime.                                                 *)
SyncNext ==
  \/ Tick /\ UNCHANGED <<inFlight, workerVars>>
  \/ \E w \in Workers : WorkerStep(w)
  \/ \E w \in SyncWorkers, m \in Markets, token \in BOOLEAN :
       \E from, to \in Times \cup {NoTime} :
         Request(w, m, from, to, token) /\ UNCHANGED storeVars
  \/ \E w \in RepairWorkers, m \in Markets, token \in BOOLEAN :
       \E g \in listed[m] : RequestRepair(w, m, g, token) /\ UNCHANGED storeVars
  \/ \E m \in Markets :
       ListGaps(m)
         /\ UNCHANGED <<storeVars, inFlight, stage, call, stream, outcome, cancelled>>
  \/ \E workers \in SUBSET Workers :
       CancelWorkers(workers)
         /\ UNCHANGED <<storeVars, inFlight, stage, call, stream, outcome, listed>>
  \/ \E w \in Workers : Collect(w) /\ UNCHANGED storeVars
  \/ \E m \in Markets : ClearInterval(m) /\ UNCHANGED <<now, inFlight, workerVars>>
  \/ \E symbols \in SUBSET Symbols :
       RemoveShards(symbols) /\ UNCHANGED <<now, inFlight, workerVars>>
  \/ CrashSync

SyncSpec == SyncInit /\ [][SyncNext]_syncVars

-----------------------------------------------------------------------------
(* What the fields of a command, of a stream and of a chunk can be.        *)
Chunks == [rows : SUBSET Times, stale : SUBSET Times]
Calls == [market : Markets \cup {NoMarket}, from : Nat, to : Nat, tip : Nat, asked : Nat]
Streams == [next : Nat, chunk : Chunks, more : BOOLEAN, failures : Nat]
Stages == {"idle", "guard", "start", "page", "save", "release", "done"}
Outcomes == {"none", "synced", "skipped", "cancelled", "failed"}

(* The variables have their types (the dataclasses of the commands).       *)
SyncTypeOK ==
  /\ now \in Times
  /\ shards \subseteq Symbols
  /\ rows \in [Markets -> SUBSET Times]
  /\ stale \in [Markets -> SUBSET Times]
  /\ inFlight \subseteq Markets
  /\ stage \in [Workers -> Stages]
  /\ call \in [Workers -> Calls]
  /\ stream \in [Workers -> Streams]
  /\ outcome \in [Workers -> Outcomes]
  /\ cancelled \subseteq Workers
  /\ listed \in [Markets -> SUBSET [start : Times, end : Times]]

Fetching == {w \in SyncWorkers : stage[w] \in {"start", "page", "save", "release"}}

(* The guard holds exactly the markets being synchronised, each by one     *)
(* worker: no two screens download a market at a time, and no market stays *)
(* locked when its handler failed, was cancelled or was refused            *)
(* (InFlightSyncGuard, and the try/finally of _sync_single_symbol).        *)
OneFetchPerMarket ==
  /\ inFlight = {call[w].market : w \in Fetching}
  /\ \A v, w \in Fetching : v # w => call[v].market # call[w].market

(* A candle stored as it closed is never overwritten by an older copy of   *)
(* it, taken while it was forming: pages are saved without comparing them  *)
(* with the rows there, two writers may hold pages of one market, and      *)
(* repairs do not take the guard (save_klines, RepairDataGapCommandHandler)*)
FinalStaysFinal ==
  [][\A m \in Markets : (rows[m] \ stale[m]) \cap stale'[m] = {}]_syncVars

Holes(m) == {t \in Times \ rows[m] : \E s, u \in rows[m] : s < t /\ t < u}

(* A market wiped during the sync is another story, and so is one that a   *)
(* repair of a gap found before that refills.                              *)
StillAnchored(w) ==
  LET m == call[w].market
  IN  /\ call[w].tip \in rows[m]
      /\ \A g \in listed[m] : ~(g.start < call[w].tip /\ call[w].tip < g.end)

(* A resumed sync leaves no new hole behind, whether it ends, is cancelled *)
(* between two pages, or runs into errors: a retried request resumes at    *)
(* the candle it stopped at (_generate_raw_klines_with_retry).             *)
SyncLeavesNoHole ==
  [][\A w \in SyncWorkers, m \in Markets :
       /\ stage[w] = "save" /\ stage'[w] # "save"
       /\ call[w].market = m /\ call[w].from = NoTime
       /\ StillAnchored(w) \/ rows[m] = {}
       => Holes(m)' \subseteq Holes(m)]_syncVars

(* A sync that reports success has stored every candle from the newest one *)
(* there was to the last one closed when it looked, as they closed: the    *)
(* one that may have been forming is replaced (_determine_start_time).     *)
SyncCatchesUp ==
  \A w \in SyncWorkers :
    /\ stage[w] = "release" /\ outcome[w] = "synced"
    /\ call[w].from = NoTime /\ call[w].to = NoTime
    /\ StillAnchored(w)
    => call[w].tip .. call[w].asked - 1 \subseteq
         rows[call[w].market] \ stale[call[w].market]
=============================================================================
