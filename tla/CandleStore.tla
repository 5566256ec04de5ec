------------------------------ MODULE CandleStore ------------------------------
(***************************************************************************)
(* The candles on disk: SQLAlchemyMarketDataRepository over the shards of  *)
(* DatabaseManager, one file per symbol, and the two ways the code decides *)
(* whether a range of them is complete.                                    *)
(*                                                                         *)
(* Time is counted in candles: candle t is forming while now = t and is    *)
(* closed from then on.  Of a row only two things matter: that it is there *)
(* and whether it was downloaded while its candle was still forming, when  *)
(* its prices are not the ones the candle closed with.                     *)
(***************************************************************************)
EXTENDS Integers, FiniteSets, FiniteSetsExt

CONSTANTS
  Symbols,
  Intervals,
  MaxTime      \* bound: the candles of the exchange

ASSUME TimeAssumption == MaxTime \in Nat \ {0}

VARIABLES
  now,       \* the candle that is forming on the exchange
  shards,    \* the symbols with a database file
  rows,      \* rows[m]: the candles stored for a market
  stale      \* stale[m]: those of them stored while they were forming

storeVars == <<now, shards, rows, stale>>

Markets == Symbols \X Intervals
SymbolOf(m) == m[1]

Times == 1 .. MaxTime
NoTime == 0          \* None, for a time

Tick ==
  /\ now < MaxTime
  /\ now' = now + 1
  /\ UNCHANGED <<shards, rows, stale>>

-----------------------------------------------------------------------------
(* Writing. *)

(* save_klines: one upsert, in one transaction; a session creates the file.*)
SaveKlines(m, chunk) ==
  /\ shards' = shards \cup {SymbolOf(m)}
  /\ rows' = [rows EXCEPT ![m] = @ \cup chunk.rows]
  /\ stale' = [stale EXCEPT ![m] = (@ \ chunk.rows) \cup chunk.stale]

(* clear_klines of one interval keeps the file, ...                        *)
ClearInterval(m) ==
  /\ shards' = shards \cup {SymbolOf(m)}
  /\ rows' = [rows EXCEPT ![m] = {}]
  /\ stale' = [stale EXCEPT ![m] = {}]

(* ... without an interval it removes it, ...                              *)
RemoveShards(symbols) ==
  /\ shards' = shards \ symbols
  /\ rows' = [m \in Markets |-> IF SymbolOf(m) \in symbols THEN {} ELSE rows[m]]
  /\ stale' = [m \in Markets |-> IF SymbolOf(m) \in symbols THEN {} ELSE stale[m]]

(* ... and purge_all removes them all.                                     *)
PurgeAll == RemoveShards(shards)

-----------------------------------------------------------------------------
(* Reading. *)

HasAnyKlines(s) == s \in shards /\ \E m \in Markets : SymbolOf(m) = s /\ rows[m] # {}

LatestKlineTime(m) == IF rows[m] = {} THEN NoTime ELSE Max(rows[m])

(* build_gaps_query: neighbouring rows more than one candle apart.         *)
Gaps(m) ==
  {g \in [start : rows[m], end : rows[m]] :
     /\ g.start + 1 < g.end
     /\ \A t \in rows[m] : t <= g.start \/ g.end <= t}

(* DataGap.fetch_start_time and fetch_end_time.                            *)
FetchStart(g) == g.start + 1
FetchEnd(g) == g.end - 1

EarlierOf(s, t) == IF s < t THEN s ELSE t

(* The end of the closed candles of a range: the probe's half-open bound.  *)
ClosedEnd(end) == EarlierOf(end, now)

(* build_range_coverage_query: the aggregates of the rows in the range.    *)
RangeSnapshot(m, start, end) ==
  LET scope == {t \in rows[m] : start <= t /\ t < ClosedEnd(end)}
      broken == {t \in scope : t # Max(scope) /\ t + 1 \notin scope}
  IN  [first |-> IF scope = {} THEN NoTime ELSE Min(scope),
       last |-> IF scope = {} THEN NoTime ELSE Max(scope),
       total |-> Cardinality(scope),
       gapAfter |-> IF broken = {} THEN NoTime ELSE Min(broken),
       unclosed |-> Cardinality({t \in scope : t >= now})]

NothingExpected == [covered |-> FALSE, expected |-> 0, missing |-> NoTime]

(* Mutant: a range that ends early is not noticed.                         *)
CoverageWithoutEnd(m, start, end) ==
  LET snapshot == RangeSnapshot(m, start, end)
      from == IF start # NoTime THEN start ELSE snapshot.first
      missing ==
        {t \in {from} : snapshot.first = NoTime \/ snapshot.first > from} \cup
        {t + 1 : t \in {snapshot.gapAfter} \ {NoTime}}
  IN  IF from = NoTime \/ from >= ClosedEnd(end) THEN NothingExpected
      ELSE [covered |-> missing = {},
            expected |-> ClosedEnd(end) - from,
            missing |-> IF missing = {} THEN NoTime ELSE Min(missing)]

(* build_backtest_range_coverage, on those aggregates; missing is the first*)
(* of missing_open_times, the only one the code acts on.                   *)
RangeCoverage(m, start, end) ==
  LET snapshot == RangeSnapshot(m, start, end)
      from == IF start # NoTime THEN start ELSE snapshot.first
      last == ClosedEnd(end) - 1
      missing ==
        {t \in {from} : snapshot.first = NoTime \/ snapshot.first > from} \cup
        {t + 1 : t \in {snapshot.gapAfter} \ {NoTime}} \cup
        {t + 1 : t \in {t \in {snapshot.last} : t # NoTime /\ t < last}}
  IN  IF from = NoTime \/ from >= ClosedEnd(end) THEN NothingExpected
      ELSE [covered |-> /\ snapshot.first = from
                        /\ snapshot.last = last
                        /\ snapshot.total = ClosedEnd(end) - from
                        /\ snapshot.gapAfter = NoTime
                        /\ snapshot.unclosed = 0,
            expected |-> ClosedEnd(end) - from,
            missing |-> IF missing = {} THEN NoTime ELSE Min(missing)]

(* evaluate_backtest_range_coverage, on the rows themselves.               *)
CoverageOfRows(m, start, end) ==
  LET from == IF start # NoTime THEN start
              ELSE IF rows[m] = {} THEN NoTime ELSE Min(rows[m])
      scope == {t \in rows[m] : from <= t /\ t < ClosedEnd(end)}
      missing == (from .. ClosedEnd(end) - 1) \ scope
  IN  IF from = NoTime \/ from >= ClosedEnd(end) THEN NothingExpected
      ELSE [covered |-> missing = {} /\ \A t \in scope : t < now,
            expected |-> ClosedEnd(end) - from,
            missing |-> IF missing = {} THEN NoTime ELSE Min(missing)]
=============================================================================
