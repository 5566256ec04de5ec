------------------------------ MODULE Backtests ------------------------------
(***************************************************************************)
(* A backtest as ExecutionCoordinator dispatches it: by the static handler,*)
(* which counts the rows, replays an in-sample part, an out-of-sample part *)
(* and then all of them, each with a new exchange and engine; or by the    *)
(* handler that replays ticks.                                             *)
(*                                                                         *)
(* Meanwhile other screens write the same table.  A stream of rows is one  *)
(* query, which sees the table as it was when the stream was opened; only  *)
(* writes between the queries of a run matter.                             *)
(***************************************************************************)
EXTENDS StaticBacktest

CONSTANTS
  TickPrices, NoTick, NoBar, MaxTickTime,   \* of TickBacktest
  Tables,          \* the rows a market may have at first, numbered in time
  MaxRow           \* bound: the newest row

ASSUME RowsAssumption ==
  /\ MaxRow \in 1 .. MaxBars
  /\ Tables \subseteq SUBSET (1 .. MaxRow)

VARIABLES
  run,             \* where the handler is
  rows,            \* the market's rows in the database
  count,           \* total_count
  read,            \* the rows each phase has streamed
  disturbed,       \* history: a row before the newest was written or deleted
  \* the realtime engine with its own exchange:
  tickStep, tick, forming, committed, evaluated, tickCash, tickPositions, tickTrades

Realtime == INSTANCE TickBacktest
  WITH step <- tickStep, cash <- tickCash, positions <- tickPositions, trades <- tickTrades

ASSUME TickAssumption == Realtime!TicksFitBars

staticVars == <<step, bar, candle, pending, brokerVars>>

tickVars == <<tickStep, tick, forming, committed, evaluated,
              tickCash, tickPositions, tickTrades>>

runVars == <<run, rows, count, read, disturbed>>

Phases == {"in_sample", "out_of_sample", "full"}

(* split_count_for_out_of_sample: seven tenths, rounded as round() does,   *)
(* a half to the even side.                                                *)
InSampleCount ==
  LET floor == (7 * count) \div 10
      rest  == (7 * count) % 10
  IN  IF rest > 5 \/ (rest = 5 /\ floor % 2 = 1) THEN floor + 1 ELSE floor

(* Mutant: the full run is not limited to the rows that were counted.      *)
UnlimitedSlice(phase) ==
  CASE phase = "in_sample"     -> [offset |-> 0, limit |-> InSampleCount]
    [] phase = "out_of_sample" -> [offset |-> InSampleCount, limit |-> count - InSampleCount]
    [] phase = "full"          -> [offset |-> 0, limit |-> MaxRow]

(* The offset and limit of each phase's rows.                              *)
Slice(phase) ==
  CASE phase = "in_sample"     -> [offset |-> 0, limit |-> InSampleCount]
    [] phase = "out_of_sample" -> [offset |-> InSampleCount, limit |-> count - InSampleCount]
    [] phase = "full"          -> [offset |-> 0, limit |-> count]

(* stream_klines: rows in the order of time.                               *)
Streamed(slice) ==
  {r \in rows :
     LET before == Cardinality({s \in rows : s < r})
     IN  slice.offset <= before /\ before < slice.offset + slice.limit}

RunsInit ==
  /\ Init
  /\ Realtime!Init
  /\ run = "start"
  /\ rows \in Tables
  /\ count = 0
  /\ read = [phase \in Phases |-> {}]
  /\ disturbed = FALSE

--------------------------------------------------------------------------
(* _dispatch_run picks the engine; both handlers count the rows first, and *)
(* without any the run ends with BacktestFailedEvent.                      *)
CountRows ==
  /\ run = "start"
  /\ count' = Cardinality(rows)
  /\ IF rows = {} THEN run' = "no_data" ELSE run' \in {"counted", "realtime"}
  /\ UNCHANGED <<rows, read, disturbed, staticVars, tickVars>>

(* _simulate begins with a fresh engine and exchange.                      *)
BeginPhase(phase) ==
  /\ run' = phase
  /\ read' = [read EXCEPT ![phase] = Streamed(Slice(phase))]
  /\ step' = "next_bar" /\ bar' = 0 /\ candle' = NoCandle /\ pending' = NoSignal
  /\ cash' = InitialBalance /\ positions' = {} /\ trades' = {}
  /\ UNCHANGED <<config, rows, count, disturbed, tickVars>>

HasOutOfSample == 0 < InSampleCount /\ InSampleCount < count

BeginFirstPhase ==
  /\ run = "counted"
  /\ BeginPhase(IF HasOutOfSample THEN "in_sample" ELSE "full")

BeginNextPhase ==
  /\ step = "finished"
  /\ \/ run = "in_sample" /\ BeginPhase("out_of_sample")
     \/ run = "out_of_sample" /\ BeginPhase("full")

Replay ==
  /\ run \in Phases
  /\ \/ bar < Cardinality(read[run]) /\ (NextBar \/ Cancel)
     \/ CheckStops \/ Decide
     \/ bar = Cardinality(read[run]) /\ (Finish \/ EmptyStream)
  /\ UNCHANGED <<runVars, tickVars>>

ReplayTicks ==
  /\ run = "realtime"
  /\ Realtime!Next
  /\ UNCHANGED <<runVars, staticVars>>

BetweenQueries ==
  run = "counted" \/ (run \in {"in_sample", "out_of_sample"} /\ step = "finished")

(* A synchronisation appends to the table.                                 *)
AppendRow(r) ==
  /\ BetweenQueries /\ \A s \in rows : s < r
  /\ rows' = rows \cup {r}
  /\ UNCHANGED <<run, count, read, disturbed, staticVars, tickVars>>

(* A gap is repaired; a market is pruned or cleared.  Bound: once in a run.*)
RewriteRows ==
  /\ BetweenQueries /\ ~disturbed
  /\ \/ \E r \in 1 .. MaxRow : (\E s \in rows : r < s) /\ rows' = rows \cup {r}
     \/ \E r \in rows : rows' = rows \ {r}
     \/ rows' = {}
  /\ disturbed' = TRUE
  /\ UNCHANGED <<run, count, read, staticVars, tickVars>>

RunsNext ==
  \/ CountRows \/ BeginFirstPhase \/ BeginNextPhase \/ Replay
  \/ ReplayTicks
  \/ \E r \in 1 .. MaxRow : AppendRow(r)
  \/ RewriteRows

RunsSpec == RunsInit /\ [][RunsNext]_<<runVars, staticVars, tickVars>>

--------------------------------------------------------------------------
RunsTypeOK ==
  /\ TypeOK
  /\ Realtime!TypeOK
  /\ run \in {"start", "no_data", "counted", "realtime"} \cup Phases
  /\ rows \subseteq 1 .. MaxRow
  /\ count \in 0 .. MaxRow
  /\ read \in [Phases -> SUBSET (1 .. MaxRow)]
  /\ disturbed \in BOOLEAN

(* The accounts of both engines balance.                                   *)
AccountsBalance == MoneyConserved /\ Realtime!MoneyConserved

(* The bars that validate a result are not those it was found on: the two  *)
(* samples share no row, and together they are the rows of the full run,   *)
(* also when a synchronisation appends rows in the middle of the run (the  *)
(* offsets and limits resolved once in execute, for queries made later).   *)
SamplesMakeUpTheRun ==
  (run = "full" /\ ~disturbed) =>
    /\ Cardinality(read["full"]) = count
    /\ HasOutOfSample =>
         /\ read["in_sample"] \cup read["out_of_sample"] = read["full"]
         /\ \A r \in read["in_sample"], s \in read["out_of_sample"] : r < s

(* The bars and evaluations of a realtime run (see TickBacktest).          *)
TicksInTheirBars == Realtime!TicksInTheirBars

EvaluatedOnce == Realtime!EvaluatedOnce
=============================================================================
