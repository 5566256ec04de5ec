--------------------------- MODULE MCBacktests --------------------------------
EXTENDS Backtests

Settings(sizing, size, pyramiding, long, short, ticks, bars) ==
  [slippage |-> 0, commission |-> "percent", fee |-> 5, pyramiding |-> pyramiding,
   leverage |-> [side \in {"LONG", "SHORT"} |-> IF side = "LONG" THEN long ELSE short],
   stopPercent |-> 25, targetPercent |-> 25, sizing |-> sizing, size |-> size,
   tick |-> ticks, bar |-> bars]

(* A spot account that may add once to a position; a futures account sized *)
(* by its risk, with slippage; one without levels, sized in contracts; and *)
(* one that deploys a fixed amount of cash.                                *)
MCConfigs == {
  Settings("percent_of_equity", 60, 2, 1, 1, 1, 3),
  [Settings("risk_percent", 40, 1, 2, 3, 2, 3) EXCEPT !.slippage = 4,
     !.commission = "cash_per_order"],
  [Settings("fixed_contracts", 7, 2, 3, 2, 1, 2) EXCEPT !.commission = "cash_per_contract",
     !.fee = 1, !.stopPercent = NoLevel, !.targetPercent = NoLevel],
  [Settings("fixed_cash", 70, 2, 2, 1, 2, 2) EXCEPT !.targetPercent = NoLevel]}

MCPrices == {8, 12, 16}

MCTickPrices == {8, 12}

MCTables == {{}, {1}, {1,3}, {1,2,3,4}}
=============================================================================
