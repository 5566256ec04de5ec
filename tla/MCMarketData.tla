----------------------------- MODULE MCMarketData -----------------------------
EXTENDS MarketData

CONSTANTS symbol, minute, hour

MCSymbols == {symbol}
MCIntervals == {minute, hour}

MCSyncWorkers == {"backtest", "single", "bulk1", "bulk2"}
MCRepairWorkers == {"repair"}
MCBulkSync == [m \in {<<symbol, minute>>, <<symbol, hour>>} |->
                 IF m[2] = minute THEN "bulk1" ELSE "bulk2"]

MCSelections == {{<<symbol, minute>>}, {<<symbol, minute>>, <<symbol, hour>>}}

MCToolbars ==
  {[market |-> <<symbol, minute>>, from |-> 1],
   [market |-> <<symbol, hour>>, from |-> 1]}

Store(time, minutes, forming) ==
  [now |-> time,
   rows |-> [m \in {symbol} \X {minute, hour} |-> IF m[2] = minute THEN minutes ELSE {}],
   stale |-> [m \in {symbol} \X {minute, hour} |-> IF m[2] = minute THEN forming ELSE {}]]

(* A hole and a newest candle that was forming; a backlog.                 *)
MCPastStores == {Store(3, {1, 3}, {3}), Store(4, {1}, {})}
=============================================================================
