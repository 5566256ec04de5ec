SPECIFICATION Spec
CONSTANTS
  Symbols = {btc, eth}
  Workers = {w1, w2}
  Commands = {"execute", "cancel", "enable", "disable", "stop"}
  Actions = {"SHORT", "COVER"}
  Notionals = {1}
  MaxOrdersPerSession = 2
  MaxNotionalPerOrder = 1
  MaxPositionsPerSymbol = 1
  MinOrderInterval = 0
  NoSymbol = NoSymbol
  NoWorker = NoWorker
  NoOrder = NoOrder
  UpdatedSymbols = {}
  MaxGeneration = 3
  MaxLedger = 2
  MaxTime = 0
SYMMETRY Symmetry
INVARIANTS OneLateOrderPerStop StopReportTruthful
PROPERTIES NoEnableAcrossStop
CHECK_DEADLOCK FALSE
