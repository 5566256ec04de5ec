SPECIFICATION FairSpec
CONSTANTS
  Symbols = {btc}
  Workers = {w1, w2}
  Commands = {"execute", "enable", "stop"}
  Actions = {"BUY"}
  Notionals = {1}
  MaxOrdersPerSession = 2
  MaxNotionalPerOrder = 1
  MaxPositionsPerSymbol = 1
  MinOrderInterval = 0
  NoSymbol = NoSymbol
  NoWorker = NoWorker
  NoOrder = NoOrder
  UpdatedSymbols = {}
  MaxGeneration = 3
  MaxLedger = 1
  MaxTime = 0
PROPERTIES StopCompletes
CHECK_DEADLOCK FALSE
