SPECIFICATION Spec
CONSTANTS
  Symbols = {btc}
  Workers = {w1, w2}
  Commands = {"execute", "enable", "disable"}
  Actions = {"BUY"}
  Notionals = {1}
  MaxOrdersPerSession = 2
  MaxNotionalPerOrder = 1
  MaxPositionsPerSymbol = 1
  MinOrderInterval = 1
  NoSymbol = NoSymbol
  NoWorker = NoWorker
  NoOrder = NoOrder
  UpdatedSymbols = {btc}
  MaxGeneration = 3
  MaxLedger = 3
  MaxTime = 1
SYMMETRY Symmetry
INVARIANTS TypeOK SessionOrderCap OneOrderPerFlatReading OrdersSpacedOut
CHECK_DEADLOCK FALSE
