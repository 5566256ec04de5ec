SPECIFICATION RunsSpec
CONSTANTS
  Configs <- MCConfigs
  Prices <- MCPrices
  InitialBalance = 100
  MaxBars = 4
  TickPrices <- MCTickPrices
  MaxTickTime = 4
  Tables <- MCTables
  MaxRow = 4
  NoTick = NoTick
  NoBar = NoBar
  NoLevel = NoLevel
  NoCandle = NoCandle
  NoSignal = NoSignal
CHECK_DEADLOCK FALSE
INVARIANTS RunsTypeOK BookWithinLimits AccountsBalance StopsHonoured FilledInTheNextBar
  SamplesMakeUpTheRun TicksInTheirBars 
PROPERTIES EntriesAreCovered RiskPerEntryHonoured
