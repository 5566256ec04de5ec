SPECIFICATION Spec
CONSTANTS
  symbol = symbol
  minute = minute
  hour = hour
  Symbols <- MCSymbols
  Intervals <- MCIntervals
  NoMarket = NoMarket
  NoConfig = NoConfig
  SyncWorkers <- MCSyncWorkers
  RepairWorkers <- MCRepairWorkers
  BacktestSync = "backtest"
  SingleSync = "single"
  BulkSync <- MCBulkSync
  Repairer = "repair"
  Toolbars <- MCToolbars
  PastStores <- MCPastStores
  MaxTime = 4
  PageSize = 2
  MaxRetries = 1
  DaysBack = 1
  Selections <- MCSelections
  MaxCommands = 3
CHECK_DEADLOCK FALSE
INVARIANT SyncTypeOK
INVARIANT OneFetchPerMarket
INVARIANT SyncCatchesUp
 
INVARIANT OneLiveWorker
PROPERTY NoSyncLoop
INVARIANT UnlockAlwaysComes
INVARIANT CoverageVerdictsAgree
PROPERTY FinalStaysFinal
PROPERTY SyncLeavesNoHole
PROPERTY NoResultAfterCancel
PROPERTY GuardReleased
