SPECIFICATION Spec
CONSTANTS
  btc = btc
  eth = eth
  minute = minute
  hour = hour
  l1 = l1
  l2 = l2
  Owners <- MCOwners
  Symbols <- MCSymbols
  Intervals <- MCIntervals
  Loaders <- MCLoaders
  FirstMarkets <- MCFirstMarkets
  BoardMarkets <- MCFirstMarkets
  NoWorker = NoWorker
  MaxStreams = 3
  MaxClicks = 3
CHECK_DEADLOCK FALSE
INVARIANT StreamCarriesSubscriptions
INVARIANT SubscriptionsFollowScreens
PROPERTY LockedEnds
