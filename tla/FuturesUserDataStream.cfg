SPECIFICATION FairSpec
CONSTANTS
  Symbols = {btc, eth}
  MaxTasks = 3
INVARIANTS TypeOK
PROPERTIES ImplementsAccountFeed SupersededEnds
CHECK_DEADLOCK FALSE
