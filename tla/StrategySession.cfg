SPECIFICATION Spec
CONSTANTS
  Workers = {w1, w2}
  Markets = {btc1m, eth1m}
  NoArming = NoArming
  NoMarket = NoMarket
  NoCandle = NoCandle
  MaxGeneration = 3
  MaxOrders = 3
SYMMETRY Symmetry
INVARIANTS TypeOK SignalStaysWithItsArming EngineSeesItsMarketOnly OneOrderAfterReplacement
