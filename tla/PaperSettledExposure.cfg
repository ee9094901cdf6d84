SPECIFICATION Spec
CONSTANTS
  Ticker <- MCTicker
  Event <- MCEvent
  EventOf <- MCEventOf
  Proc = {"daemon"}
  MaxTicks = 3
  FlatSize = 2
  MaxPerMarket = 3
  MaxPerEvent = 3
  MaxTotal = 4
  MaxDailyLossUsd = 1
INVARIANT LoadedPositionsAreOpen
