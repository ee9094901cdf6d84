SPECIFICATION Spec
CONSTANTS
  Ticker <- MCTwoTicker
  Event <- MCEvent
  EventOf <- MCTwoEventOf
  Proc = {"daemon", "cli"}
  MaxTicks = 3
  FlatSize = 2
  MaxPerMarket = 2
  MaxPerEvent = 2
  MaxTotal = 3
  MaxDailyLossUsd = 1
INVARIANT OvershootBounded
