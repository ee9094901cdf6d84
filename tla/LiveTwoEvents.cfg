SPECIFICATION FairSpec
CONSTANTS
  Ticker <- MCTwoTicker
  Event <- MCTwoEvent
  EventOf <- MCTwoEventOf
  Side = {"no"}
  Costs = {3, 4}
  PricedBySide = {TRUE}
  PostAttempts = 2
  PollBudget = 2
  MaxTicks = 1
  FlatSize = 2
  MaxPerMarket = 3
  MaxPerEvent = 3
  MaxTotal = 2
  MaxDailyLossUsd = 1
INVARIANTS
  FillsPriced
PROPERTIES
  ImplementsOrderLife
  DriftIsCaught
