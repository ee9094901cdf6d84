SPECIFICATION FairSpec
CONSTANTS
  Ticker <- MCTicker
  Event <- MCEvent
  EventOf <- MCEventOf
  Price <- MCPrice
  Proc = {"daemon", "settle"}
  Trader = {"daemon"}
  Side = {"no"}
  MaxFills = 2
  FlatSize = 2
  MaxPerMarket = 3
  MaxPerEvent = 3
  MaxTotal = 4
  MaxDailyLossUsd = 1
INVARIANTS
  TypeOK
  ResultsAreFinal
  NoFillTwice
PROPERTIES
  SettlesEventually
