SPECIFICATION Spec
CONSTANTS
  Side = {"yes", "no"}
  Ticker <- MCTicker
  Event <- MCEvent
  EventOf <- MCEventOf
  Price <- MCTwoPrices
  Proc = {"daemon", "settle"}
  Trader = {"daemon"}
  MaxFills = 2
  FlatSize = 2
  MaxPerMarket = 3
  MaxPerEvent = 3
  MaxTotal = 4
  MaxDailyLossUsd = 1
PROPERTIES
  LossHaltsTrading
