SPECIFICATION Spec
CONSTANTS
  Side = {"yes", "no"}
  Ticker <- MCTicker
  Event <- MCEvent
  EventOf <- MCEventOf
  Costs = {40}
  PricedBySide = {TRUE, FALSE}
  PostAttempts = 2
  PollBudget = 2
  MaxTicks = 2
  FlatSize = 2
  MaxPerMarket = 3
  MaxPerEvent = 3
  MaxTotal = 4
  MaxDailyLossUsd = 1
INVARIANTS
  TypeOK
  IntentFirst
  StatusTells
  CapsUpToUnrecorded
  ReordersOnlyShort
  DriftHasCause
PROPERTIES
  KillDrains
