SPECIFICATION Spec
CONSTANTS
  Events <- MCEvents
  Listed <- MCListed
  EventOf <- MCEventOf
  DayOf <- MCDayOf
  Ladders <- MCLadders
  Listings <- MCListings
  Forecasts <- MCForecasts
  PointForecasts <- MCPointForecasts
  Kernels <- MCKernels
  Closes <- MCCloses
  EdgeMin = 1260
  DecayHours = 6
  MaxSize = 20
CHECK_DEADLOCK FALSE
INVARIANTS
  TypeOK
  PicksAreBest
  TradesAgreeWithNws
  EdgeSurvivesFees
  LadderAddsUp
  FarPicksHaveMembers
