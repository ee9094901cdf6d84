SPECIFICATION DbSpec
CONSTANTS
  Job <- MCJob
  MaxFailures = 3
  Backfill <- MCBackfill
  KalshiPulls <- MCKalshiPulls
  WeatherPulls <- MCWeatherPulls
  NwsPulls <- MCNwsPulls
INVARIANTS
  DbTypeOK
  OneCallAtATime
  LockHasHolder
  SnapshotsWhole
PROPERTIES
  QuietLimitArms
  KillQuiesces
  LockIsFreed
  ScansGoOn
