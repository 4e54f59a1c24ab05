CONSTANTS
  p1 = p1
  p2 = p2
  k1 = k1
  r1 = r1
  NULL = NULL
  Pairs <- MCPairs
  Keys <- MCKeys
  Providers = {frankfurter}
  Rates <- MCRates
  Dates <- MCDates
  Updates <- MCUpdates
  RetryDelays <- MCRetryDelays
  MaxActive = 2
  MaxAttempts = 2
  LeaseDuration = 1
  RecoveryBatch = 2
  ClockBound = 1
SPECIFICATION StoreSpec
SYMMETRY Symmetry
INVARIANTS
  StoreTypeOK
  StateShape
  LatestIsNewest
  ActiveWithinLimit
  AttemptsBounded
PROPERTY RowsEvolve
CHECK_DEADLOCK FALSE
