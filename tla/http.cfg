SPECIFICATION Spec
CONSTANTS
  p1 = p1
  p2 = p2
  k1 = k1
  r1 = r1
  NULL = NULL
  Pairs <- MCPairs
  Keys <- MCKeys
  Providers = {frankfurter}
  Rates <- MCRates
  Dates <- MCDates
  Updates <- MCUpdates
  RetryDelays <- MCRetryDelays
  MaxActive = 1
  MaxAttempts = 1
  LeaseDuration = 1
  RecoveryBatch = 2
  ClockBound = 0
  MaxDefects = 2
SYMMETRY Symmetry
INVARIANTS
  DocumentedAnswers
  EffectsMatchAnswer
  InternalErrorOnlyFromPanic
PROPERTY ReadsNeverGoBack
