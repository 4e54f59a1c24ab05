CONSTANTS
  p1 = p1
  k1 = k1
  r1 = r1
  a1 = a1
  a2 = a2
  a3 = a3
  w1 = w1
  w2 = w2
  n1 = n1
  n2 = n2
  NULL = NULL
  Pairs <- OnePair
  Keys <- OneKey
  Providers = {frankfurter}
  Rates <- OneRate
  Dates <- OneDay
  Updates <- MCUpdates
  RetryDelays <- OneTick
  Admissions <- ThreeAdmissions
  Workers <- OneWorker
  Procs <- TwoProcs
  Host <- Apart
  MaxActive = 1
  MaxAttempts = 1
  LeaseDuration = 1
  RecoveryBatch = 1
  ClockBound = 0
  PoolSize = 2
  MaxGiveUps = 0
SPECIFICATION WorkerFairSpec
INVARIANTS
  DecisionsStand
  UniqueNeverRefuses
PROPERTIES
  ImplementsQuoteStore
  CompletionsEnd
CHECK_DEADLOCK FALSE
