CONSTANTS
  p1 = p1
  k1 = k1
  r1 = r1
  a1 = a1
  a2 = a2
  a3 = a3
  w1 = w1
  w2 = w2
  n1 = n1
  n2 = n2
  NULL = NULL
  Pairs <- OnePair
  Keys <- NoKey
  Providers = {frankfurter}
  Rates <- OneRate
  Dates <- OneDay
  Updates <- MCUpdates
  RetryDelays <- OneTick
  Admissions <- TwoAdmissions
  Workers <- TwoWorkers
  Procs <- OneProc
  Host <- Together
  MaxActive = 2
  MaxAttempts = 2
  LeaseDuration = 1
  RecoveryBatch = 1
  ClockBound = 0
  PoolSize = 2
  MaxGiveUps = 1
SPECIFICATION WorkerFairSpec
PROPERTIES
  ImplementsQuoteStore
  CompletionsEnd
  AdmissionsEnd
CHECK_DEADLOCK FALSE
