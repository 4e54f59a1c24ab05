CONSTANTS
  p1 = p1
  p2 = p2
  k1 = k1
  r1 = r1
  r2 = r2
  procA = procA
  procB = procB
  w1 = w1
  w2 = w2
  q1 = q1
  q2 = q2
  NULL = NULL
  Pairs = {p1}
  Keys = {}
  Providers = {frankfurter}
  Rates = {r1, r2}
  Dates <- MCDates1
  Updates <- MCUpdates1
  RetryDelays <- MCRetryDelays
  MaxActive = 1
  MaxAttempts = 2
  LeaseDuration = 1
  RecoveryBatch = 2
  ClockBound = 0
  Procs = {procA, procB}
  Workers = {w1, w2}
  Host <- HostTwo
  Requests = {q1}
  MaxFaults = 1
SPECIFICATION FairSpec
PROPERTIES
  EveryUpdateFinishes
  LeaseProtectsOwner
  StoreSpec
INVARIANTS
  AttemptHasOneOwner
  OutcomeJustified
