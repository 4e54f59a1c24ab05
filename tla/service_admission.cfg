CONSTANTS
  p1 = p1
  p2 = p2
  k1 = k1
  r1 = r1
  r2 = r2
  procA = procA
  procB = procB
  w1 = w1
  w2 = w2
  q1 = q1
  q2 = q2
  NULL = NULL
  Pairs = {p1, p2}
  Keys = {k1}
  Providers = {frankfurter}
  Rates = {r1}
  Dates <- MCDates1
  Updates <- MCUpdates2
  RetryDelays <- MCRetryDelays
  MaxActive = 2
  MaxAttempts = 1
  LeaseDuration = 1
  RecoveryBatch = 2
  ClockBound = 0
  Procs = {procA}
  Workers = {w1}
  Host <- HostSolo
  Requests = {q1, q2}
  MaxFaults = 2
SPECIFICATION Spec
SYMMETRY SymmetryRequests
INVARIANTS
  NoLostWakeup
  IdempotentAnswers
