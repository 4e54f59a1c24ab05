CONSTANTS
  worker = worker
  recovery = recovery
  q1 = q1
  q2 = q2
  Goroutines = {worker, recovery}
  Requests = {q1, q2}
SPECIFICATION FairSpec
INVARIANT ShutdownInOrder
PROPERTY SignalEndsProcess
