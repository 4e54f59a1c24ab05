CONSTANTS
  MaxInt = 15
  Second = 1
  Minute = 13
SPECIFICATION DelaySpec
INVARIANTS
  BackoffIsCappedGrowth
  DelayAsDocumented
CHECK_DEADLOCK FALSE
