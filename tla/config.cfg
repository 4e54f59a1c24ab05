SPECIFICATION ConfigSpec
CONSTANTS
  UNSET = UNSET
  INVALID = INVALID
  Settings <- MCSettings
  Lower <- MCLower
  Upper <- MCUpper
  Default <- MCDefault
  Values <- MCValues
  commitMargin = 2
  Horizon = 6
INVARIANTS
  LeaseCoversAttempt
  LongerWriteTimeoutSuffices
CHECK_DEADLOCK FALSE
