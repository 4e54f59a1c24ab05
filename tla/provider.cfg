CONSTANTS
  NULL = NULL
  Statuses <- MCStatuses
  HeaderValues <- MCHeaderValues
  MaxUint64 = 100
  MaxRetryAfter = 60
SPECIFICATION FairSpec
INVARIANTS
  PermanentOnlyByAnswer
  QuoteOnlyFromWholeAnswer
  HintIsTheProviders
PROPERTY AttemptEnds
CHECK_DEADLOCK FALSE
