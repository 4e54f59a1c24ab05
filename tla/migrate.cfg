SPECIFICATION FairSpec
CONSTANTS
  old = old
  new1 = new1
  new2 = new2
  NONE = NONE
  Replicas <- MCReplicas
  Last <- MCLast
  MaxCrashes = 3
INVARIANTS
  AppliedExactlyOnce
  AppliedInOrder
  ServesMigrated
PROPERTY
  AllStart
CHECK_DEADLOCK FALSE
