CONSTANTS
  Jobs = {1, 2}
  PerWake = 1
  MaxAttempts = 2
  RetryDelays = {1}
  LeaseTime = 1
  Budget <- OneCrash
SPECIFICATION FairSpec
INVARIANTS
  NoStrandedJob
PROPERTIES
  JobsSettle
CHECK_DEADLOCK FALSE
