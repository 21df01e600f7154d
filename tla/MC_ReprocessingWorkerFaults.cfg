CONSTANTS
  Jobs = {1}
  PerWake = 1
  MaxAttempts = 2
  RetryDelays = {1}
  LeaseTime = 1
  Budget <- Everything
SPECIFICATION Spec
INVARIANTS
  TypeOK
  CompletedIsAdmitted
PROPERTIES
  SettledStaysSettled
CHECK_DEADLOCK FALSE
