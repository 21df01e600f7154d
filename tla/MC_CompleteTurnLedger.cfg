SPECIFICATION MCSpec
CONSTANTS
  r1 = r1  r2 = r2  r3 = r3  k1 = k1  k2 = k2  f1 = f1  f2 = f2
  Requests = {r1, r2, r3}
  Keys = {k1, k2}
  Fingerprints = {f1, f2}
  MaxEntries = 1
  None = None
CHECK_DEADLOCK FALSE
INVARIANTS TypeOK SingleOwnerPerKey RerunNeedsRetryAnswer SettledOutcomeKept RetryAdviceSound
PROPERTIES EveryRequestAnswered PanicLeavesUnknown
