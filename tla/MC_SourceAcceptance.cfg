SPECIFICATION Spec
CONSTANTS
  Requests = {q1, q2, q3}
  NoRequest = none
  Revisions = {1, 3}
  RollbackTimes = {0, 2}
  Outages <- OneOrAll
  Budgets <- Disturbed
SYMMETRY AnyRequest
INVARIANTS
  TypeOK
  ActiveSourceMatchesRaw
  LiveContextOnRecord
PROPERTIES
  DiscardedStaysDiscarded
CHECK_DEADLOCK FALSE
