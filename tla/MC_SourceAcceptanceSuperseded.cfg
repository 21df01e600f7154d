SPECIFICATION Spec
CONSTANTS
  Requests = {q1, q2, q3}
  NoRequest = none
  Revisions = {1, 3}
  RollbackTimes = {0}
  Outages <- NoOutages
  Budgets <- Undisturbed
SYMMETRY AnyRequest
PROPERTIES
  SupersededStaysRejected
CHECK_DEADLOCK FALSE
