SPECIFICATION Spec
CONSTANTS
  r1 = r1  r2 = r2  r3 = r3  d1 = d1  d2 = d2  resA = resA  resB = resB
  Revisions = {r1}
  Docs = {d1, d2}
  Results = {resA, resB}
  TurnOf <- Rescan_TurnOf
  RevisionOf <- Rescan_RevisionOf
  ResultDocs <- Rescan_ResultDocs
  MaxAttempts = 1
  None = None
INVARIANTS TypeOK OneLeasePerDocument IndexConverges
CHECK_DEADLOCK FALSE
