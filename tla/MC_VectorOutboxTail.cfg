SPECIFICATION Spec
CONSTANTS
  r1 = r1  r2 = r2  r3 = r3  d1 = d1  d2 = d2  resA = resA  resB = resB
  Revisions = {r1, r2, r3}
  Docs = {d1}
  Results = {resA, resB}
  TurnOf <- Tail_TurnOf
  RevisionOf <- Tail_RevisionOf
  ResultDocs <- Tail_ResultDocs
  MaxAttempts = 2
  None = None
INVARIANT NoOrphanVector
PROPERTY ImplementsMirror
CHECK_DEADLOCK FALSE
