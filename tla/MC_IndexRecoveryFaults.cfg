SPECIFICATION Spec
CONSTANTS
  c1 = c1
  c2 = c2
  c3 = c3
  d1 = d1
  d2 = d2
  s1 = s1
  Collections <- ThreeCollections
  NoCollection = NoCollection
  Docs = {d1, d2}
  Settings = {s1}
  NoSettings = NoSettings
  Budget <- WithReset
SYMMETRY CollectionSymmetry
INVARIANTS TypeOK NothingLost WorkersWaitForIndex
PROPERTIES OnlyCompletePromoted
CHECK_DEADLOCK FALSE
