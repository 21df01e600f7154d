SPECIFICATION FairSpec
CONSTANTS
  c1 = c1
  c2 = c2
  c3 = c3
  d1 = d1
  d2 = d2
  s1 = s1
  Collections <- ThreeCollections
  NoCollection = NoCollection
  Docs = {d1}
  Settings = {s1}
  NoSettings = NoSettings
  Budget <- Crashes
INVARIANTS JournalResumable
PROPERTIES ImplementsSwap WaitingEnds
CHECK_DEADLOCK FALSE
