--------------------------- MODULE MC_IndexRecovery ---------------------------
EXTENDS IndexRecovery, TLC

CONSTANTS c1, c2, c3, d1, d2, s1

ThreeCollections == {c1, c2, c3}

Bound(call, crash, damage, reset, sync) ==
  [call |-> call, crash |-> crash, damage |-> damage, reset |-> reset, sync |-> sync]

WithReset == Bound(2, 2, 1, 1, 1)
Crashes == Bound(2, 3, 2, 0, 1)

CollectionSymmetry == Permutations(Collections) \cup Permutations(Docs)

===============================================================================
