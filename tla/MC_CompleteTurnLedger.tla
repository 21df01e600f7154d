----------------------- MODULE MC_CompleteTurnLedger -----------------------
(* Three requests and a ledger of one entry: two requests on a key meet     *)
(* while a third one, on the same key or another, waits, conflicts or       *)
(* forces an eviction.                                                      *)
EXTENDS CompleteTurnLedger

CONSTANTS r1, r2, r3, k1, k2, f1, f2

\* Which requests share a key and a body.  Liveness excludes TLC's symmetry sets,
\* so one start is kept of those that a renaming of requests, keys or bodies turns
\* into one another: all three share a key, and one may differ in its body, or two
\* with the same body share a key and the third forces an eviction.
MCInit ==
  /\ Init
  /\ key[r1] = k1 /\ key[r2] = k1
  /\ fingerprint[r1] = f1 /\ fingerprint[r3] = f1
  /\ key[r3] = k2 => fingerprint[r2] = f1

MCSpec == MCInit /\ [][Next]_vars /\ Fairness
=============================================================================
