----------------------------- MODULE IndexMirror -----------------------------
(***************************************************************************)
(* What the vector outbox promises, whatever fails: the index is a mirror  *)
(* of the canonical rows that lags behind them but never contradicts them  *)
(* unnoticed.  A document is owed while its entry in the index may differ  *)
(* from its canonical row.  The two stores have no common transaction:     *)
(* every step changes the database or the index.                           *)
(***************************************************************************)
CONSTANTS Docs, Texts, None

VARIABLES
  row,    \* the text of each document in its canonical row, or None
  shown,  \* the text the index holds of it, or None
  owed    \* the documents whose entry in the index is still to be settled

vars == <<row, shown, owed>>

Init ==
  /\ row = [d \in Docs |-> None]
  /\ shown = [d \in Docs |-> None]
  /\ owed = {}

\* A transaction may change rows and what is owed, but it passes a document off as
\* mirrored only when the index holds what its row says afterwards.
Transact ==
  /\ row' \in [Docs -> Texts \cup {None}]
  /\ owed' \in SUBSET Docs
  /\ \A d \in Docs \ owed' : shown[d] = row'[d]
  /\ UNCHANGED shown

\* A call to the index touches owed documents only, and settles none of them.
Call ==
  /\ shown' \in [Docs -> Texts \cup {None}]
  /\ \A d \in Docs \ owed : shown'[d] = shown[d]
  /\ UNCHANGED <<row, owed>>

Next == Transact \/ Call

Spec == Init /\ [][Next]_vars

==============================================================================
