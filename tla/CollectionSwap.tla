---------------------------- MODULE CollectionSwap ----------------------------
(***************************************************************************)
(* What index recovery promises about the name of the collection,          *)
(* whatever crashes and failed calls it meets: a holder of the name is     *)
(* taken away only after its successor has been decided durably, only      *)
(* that successor takes its place, and a collection that has been retired  *)
(* never serves again.  The decision is kept until the successor serves.   *)
(***************************************************************************)
CONSTANTS Collections, NoCollection

VARIABLES
  holder,     \* the collection that bears the name, or NoCollection
  successor,  \* the collection decided to take its place, or NoCollection
  retired     \* the collections that have given up the name

vars == <<holder, successor, retired>>

Init ==
  /\ holder = NoCollection
  /\ successor = NoCollection
  /\ retired = {}

\* The first use of the name.
Create ==
  /\ holder = NoCollection /\ successor = NoCollection
  /\ holder' \in Collections \ retired
  /\ UNCHANGED <<successor, retired>>

Decide ==
  /\ successor = NoCollection /\ holder # NoCollection
  /\ successor' \in Collections \ (retired \cup {holder})
  /\ UNCHANGED <<holder, retired>>

Retire ==
  /\ successor # NoCollection /\ holder \notin {NoCollection, successor}
  /\ holder' = NoCollection
  /\ retired' = retired \cup {holder}
  /\ UNCHANGED successor

Promote ==
  /\ successor # NoCollection /\ holder = NoCollection
  /\ holder' = successor
  /\ UNCHANGED <<successor, retired>>

Settle ==
  /\ successor # NoCollection /\ holder = successor
  /\ successor' = NoCollection
  /\ UNCHANGED <<holder, retired>>

Next == Create \/ Decide \/ Retire \/ Promote \/ Settle

Spec == Init /\ [][Next]_vars

===============================================================================
