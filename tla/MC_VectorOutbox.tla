-------------------------- MODULE MC_VectorOutbox --------------------------
(* Instances of VectorOutbox.  Rescan: two documents of one revision, which *)
(* one result wants both and another one in part and with another text.     *)
(* Tail: a document of the second turn with two texts; the turn is replaced,*)
(* and rolled back alone or with the first one.                             *)
EXTENDS VectorOutbox, TLC

CONSTANTS r1, r2, r3, d1, d2, resA, resB

Rescan_TurnOf     == (r1 :> 1)
Rescan_RevisionOf == (d1 :> r1) @@ (d2 :> r1)
Rescan_ResultDocs == (resA :> {d1, d2}) @@ (resB :> {d1})

Tail_TurnOf     == (r1 :> 1) @@ (r2 :> 2) @@ (r3 :> 2)
Tail_RevisionOf == (d1 :> r2)
Tail_ResultDocs == (resA :> {d1}) @@ (resB :> {d1})
============================================================================
