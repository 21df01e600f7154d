--------------------------- MODULE MC_SourceAcceptance ---------------------------
(* Small instances of SourceAcceptance. *)
EXTENDS SourceAcceptance, TLC

Bounds(submit, crash, rollback, store) ==
    [submit |-> submit, crash |-> crash, rollback |-> rollback, store |-> store]

\* Two requests with one of every disturbance, or three with a restart or a
\* failing call.
Disturbed == {Bounds(2, 1, 1, 1), Bounds(3, 1, 0, 0), Bounds(3, 0, 0, 1)}

\* No process ends, nothing fails and nothing is rolled back.
Undisturbed == {Bounds(3, 0, 0, 0)}

\* One call fails, or all reads of an acceptance, or of a load, do.
OneOrAll == {{c} : c \in Reads \cup Saves} \cup {Reads, LoadReads}

NoOutages == {}

\* Requests differ only by name.
AnyRequest == Permutations(Requests)
=============================================================================
