------------------------- MODULE MC_ReprocessingWorker -------------------------
(* Small instances of ReprocessingWorker. *)
EXTENDS ReprocessingWorker

None == [d \in Disturbances |-> 0]

\* Every kind of disturbance, reopened jobs and overrun leases more than once.
Everything == [d \in Disturbances |-> IF d \in {"reopen", "overrun", "cancel"} THEN 2 ELSE 1]

OneCrash == [None EXCEPT !["crash"] = 1]

=============================================================================
