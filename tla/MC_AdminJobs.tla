----------------------------- MODULE MC_AdminJobs -----------------------------
(* Symmetry is left out: the runs check liveness.                           *)
EXTENDS AdminJobs
================================================================================
