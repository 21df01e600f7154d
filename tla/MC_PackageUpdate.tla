--------------------------- MODULE MC_PackageUpdate ---------------------------
(* Three versions: the second adds a file and drops another, the third      *)
(* brings the dropped one back.                                            *)
EXTENDS PackageUpdate

CONSTANTS manifest, updater, server, old, new

MC_Files == {manifest, updater, server, old, new}
MC_Payload == <<{manifest, updater, server, old},
                {manifest, updater, server, new},
                {manifest, updater, server, old}>>
MC_Listed == <<updater, server, old, new>>
MC_InstallOrder ==
    [p \in (1..3) \X (1..3) |->
        SelectSeq(MC_Listed, LAMBDA f : f \in MC_Payload[p[2]])
        \o <<manifest>>
        \o SelectSeq(MC_Listed,
                     LAMBDA f : f \in MC_Payload[p[1]] \ MC_Payload[p[2]])]
MC_Required == {server}
MC_Budget == [crash |-> 2, fault |-> 2, stage |-> 2]
================================================================================
