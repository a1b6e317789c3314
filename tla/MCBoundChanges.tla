---------------------------- MODULE MCBoundChanges ----------------------------
(* Small instances for TLC of the parts that change a host once and for one     *)
(* bound purpose: the inboxes of approved restarts, the isolated live           *)
(* validation, and the installers.  They share neither files nor memory, so a   *)
(* behaviour is one of one part, and the others stay as they were.              *)
EXTENDS ApprovedRestart, LiveValidation, HostBootstrap, TLC

VARIABLE part

\* The probe has one approval, which may be filed with the canary as well.
FiledApprovals == [canary |-> {"approval", "probeApproval"}, probe |-> {"probeApproval"}]

IdsAreSymmetric == Permutations(Ids)

PartsInit ==
    /\ part \in {"approved", "live", "bootstrap"}
    /\ RestartInit
    /\ LiveInit
    /\ BootInit

MoveApproved == part = "approved" /\ RestartNext /\ UNCHANGED <<liveVars, bootVars>>

MoveLive == part = "live" /\ LiveNext /\ UNCHANGED <<restartVars, bootVars>>

MoveBootstrap ==
    part = "bootstrap" /\ BootNext /\ UNCHANGED <<restartVars, liveVars>>

PartsNext == (MoveApproved \/ MoveLive \/ MoveBootstrap) /\ UNCHANGED part

PartsSpec == PartsInit /\ [][PartsNext]_<<part, restartVars, liveVars, bootVars>>
=============================================================================
