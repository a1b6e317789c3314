---------------------------- MODULE MCDiagnostics ----------------------------
(* Small instances of Diagnostics: incidents that follow each other on one   *)
(* pane.                                                                     *)
EXTENDS Diagnostics, TLC

CONSTANTS pane, i1, i2

MCComponents == {pane}
MCComponent == [i \in Incidents |-> pane]

\* The incident i1 is opened first, and only i1 is observed again while active.
MCNext == /\ Next
          /\ m'.pc = "append" => m'.cur = i1
          /\ \A i \in Incidents \ {i1} : observed'[i] > 0 => observed'[i1] > 0
MCSpec == Init /\ [][MCNext]_vars /\ WF_vars(WorkerStep) /\ WF_vars(MainStep)
=============================================================================
