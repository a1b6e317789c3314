------------------------- MODULE AppendOnlyHistory -------------------------
(***************************************************************************)
(* What a durable history promises: a reader sees it grow, never change,   *)
(* and what was once acknowledged to a writer stays in it, also after a    *)
(* power loss.  A history is a set of entries; where their order matters,  *)
(* an entry has its position in it.                                        *)
(***************************************************************************)

VARIABLES visible,       \* the history a reader finds
          acknowledged   \* what of it was acknowledged to some writer

Init == visible = {} /\ acknowledged = {}

Grow ==
    /\ visible \subseteq visible'
    /\ UNCHANGED acknowledged

Acknowledge ==
    /\ acknowledged \subseteq acknowledged'
    /\ acknowledged' \subseteq visible
    /\ UNCHANGED visible

\* A power loss takes back what nobody was promised.
Lose ==
    /\ visible' \subseteq visible
    /\ acknowledged \subseteq visible'
    /\ UNCHANGED acknowledged

Spec == Init /\ [][Grow \/ Acknowledge \/ Lose]_<<visible, acknowledged>>
=============================================================================
