------------------------- MODULE MCRemediationChain -------------------------
(* A small instance of RemediationChain for TLC. *)
EXTENDS RemediationChain, TLC

IdsAreSymmetric == Permutations(IncidentIds) \cup Permutations(ExecutionIds)
=============================================================================
