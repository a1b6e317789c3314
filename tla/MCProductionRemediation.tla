---------------------- MODULE MCProductionRemediation ----------------------
(***************************************************************************)
(* Small instances of ProductionRemediation.                               *)
(***************************************************************************)
EXTENDS ProductionRemediation, TLC

InterchangeableNames == Permutations(Processes) \cup Permutations(Requests)
=============================================================================
