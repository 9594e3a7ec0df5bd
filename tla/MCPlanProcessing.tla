-------------------------- MODULE MCPlanProcessing --------------------------
(* Values for PlanProcessing's constants. *)
EXTENDS PlanProcessing, TLC

CONSTANTS p1, p2, w1, w2

WorkerSymmetry == Permutations({w1, w2})
=============================================================================
