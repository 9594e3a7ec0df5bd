----------------------------- MODULE MCPlanLock -----------------------------
(* Values for PlanLock's constants. *)
EXTENDS PlanLock, TLC

CONSTANTS r1, r2, a1, w1, w2

ProcessSymmetry == Permutations({w1, w2})
=============================================================================
