------------------------------ MODULE MCAiRun ------------------------------
(* Instances of AiRun: every request names the same plan. *)
EXTENDS AiRun

CONSTANTS r1, r2, w1, w2, plan

OnePlan == [r \in Runs |-> plan]
=============================================================================
