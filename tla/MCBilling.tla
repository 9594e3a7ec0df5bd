----------------------------- MODULE MCBilling -----------------------------
(* Values for Billing's constants. *)
EXTENDS Billing, TLC

CONSTANTS e1, e2, h1, h2, q1
=============================================================================
