------------------------------ MODULE MCPanels ------------------------------
EXTENDS Panels, TLC

CONSTANTS s1
OnOneSheet == [m \in Measurements |-> s1]
Symmetry == Permutations(Users) \cup Permutations(Measurements)
=============================================================================
