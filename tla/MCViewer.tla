------------------------------ MODULE MCViewer ------------------------------
EXTENDS Viewer, TLC

CONSTANTS s1, s2, s3, p1, p2, lin, area, cnt
TwoPlans == s1 :> p1 @@ s2 :> p1 @@ s3 :> p2
Types    == lin :> "linear" @@ area :> "area" @@ cnt :> "count"
Symmetry == Permutations(ToolSheets) \cup Permutations(Spots)
=============================================================================
