------------------------- MODULE MCMeasurementSync -------------------------
EXTENDS MeasurementSync, TLC

Symmetry == Permutations(Sheets) \cup Permutations(Slots)
=============================================================================
