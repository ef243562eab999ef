--------------------------- MODULE MCSaveTracking ---------------------------
EXTENDS SaveTracking, TLC

Symmetry == Permutations(Saves) \cup Permutations(Vals)
=============================================================================
