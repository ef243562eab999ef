---------------------------- MODULE MCSharedData -----------------------------
EXTENDS SharedData, TLC

Symmetry == Permutations(Handles) \cup Permutations(Cells)
=============================================================================
