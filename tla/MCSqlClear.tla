----------------------------- MODULE MCSqlClear -----------------------------
EXTENDS SqlClear, TLC

Symmetry == Permutations(Handles) \cup Permutations(Families) \cup Permutations(Ids)
=============================================================================
