--------------------------- MODULE MCServerStore ----------------------------
EXTENDS ServerStore, TLC

Symmetry == Permutations(Handles) \cup Permutations(Families) \cup Permutations(Ids)
=============================================================================
