------------------------------ MODULE MCStores -------------------------------
EXTENDS Stores, TLC

Symmetry == Permutations(Handles) \cup Permutations(Families) \cup Permutations(Ids)
=============================================================================
