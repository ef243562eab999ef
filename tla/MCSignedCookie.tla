--------------------------- MODULE MCSignedCookie ----------------------------
EXTENDS SignedCookie, TLC

Symmetry == Permutations(Servers) \cup Permutations(Keys)
=============================================================================
