---------------------------- MODULE MCRedisStore ----------------------------
EXTENDS RedisStore, TLC

Symmetry == Permutations(Handles) \cup Permutations(Families) \cup Permutations(Ids)
=============================================================================
