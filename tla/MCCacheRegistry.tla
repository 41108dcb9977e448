-------------------------- MODULE MCCacheRegistry --------------------------
EXTENDS CacheRegistry, TLC
Symmetry == Permutations(Keys) \cup Permutations(Threads)
============================================================================
