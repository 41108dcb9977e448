-------------------------- MODULE MCFuseHandles ---------------------------
EXTENDS FuseHandles, TLC

CONSTANTS a1, a2, here, there

Symmetry == Permutations(Apps)
===========================================================================
