--------------------------- MODULE MCOnDemandRead ---------------------------
EXTENDS OnDemandRead
CONSTANTS p1, p2
MCReadLists == {<<p2, p1>>}
=============================================================================
