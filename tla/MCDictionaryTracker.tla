------------------------ MODULE MCDictionaryTracker ------------------------
EXTENDS DictionaryTracker

CONSTANTS k1, k2, p1, p2

\* Each peer has the torrent of another publisher.
MCTrackerOf == [p \in {p1, p2} |-> IF p = p1 THEN k1 ELSE k2]
=============================================================================
