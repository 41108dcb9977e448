------------------------ MODULE MCBitTorrentManager ------------------------
EXTENDS BitTorrentManager, TLC
Symmetry == Permutations(Hosts) \cup Permutations(Versions) \cup Permutations(Requests)
============================================================================
