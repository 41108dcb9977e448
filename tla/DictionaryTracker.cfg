SPECIFICATION FairSpec
CONSTANTS
  Absent = Absent  Torn = Torn  Other = Other  Current = Current
  k1 = k1  k2 = k2
  p1 = p1  p2 = p2
  Trackers = {k1, k2}
  Peers = {p1, p2}
  TrackerOf <- MCTrackerOf
  MaxCrashes = 1  MaxRewrites = 1
INVARIANTS TypeOK 
PROPERTIES PeersAreListed PeersMeet
