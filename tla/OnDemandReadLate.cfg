SPECIFICATION FairSpec
CONSTANTS
  p1 = p1
  p2 = p2
  Readers = {r1}
  Pieces = {p1, p2}
  ReadLists <- MCReadLists
  NoBytes = NoBytes
PROPERTY LateMeansMissing
