SPECIFICATION Spec
CONSTANTS
  None = None
  seeder = seeder  reader = reader
  t1 = t1  t2 = t2
  Hosts = {seeder, reader}
  Threads = {t1, t2}
  HostOf <- MCHostOf
  Seeders = {seeder}
  Pieces = {p0, p1}
  Item = item
INVARIANT PieceTorrentIsOfPiece
