SPECIFICATION Spec
CONSTANTS
  Hosts = {h1, h2}
  Names = {n1}
  Versions = {v1, v2}
  Requests = {r1}
  SeedAtStartup = TRUE
  NoTorrent = NoTorrent
  Torn = Torn
  Absent = Absent
  NoRequest = NoRequest
SYMMETRY Symmetry
INVARIANT RegisteredIsWhole
PROPERTY RegisteredOnCompletion
