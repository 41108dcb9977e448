SPECIFICATION FairSpec
CONSTANTS
  Hosts = {h1, h2}
  Names = {n1}
  Versions = {v1}
  Requests = {r1, r2}
  SeedAtStartup = TRUE
  NoTorrent = NoTorrent
  Torn = Torn
  Absent = Absent
  NoRequest = NoRequest
INVARIANTS TypeOK PublishedUrlResolves WaiterIsHeld RegisteredIsShared AnsweredIsServed
PROPERTIES RequestEnds
