SPECIFICATION Spec
CONSTANTS
  Hosts = {h1}
  Names = {n1}
  Versions = {v1, v2}
  Requests = {r1}
  SeedAtStartup = TRUE
  NoTorrent = NoTorrent
  Torn = Torn
  Absent = Absent
  NoRequest = NoRequest
PROPERTY PublishKeepsPublished
