SPECIFICATION Spec
CONSTANTS
  ChunkSize = 2
  MaxInt = 7
  None = None
  t1 = t1  t2 = t2
  src = src  big = big  virt = virt  down = down
  a = a  b = b
  Threads = {t1, t2}
  Sources = {src, big}
  Virtuals = {virt}
  Downloads = {down}
  Hashes = {a, b}
  Block <- MCBlock
  Size <- MCSize
  Map <- MCMap
  Ranges <- MCRanges
  Parts <- MCParts
SYMMETRY Symmetry
INVARIANTS TypeOK LocatedIsStored MappedSourceIsLocatable MappedIsRange LocatedIsRange
