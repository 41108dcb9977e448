SPECIFICATION FairSpec
CONSTANTS
  Keys = {k1, k2, k3}
  Threads = {t1, t2}
  NoFile = NoFile
  Torn = Torn
INVARIANTS TypeOK FileKeepsUp
PROPERTIES ComesUpWithDownloads ImplementsCachedItems StartsInTheEnd
