SPECIFICATION Spec
CONSTANTS
  Keys = {k1, k2}
  Threads = {t1}
  NoFile = NoFile
  Torn = Torn
INVARIANT StartDoesNotThrow
