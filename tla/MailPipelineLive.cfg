SPECIFICATION FairSpec
CONSTANTS
  m1 = m1  m2 = m2  s1 = s1  s2 = s2  pdf = pdf  img = img
  Msgs = {m1, m2}
  Stems = {s1, s2}
  Names = {pdf, img}
  Copies <- TwoAndNone
  Invalid = {m2}
  NoFile = NoFile  Broken = Broken  NoStem = NoStem  NoId = NoId
  UniqueStems = TRUE
  SlowWrites = FALSE
  ScannerLocks = FALSE
  MaxStops = 1
INVARIANT QueuedIsOnDisk
PROPERTIES SpoolPromise GoodMailSurfaces GhostsVanish  OrphansSwept
CHECK_DEADLOCK FALSE
