SPECIFICATION FairSpec
CONSTANTS
  Threads = {scheduler, user}
  Background = {scheduler}
  Absent = Absent
  NoRelease = NoRelease
  InitialFiles <- MCFiles
  Catalog <- MCCatalog
  Current <- MCCurrent
  Timeline <- MCTimeline
  EarlyClicks = FALSE
  Window = 1
  MaxChanges = 1
  MaxClock = 2
  MaxManual = 1
  MaxRestarts = 1
INVARIANTS ChoicesKeptOneByOne NewestOffered DetectedStaysShown 
PROPERTY MirrorCatchesUp
CHECK_DEADLOCK FALSE
