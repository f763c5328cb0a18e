SPECIFICATION Spec
CONSTANTS
  Procs = {p1, p2}
  NoProc = NoProc
  MaxFaults = 2
  MaxCrashes = 1
  MaxThefts = 1
SYMMETRY ProcSymmetry
INVARIANTS LegacyStateKept MarkerMeansDone DefaultHealed
CHECK_DEADLOCK FALSE

