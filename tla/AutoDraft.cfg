SPECIFICATION Spec
CONSTANTS
  Ids = {e1, e2}
  NoId = NoId
  Callers = {toast}
  MaxFailures = 2
  MaxGlitches = 1
  MaxRestarts = 0
  MaxSwitches = 1
INVARIANTS InflightIsCurrent  NothingLost GatesStopDrain
CHECK_DEADLOCK FALSE
SYMMETRY IdSymmetry
