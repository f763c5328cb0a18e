SPECIFICATION FairSpec
CONSTANTS
  Ids = {e1, e2}
  NoId = NoId
  Callers = {}
  MaxFailures = 2
  MaxGlitches = 0
  MaxRestarts = 1
  MaxSwitches = 1
PROPERTY EventuallySettled
CHECK_DEADLOCK FALSE
