SPECIFICATION AnsweredSpec
CONSTANTS
  Slots = {s1}
  Accounts = {a1}
  Threads = {g1, g2}
  None = None
  RevokeFails = TRUE
  StoreFails = TRUE
  MaxMidSwitches = 0
  MaxSignIns = 1
  MaxRestarts = 1
PROPERTY CallsReturn
CHECK_DEADLOCK FALSE
