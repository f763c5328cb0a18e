SPECIFICATION Spec
CONSTANTS
  Slots = {s1, s2}
  Accounts = {a1, a2}
  Threads = {g1, g2}
  None = None
  MaxMidSwitches = 0
  RevokeFails = FALSE
  StoreFails = FALSE
  MaxSignIns = 1
  MaxRestarts = 0
INVARIANT NobodyStuck
SYMMETRY AuthSymmetry
CHECK_DEADLOCK FALSE
