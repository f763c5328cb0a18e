SPECIFICATION Spec
CONSTANTS
  Emails = {e1}
  Changers = {c1, c2}
  MaxChanges = 2
SYMMETRY ChangerSymmetry
INVARIANTS TrayIsCurrent WindowIsCurrent
CHECK_DEADLOCK FALSE
