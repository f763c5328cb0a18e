SPECIFICATION Spec
CONSTANTS
  Emails = {old, new}
  NoRow = NoRow
  Waiting = {old}
  Drafters = {automode, binding}
  MaxFailures = 1
  MaxClicks = 1
SYMMETRY DrafterSymmetry
INVARIANTS NoSpam  NoArrivalMissed
CHECK_DEADLOCK FALSE
