SPECIFICATION Spec
CONSTANTS
  Slots = {s1, s2}
  Accounts = {a1, a2}
  Threads = {g1, g2}
  None = None
  RevokeFails = FALSE
  StoreFails = FALSE
  MaxMidSwitches = 1
  MaxSignIns = 1
  MaxRestarts = 0
INVARIANTS SignedOutStaysOut EntryMatchesTokens TokensDuringRenewal LocksAccounted StuckOnlyBySignIn CalmSignatures
SYMMETRY AuthSymmetry
CHECK_DEADLOCK FALSE
