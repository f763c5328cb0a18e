SPECIFICATION Spec
CONSTANTS
  MaxBasename = 3
  MaxExtension = 2
  MaxCharacter = 2
  Calls <- TestCalls
  Null = Null
  MaxFiles = 2
  MaxRecipients = 2
  MaxSize = 2
  Sizes = {1, 2}
INVARIANTS  RefusedForCause SafeNames
CHECK_DEADLOCK FALSE
