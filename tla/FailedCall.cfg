SPECIFICATION Spec
CONSTANTS
  Limit = 16
  Calls <- SmallCalls
  Length = 4
  MaxFails = 3
  MaxOthers = 1
INVARIANTS
  FailuresCaught
