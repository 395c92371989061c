SPECIFICATION FairSpec
CONSTANTS
  Limit = 16
  Calls <- SmallCalls
  Length = 4
  MaxFails = 3
  MaxOthers = 2
INVARIANTS
  RangeInv
  RangeMoved
  AppendedOnce
PROPERTIES
  Returns
