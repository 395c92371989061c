SPECIFICATION Spec
CONSTANTS
  VertSize = 3
  EdgeSize = 2
  MaxLines = 4
  MaxVertex = 3
  Inputs <- SmallInputs
INVARIANTS
  PrefixWritten
  WeightsAligned
PROPERTIES
  CompleteIfRoom
