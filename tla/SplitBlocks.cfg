SPECIFICATION Spec
CONSTANTS
  NVertices = 5
  MaxDegree = 4
  MaxEdges = 3
  VertSize = 4
  Graphs <- AllGraphs
INVARIANTS
  FilesAgree
  OversizeAlone
  CutsNeeded
  SplitInv
