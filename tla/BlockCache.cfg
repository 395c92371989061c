SPECIFICATION BoundedSpec
CONSTANTS
  NBlocks = 4
  NCBlock = 3
  MaxLife = 1
INVARIANTS
  CacheInv
  InstallDelivers
PROPERTIES
  KeepsCandidates
