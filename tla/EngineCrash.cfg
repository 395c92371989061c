SPECIFICATION FairSpec
CONSTANTS
  NBlocks = 3
  NCBlock = 2
  NVertices = 4
  VBlocks <- Cut4
  Adj <- DeadEnd
  NThreads = 2
  MaxTWalks = 1
  WalksCapacity = 2
  ExpLen <- Evenly
  MaxIter = 0
  Programs <- OnlyNaive
  Hops = 2
  SerialBelow = 2
  Rounds = 1
  WalksPerRound = 4
  Sources <- AtZero
  MaxCrashes = 1
INVARIANTS
  EachWalkOnce
  BatchComplete
PROPERTIES
  ProcessEnds
