SPECIFICATION Spec
CONSTANTS
  NBlocks = 3
  NCBlock = 2
  NVertices = 3
  VBlocks <- Cut3
  Adj <- Triangle
  NThreads = 2
  MaxTWalks = 1
  WalksCapacity = 2
  ExpLen <- Evenly
  MaxIter = 2
  Programs <- OnlyAnnealing
  Hops = 2
  SerialBelow = 2
  Rounds = 3
  WalksPerRound = 1
  Sources <- EveryVertex
  MaxCrashes = 0
INVARIANTS
  BothBlocksCached
