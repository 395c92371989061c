SPECIFICATION FairSpec
CONSTANTS
  NBlocks = 3
  NCBlock = 2
  NVertices = 4
  VBlocks <- Cut4
  Adj <- DeadEnd
  NThreads = 2
  MaxTWalks = 1
  WalksCapacity = 2
  ExpLen <- Evenly
  MaxIter = 0
  Programs <- NaiveOrRandom
  Hops = 3
  SerialBelow = 2
  Rounds = 3
  WalksPerRound = 1
  Sources <- InTurn
  MaxCrashes = 0
INVARIANTS
  RoundDrains
  EngineTypeOK
  EachWalkOnce
  CountersMatch
  BatchComplete
  BothBlocksCached
  StoredUnderItsBlocks
  ReadsInsideBlock
  DoneMeansFinished
  InductiveInv
PROPERTIES
  RefinesRandomWalk
  ProcessEnds
