SPECIFICATION Spec
CONSTANTS
  NBlocks = 5
  NCBlock = 3
  NVertices = 5
  VBlocks <- Cut5Single
  Adj <- Leftover
  NThreads = 2
  MaxTWalks = 1
  WalksCapacity = 2
  ExpLen <- Later
  MaxIter = 2
  Programs <- Choosing
  Hops = 3
  SerialBelow = 4
  Rounds = 3
  WalksPerRound = 1
  Sources <- SomeStarts
  MaxCrashes = 0
INVARIANTS
  ScheduleUseful
  DivisorPositive
  RoundDrains
PROPERTIES
  UsesCache
