SPECIFICATION Spec
CONSTANTS
  MaxRuns = 3
  Text <- SmallText
  Sizes = {1, 2, 3}
  Folder <- Megabytes
  Cuts <- SmallCuts
INVARIANTS
  FilesTrusted
  BlocksCurrent
  WeightsFollow
  SortedWhenMade
