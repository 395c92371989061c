SPECIFICATION Spec
CONSTANTS
  Graphs <- SmallGraphs
  Programs <- SmallPrograms
  Hops = 2
INVARIANTS
  ChanceByDistance
  ShareOfCommon
  ReadsBeyond
