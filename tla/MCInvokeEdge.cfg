\* An invoke: the edges to its two successors are never counted.
SPECIFICATION RunSpec
CONSTANTS
  None = None
  NoCount = NoCount
  Modules <- MCCallModules
  MaxRevisits = 3
  MaxThreads = 1
  MaxLost = 0
  Texts = {"none"}
INVARIANT EveryEdgeCounted
CHECK_DEADLOCK FALSE
