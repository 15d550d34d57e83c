\* A switch with two cases for one block: the second edge is never counted.
SPECIFICATION RunSpec
CONSTANTS
  None = None
  NoCount = NoCount
  Modules <- MCDuplicateModules
  MaxRevisits = 3
  MaxThreads = 1
  MaxLost = 0
  Texts = {"none"}
INVARIANT EveryEdgeCounted
CHECK_DEADLOCK FALSE
