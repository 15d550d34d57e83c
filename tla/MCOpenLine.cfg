\* Text without a line feed swallows the event that follows it.
SPECIFICATION RunSpec
CONSTANTS
  None = None
  NoCount = NoCount
  Modules <- MCTextModules
  MaxRevisits = 3
  MaxThreads = 1
  MaxLost = 0
  Texts = {"none", "open"}
INVARIANT EveryEdgeCounted
CHECK_DEADLOCK FALSE
