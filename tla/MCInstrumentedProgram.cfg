\* Instrumented programs that write whole lines, run to MaxRevisits more block entries than blocks.
SPECIFICATION RunSpec
CONSTANTS
  None = None
  NoCount = NoCount
  Modules <- MCRunModules
  MaxRevisits = 2
  MaxThreads = 3
  MaxLost = 2
  Texts = {"none", "line"}
INVARIANTS RunTypeOK ExactProfile LogKeepsPace CutLogCountsLittleTooMuch
  LogBelongsToGraph
PROPERTY RunsLikeTheProgram
\* A program ends, dies or reaches the bound.
CHECK_DEADLOCK FALSE
