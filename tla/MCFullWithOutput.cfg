\* --full together with -o.
SPECIFICATION Spec
CONSTANTS
  ArgSets <- MCArgSets
  Leftovers <- MCLeftovers
  DumpFaults = {"base"}
  ToolFaults = {}
  CopyFaults = FALSE
  RemovedFirst <- MCRemovedFirst
INVARIANT FullSavesEveryGraph
\* The driver stops when it has exited.
CHECK_DEADLOCK FALSE
