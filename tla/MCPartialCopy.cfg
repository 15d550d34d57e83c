\* A copy breaks off half way.
SPECIFICATION Spec
CONSTANTS
  ArgSets <- MCArgSets
  Leftovers <- MCLeftovers
  DumpFaults = {"base"}
  ToolFaults = {}
  CopyFaults = TRUE
  RemovedFirst <- MCRemovedFirst
INVARIANT NoPartialArtifacts
\* The driver stops when it has exited.
CHECK_DEADLOCK FALSE
