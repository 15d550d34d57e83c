\* --emit-ll with the default stages.
SPECIFICATION Spec
CONSTANTS
  ArgSets <- MCArgSets
  Leftovers <- MCLeftovers
  DumpFaults = {"base"}
  ToolFaults = {}
  CopyFaults = FALSE
  RemovedFirst <- MCRemovedFirst
INVARIANT EmitLlSavesBothStages
\* The driver stops when it has exited.
CHECK_DEADLOCK FALSE
