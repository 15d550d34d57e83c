\* Every command line of the bounds over every kind of leftovers; any step may fail.
SPECIFICATION Spec
CONSTANTS
  ArgSets <- MCArgSets
  Leftovers <- MCLeftovers
  DumpFaults = {"base"}
  ToolFaults = {"merge", "dot"}
  CopyFaults = FALSE
  RemovedFirst <- MCRemovedFirst
INVARIANTS DriverTypeOK FinishedLevelsDelivered CopiedOutputsAreGenuine DriverInvariant
  DrawnGraphsAreWhole NothingLeftBehind
PROPERTY OldArtifactsSurvive
\* The driver stops when it has exited.
CHECK_DEADLOCK FALSE
