\* Every log of up to 4 lines against both graphs, with all file faults.
SPECIFICATION FairSpec
CONSTANTS
  NoCount = NoCount
  NoOutput = NoOutput
  Truncated = Truncated
  MaxLines = 4
  Graphs <- MCGraphs
  Logs <- MCLogs
  PriorCounts <- MCPriorCounts
  InputFaults = TRUE
  WriteFaults = TRUE
INVARIANTS TypeOK InductiveInvariant OutputIsMerge NoOutputUnlessAcceptable
PROPERTIES ImplementsContract AcceptableLogIsApplied
\* The tool stops when it has exited.
CHECK_DEADLOCK FALSE
