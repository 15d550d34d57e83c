\* The graph of every small control-flow graph, of the calls and of the modules with
\* a printf of their own, and the injection into them.
SPECIFICATION InjectSpec
CONSTANTS
  None = None
  Modules <- MCModules
INVARIANTS BuilderTypeOK IdsArePositions CrossReferences ControlFlowComplete
  CallEdgesComplete DataFlowComplete LookupFindsFirstSuccessor
  InjectTypeOK CodePreserved EdgesLoggedOnce EntriesAndCallsLoggedOnce LogsLogNothing
PROPERTY GraphOnlyGrows
\* The injection ends.
CHECK_DEADLOCK FALSE
