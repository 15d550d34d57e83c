\* The callee of a call with a call edge still becomes an operand node.
SPECIFICATION BuilderSpec
CONSTANTS
  None = None
  Modules <- MCCallModules
INVARIANT HiddenCallTarget
CHECK_DEADLOCK FALSE
