SPECIFICATION Spec
CHECK_DEADLOCK FALSE
CONSTANTS
  Handles = {h1, e1}
  Edge = {e1}
  NULL = NULL
INVARIANTS
  ReturnsHandle
