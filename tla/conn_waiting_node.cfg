SPECIFICATION Spec
CHECK_DEADLOCK FALSE
CONSTANTS
  NULL = NULL
  Tasks = {srv, cli}
  NsTasks = {}
  Ports = {p1}
  Chans = {c1, c2}
  Paths = {svc}
  NumBufs = 1
  MaxHandles = 2
INVARIANTS
  WaitingNodeAssert
