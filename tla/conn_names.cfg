SPECIFICATION FairSpec
CHECK_DEADLOCK FALSE
CONSTANTS
  NULL = NULL
  Tasks = {srv, cli, ns}
  NsTasks = {ns}
  Ports = {p1}
  Chans = {c1, c2}
  Paths = {svc, log}
  NumBufs = 1
  MaxHandles = 2
INVARIANTS
  PendingAllowed
PROPERTIES
  ConnectReturns
