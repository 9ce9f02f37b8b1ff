SPECIFICATION Spec
CHECK_DEADLOCK FALSE
CONSTANTS
  NULL = NULL
  Tasks = {srv, cli}
  NsTasks = {}
  Ports = {p1, p2}
  Chans = {c1, c2, c3, c4}
  Paths = {svc}
  NumBufs = 1
  MaxHandles = 2
SYMMETRY ObjectSymmetry
INVARIANTS
  RefsExact
  NoOrphan
  ConnectedPair
  ConnectingIsPending
  WaitingHasNoPort
  PortRefsExact
PROPERTIES
  DisconnectIsFinal
