SPECIFICATION Spec
CHECK_DEADLOCK FALSE
CONSTANTS
  RxSize = 1
  TxSize = 1
  MaxConn = 2
  MaxMsgs = 1
  NumSlots = 1
  Fds = {f1, f2}
  NoMsg = NoMsg
SYMMETRY FdSymmetry
INVARIANTS
  EndpointsExact
  HandlesWatched
  RequestsAnswered
  EndsAgree
  StuckOnlyForBuffers
  RightDelivery
