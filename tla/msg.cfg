SPECIFICATION FairSpec
CHECK_DEADLOCK FALSE
CONSTANTS
  Ends = {A, B}
  Senders = {A}
  NumItems = 3
  Msgs = {m1, m2}
  NoMsg = NoMsg
INVARIANTS
  ItemsPartitioned
  BlockedMeansFull
PROPERTIES
  ImplementsFifo
  UnblockDelivered
