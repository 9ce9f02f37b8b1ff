SPECIFICATION FairSpec
CONSTANTS
  Sz = 4
  Chunk = 3
  Line = 3
  Wrap = 8
  MaxBytes = 11
INVARIANTS
  RingOrder
  PrintedIsWritten
PROPERTIES
  PrintedInOrder
  LogDrained
