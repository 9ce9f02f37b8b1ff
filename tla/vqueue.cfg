SPECIFICATION FairSpec
CONSTANTS
  Num = 2
  IdxRange = 4
  NoBuf = NoBuf
  Nobody = Nobody
INVARIANTS
  BuffersOnce
  SleepJustified
PROPERTIES
  NotForgotten
