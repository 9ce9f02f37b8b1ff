SPECIFICATION Spec
CONSTANTS
  both = both
  one = one
  p = p
  q = q
  Sessions <- MCSessions
  Paths = {p, q}
  Uses <- MCUses
  Values = {Empty, v}
  NumBlocks = 5
  Reserved = 1
  CtrMod = 3
  InitCounters = {2}
  MaxTr = 2
  InitVersions = {2}
  InitFiles = {p}
  Empty = Empty
  NoFile = NoFile
  Same = Same
  NULL = NULL
INVARIANTS
  BlocksAccounted
  HandlesCurrent
  MemoryIsOnDisk
  CounterRecovers
  ReadsStable
PROPERTIES
  ImplementsAtomicStore
