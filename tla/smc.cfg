SPECIFICATION FairSpec
CONSTANTS
  Cpus = {c1, c2}
  Callers = {a}
  ApiVersions = {1, 2}
  Retry = 1
  MaxDone = 1
  Blocks = TRUE
  FiqCpus = {c1}
  NULL = NULL
INVARIANTS
  ActiveInside
  AnswersExpected
PROPERTIES
  ImplementsCall
  CallReturns
