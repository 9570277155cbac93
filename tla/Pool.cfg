SPECIFICATION FairSpec
CONSTANTS
  a = a
  b = b
  c = c
  d = d
  None = None
  NumWorkers = 2
  Tasks = {a, b, c, d}
  Parent <- MCParent
  Priority <- MCPriority
  Uses <- MCUses
INVARIANTS
  DoneMeansProcessed
  Bookkeeping
  FailureVisible
  CleanDestruction
PROPERTIES
  Termination
CHECK_DEADLOCK FALSE
