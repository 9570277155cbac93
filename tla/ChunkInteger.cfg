SPECIFICATION FairSpec
CONSTANTS
  Types <- ThreeBits
  RowCounts <- Estimates
  RowsPerChunk = 20
  Accuracy = 10
  TableRows = {10, 100}
  Probes = 2
  NextIsInteger = {TRUE, FALSE}
  Levels = {TRUE, FALSE}
INVARIANTS
  ChunksComplete
  AssertionsHold
PROPERTIES
  Termination
CHECK_DEADLOCK FALSE
