SPECIFICATION Spec
CONSTANTS
  MaxKey = 4
  RowsPerChunk = 2
  Modes = {TRUE, FALSE}
  MaxChunks = 4
INVARIANTS
  RowsKept
CHECK_DEADLOCK FALSE
