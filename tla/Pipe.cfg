SPECIFICATION FairPipeSpec
CONSTANTS
  Files <- Tables
  BufLens = {2, 3}
  MaxTrx = 4
  Faults = {"interrupt", "writer", "reader", "other"}
INVARIANTS
  CopyExact
  RequestProtected
PROPERTIES
  BothEnd
CHECK_DEADLOCK FALSE
