SPECIFICATION FairSpec
CONSTANTS
  FileLen = 5
  Needle = 1
  BufLens = {2, 3}
  TrxSizes = {0, 1, 2, 3, 4}
  Ranges <- MCRanges
  ShortReads = TRUE
  Seekables = {TRUE, FALSE}
  FirstSleep = 1
  MaxSleep = 2
  ErrorSets = {{"deadlock", "error"}, {"early", "deadlock"}}
INVARIANTS
  LoadedOnce
  Counters
PROPERTIES
  SubChunks
  Termination
CHECK_DEADLOCK FALSE
