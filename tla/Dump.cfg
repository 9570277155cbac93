SPECIFICATION FairSpec
CONSTANTS
  NumWorkers = 2
  NumSessions = 1
  NumHigh = 1
  NumTables = 2
  MaxChunks = 1
  Checksum = TRUE
  Failures <- AllFailures
  SignalAt <- Running
  MaxSignals = 1
INVARIANTS
  DoneFileMeansComplete
  WorkersLeaveLast
  SessionsConserved
  OkMeansDone
PROPERTIES
  Termination
CHECK_DEADLOCK FALSE
