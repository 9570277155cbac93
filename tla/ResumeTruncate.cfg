SPECIFICATION Spec
CONSTANTS
  w1 = w1
  w2 = w2
  t1 = t1
  t2 = t2
  p1 = p1
  p2 = p2
  Workers = {w1, w2}
  Tables = {t1}
  Parts = {p1}
  TableOf <- MCTableOf1
  NumChunks <- MCTwoChunks
  NumRows = 1
  Pke = {}
  NonTrx = {}
  MaxTrx = 0
  LocalFile = TRUE
  IgnoreExisting = FALSE
  Stops = {"interrupt", "fatal"}
  MaxRuns = 2
INVARIANTS
  LogSound
