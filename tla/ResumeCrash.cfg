SPECIFICATION Spec
CONSTANTS
  w1 = w1
  w2 = w2
  t1 = t1
  t2 = t2
  p1 = p1
  p2 = p2
  Workers = {w1, w2}
  Tables = {t1}
  Parts = {p1}
  TableOf <- MCTableOf1
  NumChunks <- MCTwoChunks
  NumRows = 2
  Pke = {t1}
  NonTrx = {t1}
  MaxTrx = 1
  LocalFile = TRUE
  IgnoreExisting = TRUE
  Stops = {"crash", "error"}
  MaxRuns = 3
INVARIANTS
  LogSound
  SkipSound
PROPERTIES
  ExactlyOnce
SYMMETRY Symmetry
