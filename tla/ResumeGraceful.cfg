SPECIFICATION FairSpec
CONSTANTS
  w1 = w1
  w2 = w2
  t1 = t1
  t2 = t2
  p1 = p1
  p2 = p2
  Workers = {w1, w2}
  Tables = {t1, t2}
  Parts = {p1, p2}
  TableOf <- MCTableOf
  NumChunks <- MCOneEach
  NumRows = 2
  Pke = {t1}
  NonTrx = {t2}
  MaxTrx = 1
  LocalFile = TRUE
  IgnoreExisting = FALSE
  Stops = {"interrupt", "fatal"}
  MaxRuns = 2
INVARIANTS
  StartLogged
PROPERTIES
  ExactlyOnce
  EventuallyLoaded
