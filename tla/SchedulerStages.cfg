SPECIFICATION Spec
CONSTANTS
  w1 = w1
  w2 = w2
  w3 = w3
  t1 = t1
  t2 = t2
  p1 = p1
  p2 = p2
  Workers = {w1, w2, w3}
  Tables = {t1, t2}
  Parts = {p1, p2}
  TableOf <- MCOneTable
  NumChunks <- MCNumChunks
  Missing = {}
  Serial = {p1}
  PrevLoaded <- MCPrev
  DeferredIdx = {t1, t2}
  IndexWeight <- MCHeavy
  AnalyzeMode = "histogram"
  Histograms = {t1}
  Checksums = {p1, p2}
  NoTable = {}
  MayFail = FALSE
  MayInterrupt = FALSE
INVARIANTS
  TypeOK
  EventTaskMatch
  StageOrder
  WeightAccounting
  TopIsHeaviest
  SerialExclusive
PROPERTIES
  ExecutedOnce
SYMMETRY Symmetry
