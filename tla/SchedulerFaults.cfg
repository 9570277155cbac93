SPECIFICATION FairSpec
CONSTANTS
  w1 = w1
  w2 = w2
  w3 = w3
  t1 = t1
  t2 = t2
  p1 = p1
  p2 = p2
  Workers = {w1, w2}
  Tables = {t1}
  Parts = {p1}
  TableOf <- MCTableOf1
  NumChunks <- MCNumChunks1
  Missing = {p1}
  Serial = {}
  PrevLoaded <- MCPrev1
  DeferredIdx = {t1}
  IndexWeight <- MCWeight1
  AnalyzeMode = "on"
  Histograms = {}
  Checksums = {p1}
  NoTable = {t1}
  MayFail = TRUE
  MayInterrupt = TRUE
INVARIANTS
  TaskReplacedWhenFree
  OkMeansAllDone
PROPERTIES
  Termination
