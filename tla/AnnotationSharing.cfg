CONSTANTS
  Names = {c1}
  Paths = {p1}
  Contents = {"a"}
  NoConfig = ""
  ForeignFinalizers = {}
  NoCluster = NoCluster
  Reflectors = {r1}
  Missing = Missing
  NoKey = NoKey
  NoInfra = NoInfra
  Partial = Partial
  MaxUserSteps = 1
  MaxFaults = 0
  FileTexts = {}
  Edits = {}
  Controllers = {"healthchecker", "annotator"}
  Threads = {t1}
  Ids = {i1, i2, i3, i4, i5, i6}
  Nil = Nil
  MaxPending = 1
  MaxRevision = 100
  NoKubeconfig = NoKubeconfig
  BarePaths = {}
  LeftOver = {p1}
SPECIFICATION AnnotatorFairSpec
INVARIANT CacheKeepsServersPart
PROPERTIES  ReadyConverges
CHECK_DEADLOCK FALSE
