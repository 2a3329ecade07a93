CONSTANTS
  Names = {c1}
  Paths = {p1}
  Contents = {"a"}
  NoConfig = ""
  ForeignFinalizers = {}
  NoCluster = NoCluster
  Reflectors = {r1}
  Missing = Missing
  NoKey = NoKey
  NoInfra = NoInfra
  Partial = Partial
  MaxUserSteps = 2
  MaxFaults = 1
  FileTexts = {Missing}
  Edits = {}
  Controllers = {"healthchecker"}
  Threads = {t1}
  Ids = {i1, i2, i3, i4, i5, i6}
  Nil = Nil
  MaxPending = 1
  MaxRevision = 100
  NoKubeconfig = NoKubeconfig
  BarePaths = {}
  LeftOver = {p1}
SPECIFICATION AllSpec
INVARIANTS HandlersTypeOK StatusIsGuarded
PROPERTIES ReleasedOnlyAfterCleanup NoLostUpdate ImplementsClusterLife
CHECK_DEADLOCK FALSE
