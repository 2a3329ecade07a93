CONSTANTS
  Names = {c1}
  Paths = {p1, p2}
  Contents = {"a"}
  NoConfig = ""
  ForeignFinalizers = {"other"}
  NoCluster = NoCluster
  Reflectors = {r1}
  Missing = Missing
  NoKey = NoKey
  NoInfra = NoInfra
  Partial = Partial
  MaxUserSteps = 3
  MaxFaults = 1
  FileTexts = {"a", "", Missing}
  Edits = {"move", "other"}
SPECIFICATION Spec
INVARIANTS TypeOK StatusIsGuarded
PROPERTIES ReleasedOnlyAfterCleanup NoLostUpdate AppliedOnlyAfterUp ImplementsClusterLife
SYMMETRY Symmetry
CHECK_DEADLOCK FALSE
