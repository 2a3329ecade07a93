CONSTANTS
  Names = {c1}
  Paths = {p1, p2}
  Contents = {"a"}
  NoConfig = ""
  ForeignFinalizers = {}
  NoCluster = NoCluster
  Reflectors = {r1, r2}
  Missing = Missing
  NoKey = NoKey
  NoInfra = NoInfra
  Partial = Partial
  MaxUserSteps = 4
  MaxFaults = 0
  FileTexts = {}
  Edits = {}
SPECIFICATION Spec
PROPERTIES CleansWhatItReleases
SYMMETRY Symmetry
CHECK_DEADLOCK FALSE
