CONSTANTS
  Names = {c1}
  Paths = {p1}
  Contents = {"a"}
  NoConfig = ""
  ForeignFinalizers = {}
  NoCluster = NoCluster
  Reflectors = {r1}
  Missing = Missing
  NoKey = NoKey
  NoInfra = NoInfra
  Partial = Partial
  MaxUserSteps = 2
  MaxFaults = 0
  FileTexts = {}
  Edits = {"other"}
SPECIFICATION Spec
PROPERTIES FinalizerBeforeUp
CHECK_DEADLOCK FALSE
