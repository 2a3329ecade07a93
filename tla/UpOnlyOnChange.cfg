CONSTANTS
  Names = {c1}
  Paths = {p1}
  Contents = {"a"}
  NoConfig = ""
  ForeignFinalizers = {}
  NoCluster = NoCluster
  Reflectors = {r1}
  Missing = Missing
  NoKey = NoKey
  NoInfra = NoInfra
  Partial = Partial
  MaxUserSteps = 1
  MaxFaults = 0
  FileTexts = {}
  Edits = {"other"}
SPECIFICATION Spec
PROPERTIES UpOnlyOnChange
CHECK_DEADLOCK FALSE
