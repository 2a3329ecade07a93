CONSTANTS
  Names = {c1}
  Paths = {p1}
  Contents = {"a"}
  NoConfig = ""
  ForeignFinalizers = {}
  NoCluster = NoCluster
  Reflectors = {r1, r2}
  Missing = Missing
  NoKey = NoKey
  NoInfra = NoInfra
  Partial = Partial
  MaxUserSteps = 2
  MaxFaults = 1
  FileTexts = {""}
  Edits = {}
SPECIFICATION ResyncSpec
INVARIANTS NoForgottenDeletion
PROPERTIES DeletionCompletes AppliedConverges
CHECK_DEADLOCK FALSE
