CONSTANTS
  Keys = {c1}
  Listeners = {"provisioner", "configgenerator", "healthchecker"}
  Runs = {"configgenerator", "healthchecker"}
  MaxWrites = 2
  MaxBreaks = 0
  MaxResyncs = 0
  Lag = 0
  Deletions = TRUE
  MaxFailures = 0
SPECIFICATION StartupFairSpec
INVARIANT NobodyMissesAnObject
PROPERTIES  EveryHandlerHears
CHECK_DEADLOCK FALSE
