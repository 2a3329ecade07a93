CONSTANTS
  Keys = {c1}
  Listeners = {"provisioner", "annotator"}
  Runs = {"annotator"}
  MaxWrites = 3
  MaxBreaks = 2
  MaxResyncs = 2
  Lag = 0
  Deletions = FALSE
  MaxFailures = 1
SPECIFICATION StartupSpec
INVARIANTS StartupTypeOK RunsAfterCrds  
CHECK_DEADLOCK FALSE
 
