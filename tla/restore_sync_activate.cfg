SPECIFICATION Spec
CONSTANTS
  skip = skip
  latest = latest
  Cycles = {1}
  Specs <- SyncSpecs
  InitialBackups <- OneCycle
  Arriving <- NoBackups
  VeleroWorkers = 1
  Outcomes = {"Completed", "Failed"}
  Lagging = {}
  Faults = {"edit", "updateError", "crash"}
  MaxFaults = 2
INVARIANTS EnabledSound FinishedIsComplete
PROPERTIES ActivationGate
CHECK_DEADLOCK FALSE
