SPECIFICATION FairSpec
CONSTANTS
  skip = skip
  latest = latest
  Cycles = {1}
  Specs <- OneTimeSpecs
  InitialBackups <- OneCycle
  Arriving <- NoBackups
  VeleroWorkers = 1
  Outcomes = {"Completed"}
  Lagging = {}
  Faults = {"updateError", "crash", "blocked"}
  MaxFaults = 1
INVARIANTS FinishedSound FinishedIsComplete
PROPERTIES ActivationGate NoCreateAfterTerminal EventuallyDone KeepsContract
CHECK_DEADLOCK FALSE
