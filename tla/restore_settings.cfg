SPECIFICATION Spec
CONSTANTS
  skip = skip
  latest = latest
  Cycles = {1}
  Specs <- SettingsSpecs
  InitialBackups <- ClustersOneCycle
  Arriving <- NoBackups
  VeleroWorkers = 1
  Outcomes = {"Completed", "PartiallyFailed", "Failed"}
  Lagging = {"restore", "veleroRestore"}
  Faults = {"createError", "listError", "blocked", "restoreGone", "backupGone", "bsl", "edit", "taskError"}
  MaxFaults = 2
INVARIANTS TypeOK
PROPERTIES TerminalIsFinal
CHECK_DEADLOCK FALSE
