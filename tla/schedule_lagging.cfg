SPECIFICATION FairSpec
CONSTANTS
  N = 2
  Specs <- PausingSpecs
  Lagging = {"backupSchedule", "veleroSchedule"}
  MaxTime = 0
  Faults = {"edit", "scheduleGone", "rejected", "pauseError"}
  MaxFaults = 2
PROPERTIES PausedStopsBackups
CHECK_DEADLOCK FALSE
