SPECIFICATION FairSpec
CONSTANTS
  skip = skip
  latest = latest
  Cycles = {1, 2}
  Specs <- SyncPassiveSpecs
  InitialBackups <- PairOneCycle
  Arriving <- SecondPair
  VeleroWorkers = 1
  Outcomes = {"Completed"}
  Lagging = {}
  Faults = {"backupGone", "bsl"}
  MaxFaults = 2
INVARIANTS EnabledSound
PROPERTIES SyncNeverRollsBack SyncCatchesUp
CHECK_DEADLOCK FALSE
