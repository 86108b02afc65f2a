SPECIFICATION FairSpec
CONSTANTS
  N = 1
  Specs <- PausingSpecs
  Lagging = {}
  MaxTime = 2
  Faults = {"edit", "restore", "ownRestore", "foreignBackup", "foreignRestore", "crash", "prepareError"}
  MaxFaults = 5
INVARIANTS TypeOK
PROPERTIES CollisionHasCause CollisionNoticed
CHECK_DEADLOCK FALSE
