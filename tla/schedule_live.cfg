SPECIFICATION FairSpec
CONSTANTS
  N = 2
  Specs <- EditedSpecs
  Lagging = {}
  MaxTime = 1
  Faults = {"createError", "deleteError", "updateError", "statusError", "prepareError", "crash", "edit", "scheduleGone", "storage", "restore", "ownRestore", "recreate", "foreignBackup", "foreignRestore", "markerQueued"}
  MaxFaults = 2
INVARIANTS SameDueTime
PROPERTIES EventuallyEnabled CollisionStopsBackups CollisionNeverResumes
CHECK_DEADLOCK FALSE
