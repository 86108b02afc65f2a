SPECIFICATION FairSpec
CONSTANTS
  RestoreNames = {r1, r2}
  r1 = r1
  r2 = r2
  Kinds = {"once", "passive"}
  Acts = {"createRestore", "createSchedule", "pauseSchedule", "deleteSchedule", "collision", "deleteRestore", "scheduleListError"}
  MaxActs = 3
  MaxLag = 1
INVARIANTS TypeOK OneInProgress
PROPERTIES OverlapEnds
CHECK_DEADLOCK FALSE
