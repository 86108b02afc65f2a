SPECIFICATION FairSpec
CONSTANTS
  RestoreNames = {r1, r2}
  r1 = r1
  r2 = r2
  Kinds = {"passive"}
  Acts = {"createRestore", "deleteRestore", "deleteHub", "activate", "crash", "listError"}
  MaxActs = 4
  MaxLag = 0
INVARIANTS HubHeld
PROPERTIES DeletedGoesAway HubDeletionClears
CHECK_DEADLOCK FALSE
