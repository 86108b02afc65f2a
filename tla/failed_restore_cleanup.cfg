SPECIFICATION Spec
CONSTANTS
    Kinds = {"resource"}
    Lost = {}
    Outcomes = {"done", "partial", "failed"}
    Cleanups = {"CleanupRestored"}
    MaxBackups = 2
    MaxRestores = 1
PROPERTIES KeepsBackedUp
CHECK_DEADLOCK FALSE
