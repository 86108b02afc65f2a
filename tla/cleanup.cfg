SPECIFICATION Spec
CONSTANTS
    Kinds = {"secret", "resource", "hive", "cluster", "other", "core"}
    Lost = {"resource"}
    Outcomes = {"done", "partial", "failed"}
    Cleanups = {"None", "CleanupRestored", "CleanupAll"}
    MaxBackups = 2
    MaxRestores = 2
INVARIANTS TypeOK BackedUpOnce Reflects ActivationHeldBack
PROPERTIES KeepsRestored
CHECK_DEADLOCK FALSE
