SPECIFICATION FairSpec
CONSTANTS
    Clusters = {c1, c2, h1}
    Hive = {h1}
    Validities = {14, 20}
    Window = 3
    MaxGap = 1
    Slack = 4
    Acts = {"validity", "useMSA", "component", "crd"}
    MaxActs = 1
    Faults = {"component", "addons", "create", "update", "cleanup", "crash"}
    MaxFaults = 1
INVARIANTS TypeOK  
PROPERTIES DisabledCleansUp ValidityApplied
CHECK_DEADLOCK TRUE
