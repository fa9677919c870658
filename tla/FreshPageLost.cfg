SPECIFICATION Spec
CONSTANTS
    NTx = 2
    NPages = 2
    NSlots = 2
    Seeded = 1
    MaxWrites = 1
    MaxImages = 3
    MaxCrashes = 2
    MaxCheckpoints = 2
    Statements = {"insert", "update", "delete"}
    Rollbacks = "never"
    LateCrashes = FALSE
    AfterRestart = "checkpoint"
CHECK_DEADLOCK FALSE
INVARIANTS
    CommittedSurvive
