SPECIFICATION Spec
CONSTANTS
    NTx = 2
    NPages = 2
    NSlots = 2
    Seeded = 1
    MaxWrites = 2
    MaxImages = 3
    MaxCrashes = 2
    MaxCheckpoints = 1
    Statements = {"insert", "update", "delete"}
    Rollbacks = "instead of crashes"
    LateCrashes = FALSE
    AfterRestart = "nothing"
CHECK_DEADLOCK FALSE
INVARIANTS
    WalFirst
    RedoIsExact
PROPERTIES
    Implements
