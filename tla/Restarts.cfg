SPECIFICATION Spec
CONSTANTS
    NTx = 2
    NPages = 2
    NSlots = 2
    Seeded = 2
    MaxWrites = 1
    MaxImages = 4
    MaxCrashes = 2
    MaxCheckpoints = 2
    Statements = {"insert", "update", "delete"}
    Rollbacks = "never"
    LateCrashes = FALSE
    AfterRestart = "stamped"
CHECK_DEADLOCK FALSE
PROPERTIES
    Implements
