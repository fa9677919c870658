SPECIFICATION FairSpec
CONSTANTS
    Backend = "Disk"
    NTxn = 3
    Table = {1}
    Id = {1, 2}
    NSlots = 3
    Seeded = 2
    Work <- AnyWork
    MaxStmts = 2
    Failures = FALSE
    Blocking = TRUE
    CommitAborted = TRUE
CHECK_DEADLOCK FALSE
PROPERTIES
    CallsReturn
