SPECIFICATION Spec
CONSTANTS
    Backend = "Disk"
    NTxn = 3
    Table = {1, 2}
    Id = {1, 2, 3}
    NSlots = 3
    Seeded = 2
    Work <- RowWork
    MaxStmts = 2
    Failures = FALSE
    Blocking = TRUE
    CommitAborted = FALSE
INVARIANTS
    WritesLocked
    RepeatableReads
    NoPhantoms
    ReadLocksReleased
PROPERTIES
    LockProtocol
