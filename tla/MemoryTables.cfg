SPECIFICATION Spec
CONSTANTS
    Backend = "Memory"
    NTxn = 3
    Table = {1, 2}
    Id = {1, 2}
    NSlots = 3
    Seeded = 1
    Work <- TableWork
    MaxStmts = 2
    Failures = FALSE
    Blocking = TRUE
    CommitAborted = FALSE
INVARIANTS
    AtRest
PROPERTIES
    NoDirtyReads
