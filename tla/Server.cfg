SPECIFICATION FairSpec
CONSTANTS
    c1 = c1
    c2 = c2
    Client = {c1, c2}
    Workers = 2
    QueueCapacity = 1
    Sends <- Scripts
    CarelessCommits = FALSE
INVARIANTS
    LocksHaveOwners
    FlushedLast
PROPERTIES
    CancelsItsStatement
    ShutdownCompletes
