SPECIFICATION Spec
CONSTANTS
    t1 = t1
    t2 = t2
    t3 = t3
    Thread = {t1, t2, t3}
    Calls <- TwoInserters
    KeyLen <- Lengths
    PayloadSize = 58
    Unique = TRUE
    DeletesAlone = TRUE
INVARIANTS
    PagesFit
    Searchable
    NoDeadlock
PROPERTIES
    Implements
