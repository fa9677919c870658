SPECIFICATION Spec
CONSTANTS
    t1 = t1
    t2 = t2
    Thread = {t1, t2}
    NPages = 3
    NFrames = 2
    MaxGuards = 2
    MaxWrites = 2
    FlushesAlone = TRUE
SYMMETRY ThreadSymmetry
INVARIANTS
    PinsExact
PROPERTIES
    FullMeansPinned
    Implements
