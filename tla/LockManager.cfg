SPECIFICATION Spec
CONSTANTS
    Txn = {t1, t2, t3, t4}
    Key = {k1, k2}
SYMMETRY TxnSymmetry
INVARIANTS
    LockCompatibility
    NoLostWakeup
    PendingExact
    WaitersHaveEdges
PROPERTIES
    NoOvertaking
