SPECIFICATION Spec
CONSTANTS
    PayloadSize = 8
    HeaderSize = 1
    EntrySize = 1
    Names <- MCNames
    Tuples <- MCTuples
    Preludes <- LengthPreludes
    Inputs <- LengthInputs
    MaxStatements = 4
    MaxKeyLen = 4
    Capacity = 18
    Risks = {"lengths"}
CHECK_DEADLOCK FALSE
INVARIANTS
    IndexesAgree
