SPECIFICATION Spec
CONSTANTS
    PayloadSize = 8
    HeaderSize = 1
    EntrySize = 1
    Names <- MCNames
    Tuples <- MCTuples
    Preludes <- MCPreludes
    Inputs <- MCInputs
    MaxStatements = 4
    MaxKeyLen = 4
    Capacity = 18
    Risks = {}
CHECK_DEADLOCK FALSE
INVARIANTS
    Reopens
    CopiesAgree
    SpaceHonest
PROPERTIES
    Implements
