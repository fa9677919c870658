SPECIFICATION Spec
CONSTANTS
    Null = Null
    Error = Error
    MaxInt = 15
    Schemas <- Numbers
    Indexes <- MCIndexes
    MaxDpTables = 3
    HistogramBucketCount = 3
    McvMaxEntries = 2
    DefaultRowCountEstimate = 10
    Table = "a"
    Values = {1, 2, 3, 4}
    MaxRows = 7
    MaxChanges = 1
    Predicates <- MCPredicates
    Conditions <- MCConditions
INVARIANTS
    FrequentStandOut
    NoFalseZero
    PathsAgree
    JoinsBounded
