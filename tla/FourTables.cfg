SPECIFICATION Spec
CHECK_DEADLOCK FALSE
CONSTANTS
    Null = Null
    Error = Error
    MaxInt = 15
    Schemas <- Tables
    Indexes <- TablesIndexed
    MaxDpTables = 8
    MaxParamIndex = 3
    MaxIterations = 10
    Scripts <- FourTablesScripts
    Databases <- MCDatabases
INVARIANTS
    AnswersRight
