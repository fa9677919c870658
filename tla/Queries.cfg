SPECIFICATION Spec
CHECK_DEADLOCK FALSE
CONSTANTS
    Null = Null
    Error = Error
    MaxInt = 15
    Schemas <- Tables
    Indexes <- TablesIndexed
    MaxDpTables = 3
    MaxParamIndex = 3
    MaxIterations = 10
    Scripts <- MCScripts
    Databases <- MCDatabases
INVARIANTS
    AnswersRight
    RewritingSettles
PROPERTIES
    RewritesKeepRows
    ParsedAsWritten
