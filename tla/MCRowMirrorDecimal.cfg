SPECIFICATION Spec
CONSTANTS
    Tables <- MCTables
    Keys = {"1"}
    RowValues <- MCRowValues
    Schemas <- DecimalSchemas
    InitialSchema <- DecimalSchema
    InitialRows <- MCInitialRows
    FilterItems <- MCFilterItems
    ImportItems <- MCImportItems
    MaxLog = 5
    MaxLag = 0
    MaxIds = 3
    MaxResumes = 0
INVARIANT NoAbort
CHECK_DEADLOCK FALSE
