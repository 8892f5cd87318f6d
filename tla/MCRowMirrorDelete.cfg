SPECIFICATION Spec
CONSTANTS
    Tables <- MCTables
    Keys = {"1"}
    RowValues <- MCRowValues
    Schemas <- MCSchemas
    InitialSchema <- MCInitialSchema
    InitialRows <- MCInitialRows
    FilterItems <- MCFilterItems
    ImportItems <- MCImportItems
    MaxLog = 5
    MaxLag = 0
    MaxIds = 3
    MaxResumes = 0
INVARIANT DeletedRowsLeave
CHECK_DEADLOCK FALSE
