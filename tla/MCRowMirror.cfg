SPECIFICATION Spec
CONSTANTS
    Tables <- MCTables
    Keys = {"1", "2"}
    RowValues <- MCRowValues
    Schemas <- MCSchemas
    InitialSchema <- MCInitialSchema
    InitialRows <- MCInitialRows
    FilterItems <- MCFilterItems
    ImportItems <- MCImportItems
    MaxLog = 6
    MaxLag = 0
    MaxIds = 3
    MaxResumes = 1
INVARIANTS
    TypeOK
    TableMapMatchesRows
    LiveRowsMirrored
    RedisHoldsLoggedValues
    NoAbort
    MirrorInv
    AgreementInv
CHECK_DEADLOCK FALSE
