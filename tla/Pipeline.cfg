SPECIFICATION FairSpec
CONSTANTS
    Workers = {w1, w2, w3}
    NumSinks = 2
    NumValues = 2
    MaxLines = 2
    NoTask = NoTask
    NoWorker = NoWorker
INVARIANTS
    TypeOK
    RowForEveryTask
    FieldsFollowRows
    IInv
PROPERTIES
    NoStaleOverwrite
    ImplementsDelivery
    ParserNotStarved
