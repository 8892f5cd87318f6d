SPECIFICATION Spec
CONSTANTS
    Scenarios <- MCScenarios
    Room = 64
    Texts <- MCTexts
    Junk = {10, 45}
INVARIANTS
    TypeOK
    MetasMatch
    RowAligned
    TextsMatch
    DecimalsRead
CHECK_DEADLOCK FALSE
