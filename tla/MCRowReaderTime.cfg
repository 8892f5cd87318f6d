SPECIFICATION Spec
CONSTANTS
    Scenarios <- CommentScenarios
    Room = 64
    Texts <- MCTexts
    Junk = {10, 45}
INVARIANT TimeAsCommented
CHECK_DEADLOCK FALSE
