SPECIFICATION FairSpec
CONSTANTS
    MaxEvents = 3
    Large = {2}
INVARIANTS
    TypeOK
    NoGap
    LossNeedsFiveDrops
    SessionsStartClean
    SessionInv
    StripsChecksums
PROPERTIES
    StreamIsParsed
    ImplementsReplay
CHECK_DEADLOCK FALSE
