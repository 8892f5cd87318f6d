SPECIFICATION FairSpec
INVARIANTS
    TypeOK
    ToleratesTwoFaults
    FalseSuccessOnlyExhausted
    AtMostThreeExecutions
    ConnectorInv
PROPERTY
    CallReturns
