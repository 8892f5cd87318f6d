SPECIFICATION FairSpec
CONSTANTS
    Workers = {w1, w2, w3}
    Tasks = {t1, t2}
    NoTask = NoTask
    MaxQueue = 4
INVARIANTS
    TypeOK
    WorkConserving
PROPERTY
    QueuedTaskRuns
