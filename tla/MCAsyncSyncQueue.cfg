SPECIFICATION FairSpec
CONSTANTS
    Jobs = {j1, j2, j3}
    Workers = {w1, w2}
    MaxSize = 2
    NoJob = NoJob
INVARIANTS
    CountersMatch
    IdleIsFinal
    ReportIsComplete
PROPERTIES
    WorkersExit
    AcceptedIsHandled
    ImplementsContract
