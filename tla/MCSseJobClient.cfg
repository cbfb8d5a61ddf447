SPECIFICATION FairClientSpec
CONSTANTS
    Jobs = {j1, j2}
    Streams = {s1, s2}
    None = None
    MaxLegacyEvents = 0
    MaxDrops = 1
INVARIANTS
    SettledIsClosed
    ShowsOwnOutcome
    NotFoundOnlyAfterLoss
PROPERTIES
    ClientSettles
CHECK_DEADLOCK FALSE
