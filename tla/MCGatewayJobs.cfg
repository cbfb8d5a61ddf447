SPECIFICATION FairSpec
CONSTANTS
    Jobs = {j1}
    Streams = {s1, s2, s3}
    None = None
    MaxLegacyEvents = 2
INVARIANTS
    WaitersAreReachable
    EachEventOnce
    StreamsKeepOrder
    ParseOrder
PROPERTIES
    StreamsEnd
CHECK_DEADLOCK FALSE
