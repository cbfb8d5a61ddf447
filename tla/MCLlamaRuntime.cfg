SPECIFICATION RuntimeSpec
CONSTANTS
    Callers = {c1, c2}
    Boot = c1
    Procs = {p1, p2, p3}
    NoProc = NoProc
    MaxCalls = 3
INVARIANTS OrphanNeedsOverlap OneServerAtATime
PROPERTY CallsEnd
CHECK_DEADLOCK FALSE
