SPECIFICATION Spec
CONSTANTS
    Requests = {r1, r2, r3}
    Words = {w1}
    Categories = {noun, auto}
    AutoAdded = auto
    AutoCreate = {noun}
    MaxId = 4
    MaxStored = 2
    MaxItems = 2
    None = None
SYMMETRY Symmetry
INVARIANTS
    VersionCountsChanges
    OrphansAreARace
    DeadlocksNeedABulkOrATrade
CHECK_DEADLOCK FALSE
