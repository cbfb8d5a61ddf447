\* Four requests of any kind, two units in the store at most when they begin.
\* Every request ends in an answer and no new one comes.
SPECIFICATION Spec
CONSTANTS
    Requests = {r1, r2, r3, r4}
    MaxId = 5
    MaxStored = 2
    MaxLength = 2
    None = None
SYMMETRY Symmetry
INVARIANTS
    UnitsAreWhole
    ReplyIsOwnWrite
    TornListIsARace
    DeletedStaysDeleted
PROPERTIES
    ConflictMeansARival
CHECK_DEADLOCK FALSE
