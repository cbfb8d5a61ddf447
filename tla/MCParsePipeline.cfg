SPECIFICATION Spec
CONSTANTS
    Requests = {"r1", "r2"}
    Texts = {"t1", "t2"}
    TextOf <- MCTextOf
    Tokens <- MCTokens
    Expressions <- MCExpressions
    LlmFinds <- MCLlmFinds
    Blocked = {"b"}
    Existing <- MCExisting
    KnownMwes = {}
    AutoCreate = {"Noun", "Idiom", "Phrasal Verb"}
    AutoAdded = "Auto Added"
    MaxDocs = 1
    QueueSize = 1
    MaxRejected = 1
    None = None
INVARIANTS
    ReportedIsStored
    
    NothingUnaccounted
    DocsAreReleased
PROPERTY QueuedIsHandled
CHECK_DEADLOCK FALSE
