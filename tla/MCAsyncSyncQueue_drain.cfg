SPECIFICATION Spec
CONSTANTS
    Jobs = {j1}
    Workers = {w1}
    MaxSize = 1
    NoJob = NoJob
INVARIANTS
    DrainLeavesNothing
