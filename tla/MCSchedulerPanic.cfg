SPECIFICATION SpecNodes
CONSTANTS
    Workers = {w1, w2}
    MaxTotal = 2
    Subworkers = {1, 2}
    FailLimit = 1
    BufferSize = 1
    MaxList = 2
    MaxCopies = 1
    MaxReplace = 1
    MaxDrift = 1
    NoJob = NoJob
INVARIANT NoPanic
CHECK_DEADLOCK FALSE
