SPECIFICATION Spec
CONSTANTS
    Workers = {w1, w2}
    MaxTotal = 2
    Subworkers = {1}
    FailLimit = 0
    BufferSize = 1
    MaxList = 1
    MaxCopies = 1
    MaxReplace = 1
    MaxDrift = 1
    NoJob = NoJob
SYMMETRY WorkerSymmetry
INVARIANTS TypeOK NoPhantomAssignments EachTaskOnce CompleteMeansAll WorkersReachable
PROPERTIES VerdictIsFinal DemandKept
CHECK_DEADLOCK FALSE
