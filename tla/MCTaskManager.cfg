SPECIFICATION FairSpec
CONSTANTS
    Jobs = {j1, j2, j3}
    Totals = {0, 2, 3}
    Chunk = 2
    NoJob = NoJob
INVARIANTS TypeOK AnnouncedHere PartsExact ReducerComplete Awake
PROPERTIES ServesJobs JobsEnd
CHECK_DEADLOCK FALSE
