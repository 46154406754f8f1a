SPECIFICATION Spec
CONSTANTS
    Jobs = {j1}
    Tasks = {t1, t2}
    NumExecutors = 2
    CacheSize = 1
    Kinds = {"dll", "wasm"}
    NoClient = NoClient
    ChannelSize = 1
    MaxEvents = 1
    MaxTasks = 2
    MaxReplaced = 1
    MaxDeaths = 1
SYMMETRY Interchangeable
INVARIANTS TypeOK ExecutorsConserved HeldUnlessLost AskedAccounted
CHECK_DEADLOCK FALSE
