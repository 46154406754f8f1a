SPECIFICATION FairSpec
CONSTANTS
    Jobs = {j1, j2}
    Tasks = {t1}
    NumExecutors = 1
    CacheSize = 1
    Kinds = {"dll", "wasm"}
    NoClient = NoClient
    ChannelSize = 1
    MaxEvents = 1
    MaxTasks = 1
    MaxReplaced = 1
    MaxDeaths = 0
PROPERTIES TasksAnswered
CHECK_DEADLOCK FALSE
