SPECIFICATION FairSpec
CONSTANTS
    Nodes = {n1, n2}
    Schedulers = {s1}
    WorkerIds = {w1, w2}
    SchedulerIds = {i1}
    Keys = {k1, k2}
    Platforms = {linux, wasm}
    Required = {AnyNumber}
    AnyNumber = AnyNumber
    Demanded = {{linux}}
    MaxLinks = 1
    Frail = {n1, s1}
INVARIANTS SessionsKept
PROPERTIES SchedulersInformed NodesInformed WakeupsKept HeadServed
CHECK_DEADLOCK FALSE
