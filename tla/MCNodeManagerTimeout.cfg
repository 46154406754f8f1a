SPECIFICATION Spec
CONSTANTS
    Nodes = {n1}
    Schedulers = {s1}
    WorkerIds = {w1}
    SchedulerIds = {i1}
    Keys = {k1, k2}
    Platforms = {linux}
    Required = {AnyNumber}
    AnyNumber = AnyNumber
    Demanded = {{linux}}
    MaxLinks = 1
    Frail = {}
INVARIANT TimeoutEndsSession
CHECK_DEADLOCK FALSE
