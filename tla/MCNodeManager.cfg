SPECIFICATION Spec
CONSTANTS
    Nodes = {n1}
    Schedulers = {s1, s2}
    WorkerIds = {w1, w2}
    SchedulerIds = {i1, i2}
    Keys = {k1, k2}
    Platforms = {linux}
    Required = {1}
    AnyNumber = AnyNumber
    Demanded = {{linux}}
    MaxLinks = 2
    Frail = {}
SYMMETRY Interchangeable
INVARIANTS TypeOK EachWorkerOnce DemandsExact SessionsKept
CHECK_DEADLOCK FALSE
