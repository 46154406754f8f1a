CONSTANTS
    Instances <- Wide
    NoEdge = 100
    Infinity = 1000
SPECIFICATION Spec
INVARIANTS PartsFound
CHECK_DEADLOCK FALSE
