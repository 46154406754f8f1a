SPECIFICATION Spec
CONSTANTS
    Keys = {0, 1, 2}
    Values = {1, 2}
    Given <- TwoForFirst
    Addr = {1, 2, 3, 4, 5, 6, 7, 8}
    Vacant <- NearKey
    MaxIters = 1
INVARIANTS TypeOK MemorySafe IndexAgrees
PROPERTIES Implements
