CONSTANTS
    Ids = {a, b, c, d, e, f}
    Values = {0, 1, 2}
SPECIFICATION Spec
INVARIANTS TypeOK IndexExact HeapOrder RootLargest
SYMMETRY Symmetry
CHECK_DEADLOCK FALSE
