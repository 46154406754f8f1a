CONSTANTS
    Instances <- Square
    NoEdge = 100
    Infinity = 1000
SPECIFICATION Spec
INVARIANTS TasksCover PartsFound OpenTasksExact AnswerMinimal
CHECK_DEADLOCK FALSE
