SPECIFICATION Spec
CONSTANTS
    MaxMessages = 1
INVARIANTS
    TypeOK
    ClosedInOrder
PROPERTIES
    TasksEnd
CHECK_DEADLOCK FALSE
