SPECIFICATION Spec
CONSTANTS
    t1 = t1
    t2 = t2
    Threads = {t1, t2}
    Levels = {0, 2}
    Lowest = {1}
    MaxCalls = 3
CHECK_DEADLOCK FALSE
INVARIANTS
    TypeOK
    AloneIsLogged
    OwnOrder
PROPERTIES
    EndlReturns
