SPECIFICATION Spec
CONSTANTS
    p1 = p1
    p2 = p2
    p3 = p3
    Idle = Idle
    Pods = {p1, p2, p3}
    Foreign = {p3}
    MinMember = 2
    MaxErrors = 1
INVARIANTS
    TypeOK
    
PROPERTIES
    EventuallyFinal
CHECK_DEADLOCK FALSE
