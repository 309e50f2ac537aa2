SPECIFICATION Spec
CONSTANTS
    a = a
    b = b
    p1 = p1
    p2 = p2
    p3 = p3
    None = None
    Unset = Unset
    Namespaces = {a}
    Pods = {p1, p2}
    Foreign = {p2}
    NsOf <- MCNsOf
    Req <- MCReq
    Prio <- MCPrio
    Specs <- MCSpecs
    UpperBoundOfMax = 100
    EQInformerRunning = TRUE
    MaxQuotaChanges = 2
    MaxFaults = 1
INVARIANTS
    TypeOK
    UsedMatchesPods
    NoQuotaLeak
    
PROPERTIES
    OnlyAddRaceUncounts
    DeletedReleased
    
CHECK_DEADLOCK FALSE
