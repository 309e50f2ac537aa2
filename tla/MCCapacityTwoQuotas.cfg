SPECIFICATION Spec
CONSTANTS
    a = a
    b = b
    p1 = p1
    p2 = p2
    p3 = p3
    None = None
    Unset = Unset
    Namespaces = {a, b}
    Pods = {p1, p3}
    Foreign = {p3}
    NsOf <- MCNsOf
    Req <- MCReq
    Prio <- MCPrio
    Specs <- MCTightSpecs
    UpperBoundOfMax = 100
    EQInformerRunning = TRUE
    MaxQuotaChanges = 1
    MaxFaults = 1
INVARIANTS
    
    AggregateOvershootBounded
CHECK_DEADLOCK FALSE
