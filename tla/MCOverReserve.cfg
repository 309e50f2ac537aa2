SPECIFICATION Spec
CONSTANTS
    n1 = n1
    z1 = z1
    z2 = z2
    p1 = p1
    p2 = p2
    f1 = f1
    s = s
    None = None
    Nodes = {n1}
    Zones = {z1}
    Capacity = 1
    Pods = {p1, p2, s}
    Foreign = {s}
    Exclusive = {p1, p2}
    Req <- MCReq
    ForeignPodsDetect = "All"
    ResyncMethod = "Autodetect"
    AgentMethod = "OnlyExclusiveResources"
    MaxFaults = 1
PROPERTIES
    
    OnlyFlushForgets
INVARIANTS
    TypeOK
    
CHECK_DEADLOCK FALSE
