SPECIFICATION Spec
CONSTANTS
    n1 = n1
    z1 = z1
    z2 = z2
    p1 = p1
    p2 = p2
    f1 = f1
    s = s
    None = None
    Nodes = {n1}
    Zones = {z1}
    Capacity = 1
    Pods = {p1, p2, s}
    Foreign = {}
    Exclusive = {p1, p2}
    Req <- MCReq
    ForeignPodsDetect = "All"
    ResyncMethod = "Autodetect"
    AgentMethod = "All"
    MaxFaults = 0
PROPERTIES
    NoFalsePositives
CHECK_DEADLOCK FALSE
