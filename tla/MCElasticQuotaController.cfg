SPECIFICATION QuotaSpec
CONSTANTS
    p1 = p1
    p2 = p2
    EQ = EQ
    w1 = w1
    w2 = w2
    NoKey = NoKey
    QuotaPods = {p1, p2}
    Workers = {w1, w2}
    Containers <- MCContainers
    InitContainers <- MCInitContainers
    Overhead <- MCOverhead
    MaxQuotaErrors = 1
INVARIANTS
    QuotaTypeOK
    

    
CHECK_DEADLOCK FALSE
