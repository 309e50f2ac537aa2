SPECIFICATION Spec
CONSTANTS
    a = a
    b = b
    a1 = a1
    a2 = a2
    b1 = b1
    b2 = b2
    b3 = b3
    None = None
    Unset = Unset
    Invalid = Invalid
    Pods = {a1, a2, b1, b2, b3}
    Late = {b3}
    Namespaces = {a, b}
    NsOf <- MCNsOf
    Prio <- MCPrio
    Req <- MCReq
    Rank <- MCRank
    Class <- MCClass
    ScheduledAt <- MCScheduledAt
    Preemptor <- MCPreemptor
    Configs <- MCConfigs
    MaxDuration = 100
    MaxNow = 3
INVARIANTS
    TypeOK
    BorrowersOnly
PROPERTIES
    
    
    NominatedBinds
CHECK_DEADLOCK FALSE
