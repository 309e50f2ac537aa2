SPECIFICATION Spec
CONSTANTS
    p1 = p1
    p2 = p2
    p3 = p3
    p4 = p4
    g1 = g1
    None = None
    NoGroup = NoGroup
    Pods = {p1, p2, p3, p4}
    Groups = {g1}
    GroupOf <- MCGroupOf
    MinMember <- MCMinMemberTen
    Preassigned <- MCEightPreassigned
    HasMinResources = {g1}
    PgBackoff = TRUE
    MaxFaults = 1
    MaxDeletes = 1
INVARIANTS
    TypeOK
    NoQuorateWait
    NoPartialGroup
PROPERTIES
    GangScheduled
CHECK_DEADLOCK FALSE
