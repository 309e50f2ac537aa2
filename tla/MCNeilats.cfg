SPECIFICATION Spec
CONSTANTS
    n1 = n1
    n2 = n2
    n3 = n3
    p1 = p1
    p2 = p2
    None = None
    Bad = Bad
    Lost = Lost
    Nodes = {n1, n2, n3}
    Configured = {n1, n2}
    Pods = {p1, p2}
    Labels <- MCLabels
    Samples = {10, 120}
    LastN = 2
    Metrics <- MCMetrics
    Scores = {0, 1}
    MaxProbes = 2
    MaxStarts = 2
INVARIANTS
    TypeOK
    
    
PROPERTIES
    WinnerUndominated
CHECK_DEADLOCK FALSE
