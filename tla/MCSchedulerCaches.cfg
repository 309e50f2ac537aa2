SPECIFICATION Spec
CONSTANTS
    p1 = p1
    p2 = p2
    n1 = n1
    read = read
    write = write
    mount = mount
    None = None
    Pods = {p1, p2}
    Nodes = {n1}
    NameOf <- MCNameOf
    Syscalls <- MCSyscalls
    Default = {read, mount}
    Interval = 2
    MaxTime = 3
    MaxFaults = 1
INVARIANTS
    
    RecentPodsPredicted
    OneOnItsWay
CHECK_DEADLOCK FALSE
