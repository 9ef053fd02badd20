CONSTANTS
    Items = {i1}
    Leases = {l1, l2, l3}
    MaxRetry = 2
    NoItem = NoItem
    NoLease = NoLease
    w1 = w1
    g1 = g1
    g2 = g2
    g3 = g3
    s1 = s1
    s2 = s2
    t1 = t1
    t2 = t2
SPECIFICATION ProgressSpec
PROPERTIES
    InFlightDrains
    EverythingAfter
    LocksAreFreed
CHECK_DEADLOCK FALSE
