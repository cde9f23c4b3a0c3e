CONSTANTS
    a = a
    b = b
    l1 = l1
    l2 = l2
    l3 = l3
    NoThread = NoThread
    Lease <- MCLease
    Thread <- MCThread
    ThreadOf <- MCThreadOf
    Usages <- MCUsages
    MapMayFail = TRUE

SPECIFICATION Spec

INVARIANTS
    UnlockedAtClose
