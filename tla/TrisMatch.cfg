SPECIFICATION Spec
CONSTANTS
    t1 = t1
    t2 = t2
    t3 = t3
    c1 = c1
    c2 = c2
    None = None
    Threads <- ThreeThreads
    Clients <- TwoClients
    Capacity = 10
    MaxRequests = 5
SYMMETRY Symmetry
PROPERTIES DeadForever SerialPairing
CHECK_DEADLOCK FALSE
