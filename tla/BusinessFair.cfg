CONSTANTS
    t1 = t1  t2 = t2  t3 = t3
    u1 = u1  u2 = u2
    i1 = i1  i2 = i2
    v1 = v1  v2 = v2
    None = None
    Threads <- TwoThreads
    Uuids <- TwoUuids
    Ids <- TwoIds
    Values <- TwoValues
    Keys <- NameOnly
    Ops <- CreateUpdate
    MayCrash = FALSE
    Redraw = TRUE
SPECIFICATION FairSpec
INVARIANTS UuidsDistinct NoRegistryLeak
PROPERTY CallsEnd
