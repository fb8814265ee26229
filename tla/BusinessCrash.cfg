CONSTANTS
    t1 = t1  t2 = t2  t3 = t3
    u1 = u1  u2 = u2
    i1 = i1  i2 = i2
    v1 = v1  v2 = v2
    None = None
    Threads <- ThreeThreads
    Uuids <- TwoUuids
    Ids <- TwoIds
    Values <- OneValue
    Keys <- NameAndPIva
    Ops <- AllOps
    MayCrash = TRUE
    Redraw = FALSE
SPECIFICATION Spec
SYMMETRY Symmetry
INVARIANTS DeletedStaysDeleted MatchedStillStored RefusalHasACause
PROPERTIES DuplicatesOnlyFromOverlap RegistryKept OneLifePerUuid
