SPECIFICATION Spec
CONSTANTS
    Threads = {t1, t2}
    Codes = {c1, c2}
    MaxUuids = 4
    MayCrash = TRUE
SYMMETRY Symmetry
INVARIANTS
    AsManyAsThreads
    StoredRegistered
    PicturesStay
