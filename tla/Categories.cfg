SPECIFICATION Spec
CONSTANTS
    Threads = {t1, t2}
    Documents <- Catalogues
    PlainCodes = {"H"}
    MaxRequests = 3
    MaxDeletes = 1
SYMMETRY Symmetry
INVARIANTS
    RightParents
    ParentsStored
    CopiesBounded
    ParentsOneKindUp
