CONSTANTS
    t1 = t1  t2 = t2  t3 = t3
    n1 = n1
    i1 = i1
    None = None
    Threads <- ThreeThreads
    Names <- OneName
    ClientIds <- OneId
    MaxCreations = 2
SPECIFICATION Spec
SYMMETRY Symmetry
INVARIANTS StoredRegistered NoUuidLost AnsweredAsWritten
PROPERTY NothingSavedUnseen
