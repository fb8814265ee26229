CONSTANTS
    r1 = r1  r2 = r2
    None = None
    Requests <- TwoRequests
    MaxUpdates = 2
    MaxInstances = 2
SPECIFICATION FairSpec
INVARIANTS OneConnection FailuresExplained
PROPERTIES UpdateAnswered StopReleases
