SPECIFICATION GameSpec
CONSTANTS
    MaxTime = 1
    MaxTroubles = 1
    NoRequest = NoRequest
INVARIANTS GameTypeOK RightVerdict StuckExplained
PROPERTY OnlyForward
