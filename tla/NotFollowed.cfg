SPECIFICATION FollowersSpec
CONSTANTS
    b1 = b1
    b2 = b2
    u1 = u1
    u2 = u2
    NoSettings = NoSettings
    Businesses <- OneBusiness
    Users <- TwoUsers
    Rules <- ActiveAndMail
SYMMETRY Symmetry
INVARIANT NotFollowedExcludesFollowed
CHECK_DEADLOCK FALSE
