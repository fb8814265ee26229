SPECIFICATION Spec
CONSTANTS
    Threads = {t1, t2}
    Uuids = {u1}
    Kinds = {"SPO", "3X2", "unknown", "malformed"}
    InputDates <- TwoDates
    Businesses = {b1, b2}
    Nations = {n1}
    Bodies <- Posted
    MayCrash = TRUE
    None = None
SYMMETRY Symmetry
INVARIANTS
    DeletionIsFinal
    Deletable
    LeaksExplained
    BusinessKept
PROPERTIES
    QuietActivation
