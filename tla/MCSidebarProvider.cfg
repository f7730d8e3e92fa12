SPECIFICATION Spec
CONSTANTS
    d1 = d1  d2 = d2  c1 = c1  c2 = c2
    None = None
    Dirs <- TwoDirs
    Calls <- TwoCalls
    Kinds <- BothKinds
    Ops <- AllOps
    Ttl = 2
    MaxTrip = 1
SYMMETRY Symmetry
INVARIANTS
    ListingIsRecent
    TreeHasMenuChanges
    KeptListHasOwnChanges
CHECK_DEADLOCK FALSE
