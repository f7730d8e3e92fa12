SPECIFICATION FairSpec
CONSTANTS
    k1 = k1  k2 = k2  k3 = k3  k4 = k4  k5 = k5  k6 = k6
    r1 = r1  r2 = r2  r3 = r3
    c1 = c1  e1 = e1  e2 = e2  n1 = n1  n2 = n2
    Chosen <- Parts
    Keys <- SixKeys
    PathCacheMax = 4
    Paths <- TwoPaths
    Fields <- TwoFields
    Samples <- FourSamples
    MaxListed = 3
    MaxItems = 2
    Matches <- FiveMatches
    MaxOutput = 2
    Entries <- TreeEntries
    Folders <- TreeFolders
    Links <- TreeLinks
    Specials <- TreeSpecials
    Parent <- Tree
    LinkTo <- TreeLinkTo
    Target <- TreeTargets
    Additions <- TreeAdditions
    None = "none"
    Requests <- ThreeRequests
    MaxRedirects = 2
    MaxResponse = 1
    MaxSockets = 2
    Octets <- SomeOctets
    Calls = {c1}
    Ends <- TwoEnds
    Names <- TwoNames
    Blocks = 2
INVARIANTS
    TypeOK
    LeastRecentlyUsedGo
    DirectoriesAreCutLast
    LinesAreUnderstood
    
    NothingElseIsRemoved
    FailsForAReason
    RequestsAreConfined
    NothingIsLeftOpen
    WrittenIsWhole
PROPERTIES
    EverythingSettles
CHECK_DEADLOCK FALSE
