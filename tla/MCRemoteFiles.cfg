SPECIFICATION Spec
CONSTANTS
    f1 = f1  f2 = f2  x = x  y = y  c1 = c1  c2 = c2
    Dir = Dir  Torn = Torn  Absent = Absent
    Files <- TwoFiles
    Inside <- TwoFiles
    Contents <- TwoContents
    Calls <- OneCall
    Ops <- AllOps
    FileSize = 1  DigestSize = 1  DirSize = 1
    MaxSize = 1
    MaxCounter = 1
    Overlap = FALSE
    Faults = TRUE
SYMMETRY FileSymmetry
INVARIANTS
    TypeOK
    SidecarMatches
    UpToDateIsTrue
    PrunesOldestFirst
    SavedIsKept
CHECK_DEADLOCK FALSE
