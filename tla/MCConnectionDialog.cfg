SPECIFICATION Spec
CONSTANTS
    c1 = c1  c2 = c2  m1 = m1  k1 = k1  k2 = k2  i1 = i1  i2 = i2  i3 = i3
    docs = docs  backup = backup
    Absent = Absent
    Torn = Torn
    Ids <- TwoIds
    Mounts <- OneMount
    Labels <- TwoLabels
    Misread <- OneMisread
    Calls <- OneCall
    Inodes <- ThreeInodes
    MaxCrashes = 1
SYMMETRY Symmetry
INVARIANTS
    FileIsWhole
    RemovedStaysRemoved
    PromisedIsKept
CHECK_DEADLOCK FALSE
