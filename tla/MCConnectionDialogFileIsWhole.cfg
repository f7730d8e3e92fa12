SPECIFICATION Spec
CONSTANTS
    c1 = c1  c2 = c2  m1 = m1  k1 = k1  k2 = k2  i1 = i1  i2 = i2  i3 = i3
    docs = docs  backup = backup
    Absent = Absent
    Torn = Torn
    Ids <- TwoIds
    Mounts <- OneMount
    Labels <- OneLabel
    Misread <- NoneMisread
    Calls <- TwoCalls
    Inodes <- ThreeInodes
    MaxCrashes = 0
SYMMETRY Symmetry
INVARIANTS
    FileIsWhole
CHECK_DEADLOCK FALSE
