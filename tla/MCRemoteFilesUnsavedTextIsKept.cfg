SPECIFICATION Spec
CONSTANTS
    f1 = f1  f2 = f2  x = x  y = y  c1 = c1  c2 = c2
    Dir = Dir  Torn = Torn  Absent = Absent
    Files <- TwoFiles
    Inside <- InDir
    Contents <- TwoContents
    Calls <- OneCall
    Ops <- AllOps
    FileSize = 1  DigestSize = 0  DirSize = 1
    MaxSize = 1
    MaxCounter = 2
    Overlap = FALSE
    Faults = FALSE
PROPERTIES
    UnsavedTextIsKept
CHECK_DEADLOCK FALSE
