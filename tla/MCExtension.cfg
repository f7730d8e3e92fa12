SPECIFICATION Spec
CONSTANTS
    c1 = c1  c2 = c2  a1 = a1  a2 = a2  a3 = a3  t1 = t1  t2 = t2
    None = None
    Ids <- TwoIds
    Adapters <- TwoAdapters
    Terminals <- TwoTerminals
    Protocol <- SshAndFtp
    SecretsMayFail = TRUE
SYMMETRY Symmetry
INVARIANTS
    BrowsableHasSync
    TerminalsAreNotWired
    BarNeverOvercounts
    TrackedIsOpen
CHECK_DEADLOCK FALSE
