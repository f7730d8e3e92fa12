SPECIFICATION Spec
CONSTANTS
    a = a  b = b  s1 = s1  s2 = s2  s3 = s3
    None = None
    Ids <- TwoIds
    SshIds <- OneId
    Sessions <- TwoSessions
    MaxAttempts = 3
SYMMETRY Symmetry
INVARIANTS
    ConnectedIsServed
    ProgressIsBacked
    NoReconnectWhileBlocked
PROPERTIES
    ImplementsConnectionPool
CHECK_DEADLOCK FALSE
