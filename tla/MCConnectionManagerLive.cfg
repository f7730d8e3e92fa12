SPECIFICATION FairSpec
CONSTANTS
    a = a  b = b  s1 = s1  s2 = s2  s3 = s3
    None = None
    Ids <- OneId
    SshIds <- OneId
    Sessions <- TwoSessions
    MaxAttempts = 3
PROPERTIES
    AttemptsMoveOn
    DeadLinkIsNoticed
    DeadLinkIsRetried
CHECK_DEADLOCK FALSE
