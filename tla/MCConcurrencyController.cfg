SPECIFICATION FairSpec
CONSTANTS
    o1 = o1  o2 = o2  o3 = o3  o4 = o4  o5 = o5
    Ops <- FiveOps
    MaxConcurrent = 2
    Hanging <- OneHangs
INVARIANTS
    CounterIsExact
PROPERTIES
    NoOvertaking
    ImplementsPool
    QueuedIsStarted
