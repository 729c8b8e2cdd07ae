SPECIFICATION FairSpec
CONSTANTS
    Sessions = {s1}
    Observers = {o1}
    Callers = {c1}
    MaxRevision = 2
INVARIANT DetachedPowerless LiveWorkOwned ReportHonest
PROPERTY ReloadAnswered
CHECK_DEADLOCK FALSE
