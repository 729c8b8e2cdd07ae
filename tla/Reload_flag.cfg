SPECIFICATION Spec
CONSTANTS
    Sessions = {s1}
    Observers = {}
    Callers = {c1}
    MaxRevision = 2
PROPERTY DeadlineFlagRemains
CHECK_DEADLOCK FALSE
