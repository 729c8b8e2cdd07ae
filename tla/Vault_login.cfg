SPECIFICATION FairSpec
CONSTANTS
    g1 = g1
    g2 = g2
    h1 = h1
    p1 = p1
    l1 = l1
    f1 = f1
    s1 = s1
    o1 = o1
    Calls = {g1, g2, p1, l1, f1, s1, o1}
    Kind <- KindOf
    On <- OnOf
    MaxContexts = 2
    HostContexts = 2
    MaxTries = 1
    HostTries = 2
    MaxLease = 2
    MaxRunning = 2
    Actors = {"revoke", "expire", "rotate", "lock", "cancel", "others"}
INVARIANT DeadContextsEmpty   StaleLeaseNeverSent
PROPERTY IssuancesEnd
CHECK_DEADLOCK FALSE
