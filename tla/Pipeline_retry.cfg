SPECIFICATION FairSpec
CONSTANTS
    s1 = s1
    o1 = o1
    c1 = c1
    c2 = c2
    t1 = t1
    NoSession = NoSession
    Sessions = {s1}
    Ops = {o1}
    Calls = {c1, c2}
    Operators = {t1}
    Owner <- RetryOwner
    Target <- RetryTarget
    NeedsApproval = {o1}
    MaxSessions = 1
    MaxActive = 1
    MaxPending = 1
    MaxSessionOps = 2
    MaxHostOps = 2
    MaxLease = 3
INVARIANT RevokeSettles CredentialAsApproved CloseReachesAll PermitsConserved
PROPERTY ImplementsLifecycle RevocationConverges
CHECK_DEADLOCK FALSE
