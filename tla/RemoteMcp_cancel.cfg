SPECIFICATION FairSpec
CONSTANTS
    i1 = i1
    i2 = i2
    n1 = n1
    c1 = c1
    x1 = x1
    a1 = a1
    d1 = d1
    d2 = d2
    NoId = NoId
    Calls = {i1, n1, c1, x1, a1}
    Method <- MethodOf
    Id <- IdOf
    TargetId <- NamedId
    TargetCalls = {i1, n1, c1}
    MaxContexts = 1
    MaxSerial = 3
    MaxControl = 1
    MaxNormal = 1
    MaxRunning = 3
    Pings = {i1, c1}
    Actors = {"revoke", "expire"}
INVARIANT HandshakePublished CancelledOnce RevokedContextsDead
PROPERTY RevokeDrains
CHECK_DEADLOCK FALSE
