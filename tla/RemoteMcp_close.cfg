SPECIFICATION Spec
CONSTANTS
    i1 = i1
    i2 = i2
    n1 = n1
    c1 = c1
    x1 = x1
    a1 = a1
    d1 = d1
    d2 = d2
    NoId = NoId
    Calls = {i1, i2, n1, c1, d1, d2}
    Method <- MethodOf
    Id <- IdOf
    TargetId <- NamedId
    TargetCalls = {}
    MaxContexts = 2
    MaxSerial = 3
    MaxControl = 1
    MaxNormal = 1
    MaxRunning = 3
    Pings = {i1, c1}
    Actors = {"rotate", "lock"}
INVARIANT CallsAfterHandshake CloseBarrier
CHECK_DEADLOCK FALSE
SYMMETRY Alike
