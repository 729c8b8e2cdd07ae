SPECIFICATION Spec
CONSTANTS
    p1 = p1
    p2 = p2
    m1 = m1
    r1 = r1
    l1 = l1
    u1 = u1
    b1 = b1
    k1 = k1
    d1 = d1
    A = A
    B = B
    R = R
    Jobs = {p1, p2, m1, r1, d1, l1, u1, b1, k1}
    Op <- OpOf
    Key <- KeyOf
    Items = {"i"}
    FirstKey = A
    RecoveryKey = R
    MaxItems = 1
    Budget = 2
    MaxFresh = 7
    MaxCalls = 4
    Events = {"crash", "restore", "drop"}
SYMMETRY Writers
INVARIANT RetiredLeasesRefused NothingLost GenerationPerKey
CHECK_DEADLOCK FALSE
