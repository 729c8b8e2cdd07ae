SPECIFICATION FairSpec
CONSTANTS
    s1 = s1
    o1 = o1
    Sessions = {s1}
    Streams = {o1}
    Owner <- SoloOwner
    NeedsApproval = {}
    MaxAttach = 1
    MaxHostAttach = 1
    MaxActive = 1
    MaxHostActive = 1
    MaxApprovals = 1
    MaxTracked = 1
    MaxUnits = 1
    Actors = {"retire", "revoke"}
PROPERTY CompletesUnderAuthority
CHECK_DEADLOCK FALSE
