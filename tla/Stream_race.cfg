SPECIFICATION OwnedSpec
CONSTANTS
    s1 = s1
    o1 = o1
    Sessions = {s1}
    Streams = {o1}
    Owner <- SoloOwner
    NeedsApproval = {o1}
    MaxAttach = 1
    MaxHostAttach = 1
    MaxActive = 1
    MaxHostActive = 1
    MaxApprovals = 1
    MaxTracked = 2
    MaxUnits = 2
    Actors = {"retire", "expire", "revoke", "cancel", "abort"}
INVARIANT DialReported RevokeEndsStreams OutcomeCoherent
PROPERTY DeadlineReaps PermitsReturn
CHECK_DEADLOCK FALSE
