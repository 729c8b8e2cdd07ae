SPECIFICATION FairRelaySpec
CONSTANTS
    ByteLimit <- Uneven
    MaxChunk = 2
    MaxRounds = 2
    Idle = 2
    Lifetime = 3
    MaxTime = 3
    GateCauses = {"ObservationUnavailable", "OrderlyEnd"}
INVARIANT ObservedFirst OrderlyMeansDrained
PROPERTY IoOnlyInTime EndsAtDeadline
CHECK_DEADLOCK FALSE
