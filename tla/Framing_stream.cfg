SPECIFICATION FairSpec
CONSTANTS
    AppSizes = {0, 3, 4}
    SendLimit = 3
    ReceiveLimit = 3
    MaxData = 2
    MaxFrames = 2
    Cap = 2
    Backlog = 1
    Faults = {"stop", "abort", "refuse"}
INVARIANT NoFalseAlarm BytesInOrder CompletedMeansAll
PROPERTY StreamEnds
CHECK_DEADLOCK FALSE
