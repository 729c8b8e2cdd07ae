SPECIFICATION Spec
CONSTANTS
    Owner = owner
    Slots = {1}
    Flows = {"req", "best"}
    Sessions = {"s1", "s2"}
    SessionOf <- FlowSession
    RequiredFlows = {"req"}
    Streams = {"agent", "upstream"}
    Classes = {"metadata", "content"}
    Size <- ClassSize
    Updates <- SmallUpdates
    Grants <- SmallGrants
    MaxEvents = 3
    MaxBytes = 5
    SessionBytes = 4
    MaxIds = 3
    MaxEpoch = 2
    Readers = {owner, 1}
    Outages = TRUE
INVARIANT RequiredKept NoSilentLoss IdentitiesDense
CHECK_DEADLOCK FALSE
