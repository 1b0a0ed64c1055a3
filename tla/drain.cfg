SPECIFICATION FairSpec
CONSTANTS
    Station = {a}
    PayloadModes = {safe}
    SafeMode = safe
    BroadcastMode = safe
    SessionIds = {1}
    SeqSpace = 2
    BurstFrames = 1
    CallSlots = 1
    AcceptSlots = 1
    DataSlots = 1
    DisconnectSlots = 1
    TurnReqRetries = 1
    ModeReqRetries = 1
    KeepaliveMissLimit = 1
    MaxUnits <- OneUnit
    MaxRx = 1
    TxqBound = 1
    Commands <- DialCommands
CHECK_DEADLOCK FALSE
PROPERTY DeferredDisconnectEnds
