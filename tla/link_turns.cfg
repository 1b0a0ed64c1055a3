SPECIFICATION LinkSpec
CONSTANTS
    caller = caller
    callee = callee
    Station = {caller, callee}
    PayloadModes = {safe}
    SafeMode = safe
    BroadcastMode = safe
    SessionIds = {1}
    SeqSpace = 2
    BurstFrames = 1
    CallSlots = 0
    AcceptSlots = 1
    DataSlots = 1
    DisconnectSlots = 0
    TurnReqRetries = 0
    ModeReqRetries = 0
    KeepaliveMissLimit = 1
    MaxUnits <- Writes21
    MaxRx = 1
    TxqBound = 1
    Commands <- Dial
CHECK_DEADLOCK FALSE
VIEW TillOverView
INVARIANTS
    DeliveredIsPrefix
    AckedIsDelivered
