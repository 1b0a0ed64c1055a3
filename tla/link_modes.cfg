SPECIFICATION LinkSpec
CONSTANTS
    caller = caller
    callee = callee
    Station = {caller, callee}
    PayloadModes = {safe, fast}
    SafeMode = safe
    BroadcastMode = safe
    SessionIds = {1}
    SeqSpace = 3
    BurstFrames = 2
    CallSlots = 0
    AcceptSlots = 1
    DataSlots = 1
    DisconnectSlots = 0
    TurnReqRetries = 0
    ModeReqRetries = 0
    KeepaliveMissLimit = 1
    MaxUnits <- Writes30
    MaxRx = 1
    TxqBound = 1
    Commands <- Dial
CHECK_DEADLOCK FALSE
VIEW LinkView
INVARIANTS
    DeliveredIsPrefix
    AckedIsDelivered
    NeverStranded
PROPERTY ModeKeptInFlight
