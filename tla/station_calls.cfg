SPECIFICATION Spec
CONSTANTS
    Station = {a}
    PayloadModes = {safe}
    SafeMode = safe
    BroadcastMode = safe
    SessionIds = {1, 2}
    SeqSpace = 3
    BurstFrames = 2
    CallSlots = 1
    AcceptSlots = 1
    DataSlots = 1
    DisconnectSlots = 1
    TurnReqRetries = 1
    ModeReqRetries = 1
    KeepaliveMissLimit = 1
    MaxUnits <- TwoUnits
    MaxRx = 1
    TxqBound = 1
    Commands <- AllCommands
CHECK_DEADLOCK FALSE
VIEW StationView
INVARIANTS
    TypeOK
    DeadlineFitsState
    HostInStep
    WindowIsTail
