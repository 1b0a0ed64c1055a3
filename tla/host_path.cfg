SPECIFICATION FairSpec
CONSTANTS
    CmdSlots = 1
    PayloadSlots = 1
    TncSlots = 1
    EvqSlots = 2
    TxRoom = 1
    RxRoom = 2
    MaxInputs = 3
    FrameLens = {1, 2}
    Commands = {"CONNECT", "DISCONNECT", "ABORT"}
CHECK_DEADLOCK FALSE
INVARIANTS
    TypeOK
    TxReadNeverWaits
PROPERTIES
    NoStaleAfterConnected
    ReactorServes
    LoopServes
