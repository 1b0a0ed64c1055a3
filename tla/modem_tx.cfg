SPECIFICATION FairSpec
CONSTANTS
    Ctl = "ctl"
    Size <- MCSize
    Base = "lo"
    Startup = "hi"
    QueueSlots = 1
    Ahead = 1
    Sends = 2
    Cqs = 1
    Broadcasts = 1
    Aborts = 1
    Inputs = 3
CHECK_DEADLOCK FALSE
INVARIANTS
    TypeOK
    ReadNeverWaits
    FramesWhole
PROPERTIES
    BurstEnds
    ControlGoesOut
