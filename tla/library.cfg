SPECIFICATION LibrarySpec
CONSTANTS
    CodeBits = 24
    ReadAhead = 16
    MaxOutput = 16
    FrameSize = 5
    MaxPayload = 6
    b1 = b1
    b2 = b2
    Stations = {b1, b2}
    RingFrames = 1
    ClientFrames <- MCFrames
    MaxClients = 2
    MaxWritten = 2
    JunkBytes <- MCJunk
    MaxJunk = 4
    Writers = {w1, w2}
    Readers = {r1, r2}
    Msgs = {m1, m2}
    Capacity = 2
    Loggers = {t1, t2}
    LogFiles = {f1, f2}
    LogCapacity = 2
    Me = me
    Peers = {p1, p2}
    MaxCalls = 1
    MaxInbox = 1
CHECK_DEADLOCK FALSE
INVARIANTS
    RingIsQueue
    ModeSettles
    ModeWithinBandwidth
    DataLengthKept
    CallKeepsCallsign
    BroadcastKept
    KissResyncs
    TypeOK
    NoLostWakeup
    CloseWakesAll
    SelectWaitsOvertaken
    NobodyOversleeps
    ShutdownWakesAll
    EntryHasItsFile
    SourceIsCaller
    ListenObeyed
PROPERTIES
    ImplementsFifo
    ShutdownPrintsAll
