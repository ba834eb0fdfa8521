SPECIFICATION FairSpec
CONSTANTS
    Packets = {p1, p2}
    NumSw = 1
    RxThreads = {r}
    CtlThreads = {c}
    QueueCap = 2
    MaxStore = 1
    NumIds = 2
    Budget = 1
    Rounds = 2
    PipeSize = 1
    DrainMax = 1
    MayDestroy = {1}
    Quiesced = TRUE
    MaxPending = 2
    NoPacket = NoPacket
INVARIANT TypeOK   Throttled
PROPERTY PacketInServed StoredPacketExpires
