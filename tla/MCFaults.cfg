SPECIFICATION FairSpec
CONSTANTS
    CounterMod = 256
    RecursionLevel = 2
    TcpTimestamps = TRUE
    TsTick = 8
    TickUsec = 1000000
    FirstSeqs = {1}
    SynSlack = 1
    SynOffsets = {3, 12}
    Bases = {1}
    MaxSeq = 2
    MaxPayload = 2
    MaxPackets = 3
    MaxAcks = 2
    MaxRecv = 1
    AllowRDB = FALSE
    AllowDrop = TRUE
    AllowKeepAlive = TRUE
    AllowReorder = TRUE
    AllowDup = FALSE
INVARIANTS
    OwnBytesOnly
PROPERTIES
    CallsReturn
CHECK_DEADLOCK FALSE
