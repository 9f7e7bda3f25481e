SPECIFICATION Spec
CONSTANTS
    CounterMod = 256
    RecursionLevel = 1500
    TcpTimestamps = TRUE
    TsTick = 1
    TickUsec = 1000000
    FirstSeqs = {1000}
    SynSlack = 10
    SynOffsets = {12}
    Bases = {1}
    MaxSeq = 13
    MaxPayload = 13
    MaxPackets = 4
    MaxAcks = 0
    MaxRecv = 0
    AllowRDB = FALSE
    AllowDrop = FALSE
    AllowKeepAlive = FALSE
    AllowReorder = FALSE
    AllowDup = FALSE
INVARIANT
    LaterBytesIgnored
CHECK_DEADLOCK FALSE
