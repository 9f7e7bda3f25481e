SPECIFICATION Spec
CONSTANTS
    CounterMod = 256
    RecursionLevel = 1500
    TcpTimestamps = TRUE
    TsTick = 1
    TickUsec = 1000000
    FirstSeqs = {1000}
    SynSlack = 10
    SynOffsets = {}
    Bases = {1}
    MaxSeq = 4
    MaxPayload = 2
    MaxPackets = 4
    MaxAcks = 0
    MaxRecv = 0
    AllowRDB = FALSE
    AllowDrop = FALSE
    AllowKeepAlive = TRUE
    AllowReorder = FALSE
    AllowDup = FALSE
INVARIANT
    RedundantBytesAgreeUnbundled
CHECK_DEADLOCK FALSE
