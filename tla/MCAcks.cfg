SPECIFICATION FairSpec
CONSTANTS
    CounterMod = 2
    RecursionLevel = 1500
    TcpTimestamps = TRUE
    TsTick = 1
    TickUsec = 1000000
    FirstSeqs = {1000}
    SynSlack = 10
    SynOffsets = {}
    Bases = {0, 1}
    MaxSeq = 3
    MaxPayload = 2
    MaxPackets = 3
    MaxAcks = 2
    MaxRecv = 0
    AllowRDB = FALSE
    AllowDrop = FALSE
    AllowKeepAlive = FALSE
    AllowReorder = FALSE
    AllowDup = FALSE
INVARIANTS
    StreamCovered
    AckInv
    FirstAckTime
    DataLatencyNonNegative
    PifsExact
PROPERTIES
    HistoryStable
    CallsReturn
CHECK_DEADLOCK FALSE
