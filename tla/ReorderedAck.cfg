SPECIFICATION Spec
CONSTANTS
    CounterMod = 256
    RecursionLevel = 1500
    TcpTimestamps = TRUE
    TsTick = 1
    TickUsec = 1000000
    FirstSeqs = {1000}
    SynSlack = 10
    SynOffsets = {}
    Bases = {0, 1}
    MaxSeq = 4
    MaxPayload = 3
    MaxPackets = 2
    MaxAcks = 2
    MaxRecv = 0
    AllowRDB = FALSE
    AllowDrop = FALSE
    AllowKeepAlive = FALSE
    AllowReorder = TRUE
    AllowDup = FALSE
INVARIANTS
    FirstAckTime
CHECK_DEADLOCK FALSE
