SPECIFICATION SojSpec
CONSTANTS
    CounterMod = 256
    RecursionLevel = 1500
    TcpTimestamps = TRUE
    TsTick = 1
    TickUsec = 1000000
    FirstSeqs = {1000}
    SynSlack = 10
    SynOffsets = {}
    Bases = {0, 1}
    MaxSeq = 4
    MaxPayload = 3
    MaxPackets = 3
    MaxAcks = 0
    MaxRecv = 2
    AllowRDB = TRUE
    AllowDrop = FALSE
    AllowKeepAlive = FALSE
    AllowReorder = FALSE
    AllowDup = TRUE
INVARIANTS
    SojTypeOK
    Disjoint
    CallInv
    NoFailure
    RecvdPacketsAccounted
    ReceivedMatched
    DelayFromMatchUnbundled
    LostBytesExact
    IntervalLossSound
    SojournAttribution
    SojournNonNegative
    SojournStopsAtEnd
PROPERTIES
    RefinesLedger
CHECK_DEADLOCK FALSE
