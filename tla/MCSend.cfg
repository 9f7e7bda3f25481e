SPECIFICATION Spec
CONSTANTS
    CounterMod = 256
    RecursionLevel = 1500
    TcpTimestamps = TRUE
    TsTick = 1
    TickUsec = 1500000
    FirstSeqs = {1000}
    SynSlack = 10
    SynOffsets = {2}
    Bases = {0, 1}
    MaxSeq = 4
    MaxPayload = 3
    MaxPackets = 4
    MaxAcks = 0
    MaxRecv = 0
    AllowRDB = TRUE
    AllowDrop = FALSE
    AllowKeepAlive = FALSE
    AllowReorder = FALSE
    AllowDup = FALSE
INVARIANTS
    TypeOK
    TallyInv
    PartitionInv
    LastSeqAligned
    TotalsConserved
    BytesAccounted
    PacketsAccounted
    RedundantBytesAgreeUnbundled
    PacketsAdjusted
    DurationExact
    ValidateSilent
    PacketStatsExact
PROPERTIES
    HistoryStable
    RefinesLedger
CHECK_DEADLOCK FALSE
