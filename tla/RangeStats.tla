----------------------------- MODULE RangeStats -----------------------------
(***************************************************************************)
(* The totals over all ranges that the statistics are made of              *)
(* (RangeManager::calculateRealLoss, Connection::getNumUniqueBytes) and    *)
(* how they relate to what registerSent counted packet by packet, and the  *)
(* ack latency of a range (ByteRange::getSendAckTimeDiff).  The whole      *)
(* connection is analysed (no --analyse-start, no --analyse-end).          *)
(***************************************************************************)
EXTENDS Connection, FiniteSetsExt

CONSTANT TickUsec   \* microseconds from one captured packet to the next

ASSUME TickAssumption == TickUsec \in Nat \ {0}

Total(value) == SumFunctionOnSet(value, Keys)

\* calculateRealLoss
analysed_bytes_sent ==
    Total([k \in Keys |-> byte_count(k) * ranges[k].data_sent_count])

analysed_redundant_bytes ==
    Total([k \in Keys |->
             byte_count(k) * (ranges[k].data_retrans_count + ranges[k].rdb_count)])

analysed_packet_sent_count_in_dump ==
    Total([k \in Keys |-> ranges[k].packet_sent_count + ranges[k].packet_retrans_count
                            + ranges[k].acked_sent])

\* The packets on the wire: a range with data counts as one packet, whatever the
\* dump shows.
analysed_packet_sent_count ==
    Total([k \in Keys |->
             ranges[k].syn + ranges[k].rst
               + (IF byte_count(k) = 0 THEN ranges[k].fin ELSE 1)
               + ranges[k].data_retrans_count + ranges[k].acked_sent])

analysed_packet_received_count ==
    Total([k \in Keys |-> ranges[k].packet_received_count])

WithData == {k \in Keys : byte_count(k) # 0}

\* The start of the first range with data.
first_data_seq == IF WithData = {} THEN 0 ELSE Min(WithData)

\* The end of the last range with data: the search from behind stops in front
\* of the very first range without looking at it.
last_data_seq ==
    LET searched == {k \in WithData : ~IsFirst(k)}
    IN IF searched = {} THEN 0 ELSE ranges[Max(searched)].endSeq

getNumUniqueBytes == last_data_seq - first_data_seq

\* RangeManager::validateContent: the warnings it prints.  The range behind the
\* first one may start anywhere, prev is not set before; lastSeq - 1 wraps if
\* lastSeq is 0.
validateContent ==
    LET lastEnd == ranges[Max(Keys)].endSeq
        gap(j, k) ==
            /\ j < k /\ ~\E i \in Keys : j < i /\ i < k
            /\ ~IsFirst(j)
            /\ k # ranges[j].endSeq
            /\ byte_count(j) # 0 /\ byte_count(k) # 0
    IN (IF Min(Keys) # 0 THEN {"firstSeq"} ELSE {})
         \cup (IF lastSeq # 0 /\ lastEnd \in {lastSeq - 1, lastSeq} THEN {}
               ELSE {"lastSeq"})
         \cup (IF TotalsConserved THEN {} ELSE {"totals"})
         \cup (IF \E j, k \in Keys : gap(j, k) THEN {"gap"} ELSE {})

\* ByteRange::getSendAckTimeDiff, which genStats calls for every range: 0 if
\* there is no ack time; a negative difference fails an assert.
getSendAckTimeDiff(k) ==
    IF ranges[k].ackTime = 0 THEN 0
    ELSE ranges[k].ackTime - getSendTime(ranges[k])

-----------------------------------------------------------------------------
(* Connection::setAnalyseRangeInterval.  The ranges are numbered from 1 in  *)
(* the order of the map.                                                    *)

Order == [i \in 1 .. Cardinality(Keys) |->
              CHOOSE k \in Keys : Cardinality({j \in Keys : j <= k}) = i]

\* Microseconds between the first transmissions of two ranges.
Usec(i, j) ==
    (getSendTime(ranges[Order[j]]) - getSendTime(ranges[Order[i]])) * TickUsec

\* tv_sec of timersub: the whole seconds, rounded down also if negative.
Elapsed(i, j) == Usec(i, j) \div 1000000

\* --analyse-start: the ranges skipped, all if none is sent late enough.
start_index(start) ==
    LET late == {i \in 1 .. Len(Order) : Elapsed(1, i) >= start}
    IN IF late = {} THEN Len(Order) ELSE Min(late) - 1

\* The iterator, which stays on the first range in that case.
analyse_range_start(start) ==
    IF start_index(start) = Len(Order) THEN 1 ELSE start_index(start) + 1

\* Mutant of analyse_range_last: the time is taken from the first range.
analyse_range_lastFromFirst(start, duration) ==
    LET Indices == 0 .. Len(Order)
        search[begin \in Indices, lo \in Indices, hi \in Indices] ==
            LET advance == (hi - lo) \div 2
            IN IF advance = 0 THEN begin
               ELSE IF Elapsed(1, begin + advance) <= duration
               THEN search[begin + advance, lo + advance, hi]
               ELSE search[begin, lo, hi - advance]
    IN search[analyse_range_start(start), start_index(start), Len(Order)]

\* --analyse-duration: binary search.
analyse_range_last(start, duration) ==
    LET Indices == 0 .. Len(Order)
        search[begin \in Indices, lo \in Indices, hi \in Indices] ==
            LET advance == (hi - lo) \div 2
            IN IF advance = 0 THEN begin
               ELSE IF Elapsed(analyse_range_start(start), begin + advance) <= duration
               THEN search[begin + advance, lo + advance, hi]
               ELSE search[begin, lo, hi - advance]
    IN search[analyse_range_start(start), start_index(start), Len(Order)]

-----------------------------------------------------------------------------

\* The bytes sent, computed from the ranges (calculateRealLoss), are the bytes
\* that registerSent counted packet by packet.
BytesAccounted == op = "idle" => analysed_bytes_sent = conn.totBytesSent

\* getSendAckTimeDiff: "since ackTime will always be bigger than
\* sent_tstamp_pcap", so that a negative latency "should not be possible".
LatencyNonNegative == op = "idle" => \A k \in Keys : getSendAckTimeDiff(k) >= 0

\* It is not for a range with bytes: they are acked after they were first sent,
\* however often they are sent again, split or filled into an empty range.
DataLatencyNonNegative ==
    op = "idle" => \A k \in WithData : getSendAckTimeDiff(k) >= 0

\* calculateRealLoss: "This should be the number of packets found in the
\* dump", as long as no segment bundles old and new data.
PacketsAccounted ==
    op = "idle" /\ conn.bundleCount = 0 =>
        analysed_packet_sent_count_in_dump = conn.nrPacketsSent

\* "analysed_packet_sent_count is the number of (adjusted) packets sent, which
\* will be greater" (calculateRealLoss): never fewer than in the dump, again
\* without bundles.
PacketsAdjusted ==
    op = "idle" /\ conn.bundleCount = 0 => analysed_packet_sent_count >= analysed_packet_sent_count_in_dump

\* The same of the receiver's trace.
RecvdPacketsAccounted == op = "idle" => analysed_packet_received_count = recvNo

\* addConnStats: "redundant bytes and (bytes_sent - UniqueBytes) which should
\* be equal".
RedundantBytesAgree ==
    op = "idle" => analysed_bytes_sent - getNumUniqueBytes = analysed_redundant_bytes

\* They are as long as no segment bundles old and new data, if the first range
\* is not the only one with data: that of a SYN is not.
RedundantBytesAgreeUnbundled ==
    conn.bundleCount = 0 /\ base = 1 => RedundantBytesAgree

\* validateContent has nothing to warn about when the connection is open and
\* sent at least a byte or a SYN, however retransmissions have split the ranges.
ValidateSilent ==
    op = "idle" /\ tcp = "open" /\ Keys # {} /\ nxt > 0 => validateContent = {}

\* --analyse-duration: the binary search finds exactly the ranges sent less than
\* duration + 1 seconds after the first one, the second more because it "does not
\* take into account milliseconds".  This needs the map's order to be the order
\* of the first transmissions.  It is until a FIN is sent: one sent again alone
\* gets a range in front of a pure ack sent before.
DurationExact ==
    op = "idle" /\ tcp = "open" /\ Keys # {} =>
        \A start \in 0 .. MaxPackets, duration \in 1 .. MaxPackets :
            start_index(start) < Len(Order) =>
                LET first == analyse_range_start(start)
                    last == analyse_range_last(start, duration)
                IN \A i \in first .. Len(Order) :
                     i <= last <=> Usec(first, i) < (duration + 1) * 1000000

-----------------------------------------------------------------------------
(* Why the totals agree with what registerSent counted, for a regular       *)
(* trace that is so short that no counter of a range wraps.                 *)

ShortTrace == MaxPackets < CounterMod /\ MaxRecv < CounterMod

\* registerSent knows the end of the stream.
LargestSeen ==
    /\ conn.nrPacketsSent <= MaxPackets /\ recvNo <= MaxRecv
    /\ Inserting => conn.nrPacketsSent > 0
    /\ IF nxt = base THEN conn.lastLargestEndSeq = 0 /\ conn.lastLargestStartSeq = 0
       ELSE conn.lastLargestEndSeq = nxt /\ conn.lastLargestStartSeq < nxt

\* The segment in hand is a bundle, or data that is all in the ranges, or data
\* that is all new and of which nothing is registered yet.
SegmentClassified ==
    /\ seg.is_rdb => conn.bundleCount > 0
    /\ op = "insert" =>
         IF ZeroLength THEN Outermost /\ ~seg.retrans /\ ~seg.is_rdb
         ELSE seg.flag \in {"none", "fin"}
    /\ Inserting /\ ~seg.is_rdb =>
         IF seg.retrans
         THEN \A x \in frame.start .. frame.end - 1 : \E k \in Keys : Covers(k, x)
         ELSE Outermost /\ \A k \in Keys : ranges[k].endSeq <= frame.start

\* The counters of a range without bytes: its packets are a SYN, FIN or RST
\* each, and none of those is on a range that data may still fill.
EmptyTallied(k) ==
    LET r == ranges[k]
    IN conn.bundleCount = 0 =>
         /\ r.packet_sent_count + r.packet_retrans_count = r.syn + r.fin + r.rst
         /\ r.data_retrans_count = 0 /\ r.rdb_count = 0
         /\ base <= k /\ (tcp = "open" \/ k < nxt) =>
              r.packet_sent_count = 0 /\ r.packet_retrans_count = 0

\* Those of a range with bytes: no more transmissions than packets, the one in
\* hand left out if it has not come to this range, of which all but the first
\* are retransmissions if nothing is bundled.
DataTallied(k) ==
    LET r == ranges[k]
        pending == Inserting /\ r.endSeq > frame.start
    IN /\ r.data_sent_count + (IF pending THEN 1 ELSE 0) <= conn.nrPacketsSent
       /\ conn.bundleCount = 0 =>
            /\ r.syn = 0 /\ r.rst = 0 /\ r.rdb_count = 0
            /\ r.data_sent_count = r.data_retrans_count + 1
            /\ r.packet_sent_count + r.packet_retrans_count <= r.data_retrans_count + 1

Tallied(k) == IF HasBytes(k) THEN DataTallied(k) ELSE EmptyTallied(k)

\* The totals, with what is left of the segment in hand.
TotalsPending ==
    LET rest == frame.end - frame.start
    IN /\ analysed_bytes_sent + (IF Inserting THEN rest ELSE 0) = conn.totBytesSent
       /\ conn.bundleCount = 0 =>
            /\ analysed_packet_sent_count_in_dump
                 + (IF op = "insert" /\ SENT /\ Outermost THEN 1 ELSE 0) = conn.nrPacketsSent
            /\ Total([k \in Keys |-> byte_count(k)])
                 + (IF Inserting /\ ~seg.retrans THEN rest ELSE 0) = nxt - base
       /\ analysed_packet_received_count
            + (IF op = "insert" /\ ~SENT /\ Outermost THEN 1 ELSE 0) = recvNo

\* A SYN or FIN that the network has to deliver has a range, or is about to get
\* one, and so has every segment without payload that the receiver captured.
EmptyKnown ==
    /\ \A p \in wire : p.seq >= nxt =>
         \/ p.seq \in Keys
         \/ op = "insert" /\ SENT /\ ZeroLength /\ seg.flag # "none" /\ frame.start = p.seq
    /\ op = "insert" /\ ~SENT /\ ZeroLength => start_seq \in Keys

\* The inductive invariant behind the totals.
TallyInv ==
    /\ LargestSeen
    /\ SegmentClassified
    /\ EmptyKnown
    /\ \A k \in Keys : Tallied(k)
    /\ TotalsPending

=============================================================================
