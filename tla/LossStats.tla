------------------------------ MODULE LossStats ------------------------------
(***************************************************************************)
(* What is made of the receiver's trace: which transmission of a range     *)
(* arrived first (ByteRange::matchReceivedType), the bytes lost            *)
(* (RangeManager::calculateRealLoss) and the loss in intervals of time     *)
(* (RangeManager::calculateLossGroupedByInterval).  The transmissions in   *)
(* wire that are left when the receiver's trace has been read are the ones *)
(* that were lost.                                                         *)
(***************************************************************************)
EXTENDS RangeStats

-----------------------------------------------------------------------------
(* ByteRange::matchReceivedType *)

\* tstamps_tcp and rdb_tstamps_tcp, as the entries of the one list.
tstamps_tcp(r) == {i \in DOMAIN r.sent_tstamp_pcap : ~r.sent_tstamp_pcap[i].rdb}
rdb_tstamps_tcp(r) == {i \in DOMAIN r.sent_tstamp_pcap : r.sent_tstamp_pcap[i].rdb}

\* The index in tstamps_tcp, counted from 1, of an entry of it.
IndexIn(list, i) == Cardinality({n \in list : n <= i})

\* The entries of a list that have the timestamp received first.
Matches(r, list) ==
    {i \in list : tstamp_tcp(r.sent_tstamp_pcap[i].time) = r.received_tstamp_tcp}

\* Mutant of matchReceivedType: the last match is taken.
matchReceivedTypeLast(r) ==
    LET regular == Matches(r, tstamps_tcp(r))
        bundled == Matches(r, rdb_tstamps_tcp(r))
        index == Cardinality(tstamps_tcp(r))
    IN CASE regular # {} -> [recv_type |-> IF index > 1 THEN "RETR" ELSE "DATA",
                             send_tcp_stamp_recv_index |-> index]
         [] OTHER -> [recv_type |-> IF bundled # {} THEN "RDB" ELSE "DEF",
                      send_tcp_stamp_recv_index |-> 1]

\* The type of the transmission and its index in tstamps_tcp; a bundle leaves
\* the index at the first entry.
matchReceivedType(r) ==
    LET regular == Matches(r, tstamps_tcp(r))
        bundled == Matches(r, rdb_tstamps_tcp(r))
        index == IndexIn(tstamps_tcp(r), Min(regular))
    IN CASE regular # {} -> [recv_type |-> IF index > 1 THEN "RETR" ELSE "DATA",
                             send_tcp_stamp_recv_index |-> index]
         [] OTHER -> [recv_type |-> IF bundled # {} THEN "RDB" ELSE "DEF",
                      send_tcp_stamp_recv_index |-> 1]

\* calculateRecvDiff: the time the one-way delay is measured from.
DelayedFrom(r) ==
    r.sent_tstamp_pcap[matchReceivedType(r).send_tcp_stamp_recv_index].time

-----------------------------------------------------------------------------
(* calculateRealLoss *)

lost_count(k) == ranges[k].data_sent_count - ranges[k].data_received_count

analysed_lost_bytes == Total([k \in Keys |-> lost_count(k) * byte_count(k)])

-----------------------------------------------------------------------------
(* calculateLossGroupedByInterval, for intervals of aggr capture times. *)

intervalIdx(time, aggr) == (time - 1) \div aggr

\* "all bytes sent (incl. retrans) within interval"
total_bytes(b, aggr) ==
    Total([k \in Keys |-> byte_count(k) *
             Cardinality({i \in DOMAIN ranges[k].sent_tstamp_pcap :
                             intervalIdx(ranges[k].sent_tstamp_pcap[i].time, aggr) = b})])

\* "all bytes lost (incl. retrans) within interval"
loss_bytes(b, aggr) ==
    Total([k \in Keys |-> byte_count(k) *
             Cardinality({t \in ranges[k].lost_tstamps_tcp : intervalIdx(t, aggr) = b})])

\* "new bytes sent (new data) within interval"
total_new_bytes(b, aggr) ==
    Total([k \in Keys |->
             IF ranges[k].packet_sent_count > 0 /\ intervalIdx(getSendTime(ranges[k]), aggr) = b
             THEN ranges[k].original_payload_size ELSE 0])

Intervals(aggr) == 0 .. intervalIdx(clock, aggr)

-----------------------------------------------------------------------------
(* Properties. *)

\* The receiver's trace is being read, and no segment of it is half registered.
Received == op = "idle" /\ phase = "recv"

ReceivedRanges == {k \in WithData : ranges[k].data_received_count > 0}

\* "Find which data packet was received first" (matchReceivedType): the
\* timestamp that a range keeps is the one with which each of its bytes arrived
\* first, however later segments split the range, and it is found in one of the
\* lists of the sender.
ReceivedMatched ==
    Received => \A k \in ReceivedRanges :
        /\ matchReceivedType(ranges[k]).recv_type # "DEF"
        /\ Piece(k, ranges[k].endSeq, ranges[k].received_tstamp_tcp) \subseteq arrived

\* "Store the index of the send packet that matches the first received packet"
\* (matchReceivedType): the one-way delay is measured from the transmission that
\* arrived first.
DelayFromMatch ==
    Received => \A k \in ReceivedRanges :
        tstamp_tcp(DelayedFrom(ranges[k])) = ranges[k].received_tstamp_tcp

\* It is as long as no segment bundles old and new data: the index counts the
\* regular transmissions only, and is used in the list of all of them.
DelayFromMatchUnbundled == conn.bundleCount = 0 => DelayFromMatch

\* The bytes on the wire that no segment of the receiver's trace has.
LostOnWire == {p \in wire : base <= p.seq /\ p.seq < nxt}

\* "Bytes Lost (actual loss on receiver side)" is the number of transmissions of
\* bytes that did not arrive, less the bytes that the network delivered twice;
\* without those no range has been received more often than it was sent, which
\* would wrap the unsigned total.
LostBytesExact ==
    Received => /\ analysed_lost_bytes = Cardinality(LostOnWire) - dups
                /\ dups = 0 => \A k \in WithData : lost_count(k) >= 0

\* The loss by interval only has transmissions that were really lost, in the
\* interval in which they were sent, whatever the order in which segments and
\* parts of segments arrive, and no interval loses more than it sent, so that
\* the totals it is divided by (tc[idx], tb[idx]) exist.  (A pure ack counts as
\* lost data if data later takes its sequence number.)
IntervalLossSound ==
    Received /\ (\A k \in WithData : ranges[k].acked_sent = 0) =>
        \A aggr \in 1 .. 2 : \A b \in Intervals(aggr) :
            /\ loss_bytes(b, aggr) <= Cardinality({p \in LostOnWire :
                   \E t \in 1 .. clock : p.ts = tstamp_tcp(t) /\ intervalIdx(t, aggr) = b})
            /\ loss_bytes(b, aggr) <= total_bytes(b, aggr)
            /\ conn.bundleCount = 0 => total_new_bytes(b, aggr) <= total_bytes(b, aggr)

-----------------------------------------------------------------------------
(* Why ReceivedMatched and DelayFromMatchUnbundled hold. *)

\* The segment in hand, of the sender's or of the receiver's trace, has byte x.
Sending(x) == Inserting /\ frame.start <= x /\ x < frame.end
Receiving(x) == op = "insert" /\ ~SENT /\ frame.start <= x /\ x < frame.end

\* The range at k has a transmission with the timestamp ts.
SentWith(k, ts) ==
    \E t \in Sendings(ranges[k].sent_tstamp_pcap) : tstamp_tcp(t.time) = ts

\* The range of byte x has been received.
ByteReceived(x) == \E k \in Keys : Covers(k, x) /\ ranges[k].data_received_count # 0

InStream(p) == base <= p.seq /\ p.seq < nxt

\* A byte in the network has a transmission with its timestamp in its range,
\* or gets it from the segment in hand.
TransmissionKnown(p) ==
    \/ Sending(p.seq) /\ p.ts = tstamp_tcp(seg.time)
    \/ \E k \in Keys : Covers(k, p.seq) /\ SentWith(k, p.ts)

\* A byte that has arrived is in a range received, or in the segment in hand.
ArrivalKnown(p) == ByteReceived(p.seq) \/ (Receiving(p.seq) /\ p.ts = seg.tstamp_tcp)

\* The segment in hand is the first arrival of its bytes, or their range has
\* been received.
SegmentArrived ==
    \A x \in base .. nxt - 1 :
        Receiving(x) => [seq |-> x, ts |-> seg.tstamp_tcp] \in arrived \/ ByteReceived(x)

\* A range received has the timestamp with which its bytes arrived first, and
\* counts no more segments than there were.
RangeArrived(k) ==
    LET r == ranges[k]
        pending == op = "insert" /\ ~SENT /\ r.endSeq > frame.start
    IN HasBytes(k) =>
         /\ r.data_received_count # 0 =>
              \A x \in k .. r.endSeq - 1 : [seq |-> x, ts |-> r.received_tstamp_tcp] \in arrived
         /\ r.data_received_count + (IF pending THEN 1 ELSE 0) <= recvNo

\* Only bundles make bundled transmissions.
Regular(k) ==
    conn.bundleCount = 0 => \A t \in Sendings(ranges[k].sent_tstamp_pcap) : ~t.rdb

\* The inductive invariant behind ReceivedMatched and DelayFromMatchUnbundled.
ArrivalInv ==
    /\ \A p \in wire \cup arrived : InStream(p) => TransmissionKnown(p)
    /\ \A p \in arrived : InStream(p) => ArrivalKnown(p)
    /\ SegmentArrived
    /\ \A k \in Keys : RangeArrived(k) /\ Regular(k)
    /\ tcp = "open" => \A p \in wire : p.seq < nxt

=============================================================================
