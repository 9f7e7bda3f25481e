------------------------------ MODULE ByteRange ------------------------------
(***************************************************************************)
(* One element of RangeManager's map: the bytes [startSeq, endSeq) that    *)
(* share their send and acknowledgement history (ByteRange.h).  startSeq   *)
(* is the key in the map, so a record holds endSeq and the counters;       *)
(* byte_count is endSeq - startSeq.  The uint8_t counters wrap at          *)
(* CounterMod.                                                             *)
(*                                                                         *)
(* sent_tstamp_pcap is the list of transmissions.  tstamps_tcp and         *)
(* rdb_tstamps_tcp are the TCP timestamps of its entries, one list for     *)
(* those without rdb and one for those with: every function of the program *)
(* that changes one of the three changes the others alike.                 *)
(* lost_tstamps_tcp, which is in the order of time, is the set of the      *)
(* capture times of the transmissions not seen received.  The index        *)
(* sent_data_pkt_pcap_index, -1 in the program if there is none, is        *)
(* computed from the list.                                                 *)
(***************************************************************************)
EXTENDS Integers, Sequences

CONSTANTS
    CounterMod,         \* 256 in the program
    TcpTimestamps,      \* do the packets carry the TCP timestamp option?
    TsTick              \* capture times in one tick of the TCP timestamp clock

ASSUME CounterModAssumption == CounterMod \in Nat \ {0, 1}
ASSUME TcpTimestampsAssumption == TcpTimestamps \in BOOLEAN
ASSUME TsTickAssumption == TsTick \in Nat \ {0}

\* received_tstamp_pcap is not set by the constructor nor by split.
Uninit == -1

SentTypes == {"ST_NONE", "ST_PKT", "ST_RTR", "ST_PURE_ACK", "ST_RST"}

Counters == 0 .. CounterMod - 1

Transmissions == [time : Nat, sent_t : SentTypes, rdb : BOOLEAN]
SentLists == Seq(Transmissions)
LostTimes == SUBSET Nat

ByteRanges ==
    [endSeq : Nat,
     packet_sent_count : Counters, packet_retrans_count : Counters,
     data_sent_count : Counters, data_retrans_count : Counters,
     rdb_count : Counters, acked_sent : Counters,
     syn : Counters, fin : Counters, rst : Counters,
     original_payload_size : Int,
     sent_tstamp_pcap : SentLists, lost_tstamps_tcp : LostTimes,
     packet_received_count : Counters, data_received_count : Counters,
     received_tstamp_pcap : Nat \cup {Uninit}, received_tstamp_tcp : Nat,
     acked : BOOLEAN, ackTime : Nat, ack_count : Counters]

\* The constructor, for a range from start.
newByteRange(start, end) ==
    [endSeq |-> end,
     packet_sent_count |-> 0, packet_retrans_count |-> 0,
     data_sent_count |-> 0, data_retrans_count |-> 0,
     rdb_count |-> 0, acked_sent |-> 0,
     syn |-> 0, fin |-> 0, rst |-> 0,
     original_payload_size |-> end - start,
     sent_tstamp_pcap |-> <<>>, lost_tstamps_tcp |-> {},
     packet_received_count |-> 0, data_received_count |-> 0,
     received_tstamp_pcap |-> Uninit, received_tstamp_tcp |-> 0,
     acked |-> FALSE, ackTime |-> 0, ack_count |-> 0]

\* n++ on a uint8_t, if cond.
Add(n, cond) == IF cond THEN (n + 1) % CounterMod ELSE n

\* The TCP timestamp of a packet sent at time; 0 if there is none.
tstamp_tcp(time) == IF TcpTimestamps THEN 1 + time \div TsTick ELSE 0

Transmission(time, rdb, t) == [time |-> time, sent_t |-> t, rdb |-> rdb]

\* sent_tstamp_pcap[0].first
getSendTime(r) == IF r.sent_tstamp_pcap = <<>> THEN 0 ELSE r.sent_tstamp_pcap[1].time

\* Mutant of increase_sent: a pure ack counts as data, a retransmission does not.
increase_sentPureAck(r, time, rdb, sent_t) ==
    [r EXCEPT
        !.packet_sent_count = Add(@, sent_t \in {"ST_PKT", "ST_RST"}),
        !.packet_retrans_count = Add(@, sent_t = "ST_RTR"),
        !.acked_sent = Add(@, sent_t = "ST_PURE_ACK"),
        !.data_sent_count = Add(@, sent_t \notin {"ST_RTR", "ST_RST"}),
        !.sent_tstamp_pcap = Append(@, Transmission(time, rdb, sent_t)),
        !.lost_tstamps_tcp = @ \cup {time}]

\* Mutant of increase_sent: the latest transmission replaces the first.
increase_sentLatest(r, time, rdb, sent_t) ==
    [r EXCEPT
        !.packet_sent_count = Add(@, sent_t \in {"ST_PKT", "ST_RST"}),
        !.packet_retrans_count = Add(@, sent_t = "ST_RTR"),
        !.acked_sent = Add(@, sent_t = "ST_PURE_ACK"),
        !.data_sent_count = Add(@, sent_t \notin {"ST_PURE_ACK", "ST_RST"}),
        !.sent_tstamp_pcap = <<Transmission(time, rdb, sent_t)>>,
        !.lost_tstamps_tcp = @ \cup {time}]

increase_sent(r, time, rdb, sent_t) ==
    [r EXCEPT
        !.packet_sent_count = Add(@, sent_t \in {"ST_PKT", "ST_RST"}),
        !.packet_retrans_count = Add(@, sent_t = "ST_RTR"),
        !.acked_sent = Add(@, sent_t = "ST_PURE_ACK"),
        !.data_sent_count = Add(@, sent_t \notin {"ST_PURE_ACK", "ST_RST"}),
        !.sent_tstamp_pcap = Append(@, Transmission(time, rdb, sent_t)),
        !.lost_tstamps_tcp = @ \cup {time}]

\* The first entry of lost_tstamps_tcp with the timestamp of the segment.
FirstLost(r, ts) ==
    {t \in r.lost_tstamps_tcp :
        /\ tstamp_tcp(t) = ts
        /\ \A u \in r.lost_tstamps_tcp : tstamp_tcp(u) = ts => t <= u}

\* Mutant of increase_received: the latest segment gives the timestamp.
increase_receivedLatest(r, ts, time) ==
    [r EXCEPT
        !.received_tstamp_pcap = time,
        !.received_tstamp_tcp = ts,
        !.data_received_count = Add(@, TRUE),
        !.lost_tstamps_tcp = @ \ FirstLost(r, ts)]

\* Mutant of increase_received: the oldest transmission is taken for the one
\* that arrived.
increase_receivedOldest(r, ts, time) ==
    [r EXCEPT
        !.received_tstamp_pcap = IF r.data_received_count = 0 THEN time ELSE @,
        !.received_tstamp_tcp = IF r.data_received_count = 0 THEN ts ELSE @,
        !.data_received_count = Add(@, TRUE),
        !.lost_tstamps_tcp = {t \in @ : \E u \in @ : u < t}]

increase_received(r, ts, time) ==
    [r EXCEPT
        !.received_tstamp_pcap = IF r.data_received_count = 0 THEN time ELSE @,
        !.received_tstamp_tcp = IF r.data_received_count = 0 THEN ts ELSE @,
        !.data_received_count = Add(@, TRUE),
        !.lost_tstamps_tcp = @ \ FirstLost(r, ts)]

insertAckTime(r, time) == [r EXCEPT !.ackTime = time, !.acked = TRUE]

\* Mutant of NoPackets: the copies still count as packets.
NoPacketsKept(r) == r.sent_tstamp_pcap

\* The transmissions of r, none of which counts as a packet.
NoPackets(r) ==
    [i \in DOMAIN r.sent_tstamp_pcap |-> [r.sent_tstamp_pcap[i] EXCEPT !.sent_t = "ST_NONE"]]

\* Mutant of split: the new range starts with fresh transmission counters.
splitFresh(r, at) ==
    [newByteRange(at, r.endSeq) EXCEPT
        !.sent_tstamp_pcap = NoPackets(r),
        !.ackTime = r.ackTime,
        !.acked = r.acked]

\* Mutant of split: the new range has not been received.
splitUnreceived(r, at) ==
    [newByteRange(at, r.endSeq) EXCEPT
        !.data_retrans_count = r.data_retrans_count,
        !.data_sent_count = r.data_sent_count,
        !.sent_tstamp_pcap = NoPackets(r),
        !.ackTime = r.ackTime,
        !.acked = r.acked]

\* The new range that splitEnd makes for the bytes of r from at; what it does
\* not copy keeps the constructor's value.
split(r, at) ==
    [newByteRange(at, r.endSeq) EXCEPT
        !.data_retrans_count = r.data_retrans_count,
        !.data_sent_count = r.data_sent_count,
        !.data_received_count = r.data_received_count,
        !.received_tstamp_tcp = r.received_tstamp_tcp,
        !.sent_tstamp_pcap = NoPackets(r),
        !.ackTime = r.ackTime,
        !.acked = r.acked]

\* Mutant of Truncate: the end is taken for the last byte.
TruncateShort(r, end) == [r EXCEPT !.endSeq = end - 1]

\* What splitEnd leaves of r itself.
Truncate(r, end) == [r EXCEPT !.endSeq = end]

\* The capture times of the transmissions in a list that are packets.
PacketTimes(list) ==
    {list[i].time : i \in {n \in DOMAIN list : list[n].sent_t = "ST_PKT"}}

\* The capture times of the transmissions in a list, regular and bundled ones.
Sendings(list) == {[time |-> list[i].time, rdb |-> list[i].rdb] : i \in DOMAIN list}

=============================================================================
