---------------------------- MODULE PacketStats ----------------------------
(***************************************************************************)
(* The statistics of packets that RangeManager::genStats makes of the      *)
(* ranges: one entry for every transmission that is marked as a packet,    *)
(* with its size and the packets in flight.  The whole connection is       *)
(* analysed.                                                               *)
(***************************************************************************)
EXTENDS LossStats, SequencesExt

original_payload_size(i) == ranges[Order[i]].original_payload_size

\* The transmissions of the range numbered i that are packets.
Packets(i) ==
    LET list == ranges[Order[i]].sent_tstamp_pcap
        packet(t) == t.sent_t # "ST_NONE"
    IN [j \in DOMAIN SelectSeq(list, packet) |->
            [range |-> i, time |-> SelectSeq(list, packet)[j].time,
             type |-> SelectSeq(list, packet)[j].sent_t]]

\* bs->packet_stats before it is sorted: in the order of the map.
packet_stats == FlattenSeq([i \in DOMAIN Order |-> Packets(i)])

\* The payload: a retransmission that spans two ranges is noticed by the data
\* sent again in the next one.
packetSize(p) ==
    LET next == Order[p.range + 1]
    IN CASE p.type = "ST_PKT" -> original_payload_size(p.range)
         [] p.type = "ST_RTR" ->
              original_payload_size(p.range)
                + (IF /\ p.range < Len(Order)
                      /\ ranges[next].packet_retrans_count < ranges[next].data_retrans_count
                   THEN ranges[next].data_retrans_count * byte_count(next) ELSE 0)
         [] OTHER -> 0

\* Where the walk over the acknowledged ranges starts: the first with payload.
first_payload ==
    Min({i \in DOMAIN Order : original_payload_size(i) # 0} \cup {Len(Order) + 1})

\* The while loop of the walk stops at range i.  One that is not acked has the
\* time 0 and is passed.
stillInFlight(i, time) == i > Len(Order) \/ time <= ranges[Order[i]].ackTime

\* Mutant of last_acked: retransmissions move it, too.
last_ackedRetrans ==
    LET walk[n \in 0 .. Len(packet_stats)] ==
            LET p == packet_stats[n]
            IN IF n = 0 THEN first_payload
               ELSE IF p.type \in {"ST_PKT", "ST_RTR"} /\ ranges[Order[p.range]].acked
               THEN Min({i \in walk[n - 1] .. Len(Order) + 1 : stillInFlight(i, p.time)})
               ELSE walk[n - 1]
    IN walk

\* last_acked after each packet; only the first transmission of a range that
\* is acked moves it.
last_acked ==
    LET walk[n \in 0 .. Len(packet_stats)] ==
            LET p == packet_stats[n]
            IN IF n = 0 THEN first_payload
               ELSE IF p.type = "ST_PKT" /\ ranges[Order[p.range]].acked
               THEN Min({i \in walk[n - 1] .. Len(Order) + 1 : stillInFlight(i, p.time)})
               ELSE walk[n - 1]
    IN walk

\* The ranges with payload so far less the ranges, with payload or not, that
\* the walk has passed.
pifs(n) ==
    Cardinality({i \in 1 .. packet_stats[n].range : original_payload_size(i) # 0})
      - (last_acked[n] - first_payload)

-----------------------------------------------------------------------------
(* Properties. *)

\* The statistics have one entry for each packet of the trace, with times that
\* put them in order, and the sizes of the first transmissions add up to the
\* bytes of new data, however ranges were split later or filled, as long as no
\* segment bundles old and new data.  There is an entry [0] to start the
\* inter-transmission times from.
PacketStatsExact ==
    op = "idle" /\ Keys # {} /\ conn.bundleCount = 0 =>
        /\ Len(packet_stats) = conn.nrPacketsSent - conn.ignored_count
        /\ \A m, n \in DOMAIN packet_stats : packet_stats[m].time = packet_stats[n].time => m = n
        /\ MapThenSumSet(LAMBDA n : IF packet_stats[n].type = "ST_PKT"
                                    THEN packetSize(packet_stats[n]) ELSE 0,
                         DOMAIN packet_stats) = conn.totNewDataSent

\* All acknowledgements have been registered.
Acked == op = "idle" /\ phase # "sent" /\ ackNo = Len(acks)

\* The ranges up to i that no acknowledgement captured before time covers.
InFlight(i, time) ==
    {j \in 1 .. i :
        /\ original_payload_size(j) # 0
        /\ ~\E a \in DOMAIN acks : /\ acks[a].ack >= ranges[Order[j]].endSeq
                                   /\ acks[a].time < time}

\* "Packets in flight after this packet was sent" (PacketStats::pifs): for the
\* first transmission of acked data these are the ranges that were not acked by
\* then, although the walk only looks at each range once and acks split ranges.
\* Ranges without payload behind the first data are counted off but never on.
PifsExact ==
    Acked /\ (\A i \in first_payload .. Len(Order) : original_payload_size(i) # 0) =>
        \A n \in DOMAIN packet_stats :
            LET p == packet_stats[n]
            IN p.type = "ST_PKT" /\ ranges[Order[p.range]].acked
               /\ original_payload_size(p.range) # 0
               => pifs(n) = Cardinality(InFlight(p.range, p.time))

=============================================================================
