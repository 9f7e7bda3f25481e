-------------------------- MODULE ConnectionProofs --------------------------
(***************************************************************************)
(* Theorems about Connection, for every value of its constants and every  *)
(* environment: the state is well typed, the totals of registerSent add up *)
(* and no byte of a later connection on the same port is registered.  The  *)
(* lemmas say what the operations on ranges and on the map preserve.       *)
(***************************************************************************)
EXTENDS Connection, TLAPS

-----------------------------------------------------------------------------
(* Ranges. *)

\* A uint8_t counter stays one when it is incremented.
LEMMA AddType ==
    ASSUME NEW n \in Counters, NEW cond
    PROVE  Add(n, cond) \in Counters
<1>1. n \in Counters /\ (n + 1) % CounterMod \in Counters
  BY CounterModAssumption DEF Counters
<1> QED
  BY <1>1 DEF Add

\* A new range has its type and the end it is given.
LEMMA NewByteRangeType ==
    ASSUME NEW start \in Nat, NEW end \in Nat
    PROVE  /\ newByteRange(start, end) \in ByteRanges
           /\ newByteRange(start, end).endSeq = end
<1>1. 0 \in Counters
  BY CounterModAssumption DEF Counters
<1>2. << >> \in SentLists /\ {} \in LostTimes /\ end - start \in Int
  BY DEF SentLists, LostTimes
<1> QED
  BY <1>1, <1>2 DEF newByteRange, ByteRanges, Uninit

\* Counting a transmission changes neither the type nor the end of a range.
LEMMA IncreaseSentType ==
    ASSUME NEW r \in ByteRanges, NEW time \in Nat, NEW rdb \in BOOLEAN, NEW sent_t \in SentTypes
    PROVE  /\ increase_sent(r, time, rdb, sent_t) \in ByteRanges
           /\ increase_sent(r, time, rdb, sent_t).endSeq = r.endSeq
<1> DEFINE a == Add(r.packet_sent_count, sent_t \in {"ST_PKT", "ST_RST"})
           b == Add(r.packet_retrans_count, sent_t = "ST_RTR")
           c == Add(r.acked_sent, sent_t = "ST_PURE_ACK")
           d == Add(r.data_sent_count, sent_t \notin {"ST_PURE_ACK", "ST_RST"})
           e == Append(r.sent_tstamp_pcap, Transmission(time, rdb, sent_t))
           f == r.lost_tstamps_tcp \cup {time}
<1>1. /\ r.packet_sent_count \in Counters /\ r.packet_retrans_count \in Counters
      /\ r.acked_sent \in Counters /\ r.data_sent_count \in Counters
      /\ r.sent_tstamp_pcap \in SentLists /\ r.lost_tstamps_tcp \in LostTimes
  BY DEF ByteRanges
<1>2. a \in Counters /\ b \in Counters /\ c \in Counters /\ d \in Counters
  BY <1>1, AddType
<1>3. Transmission(time, rdb, sent_t) \in Transmissions
  BY DEF Transmission, Transmissions
<1>4. e \in SentLists /\ f \in LostTimes
  BY <1>1, <1>3 DEF SentLists, LostTimes
<1> DEFINE q == [r EXCEPT !.packet_sent_count = a, !.packet_retrans_count = b,
                          !.acked_sent = c, !.data_sent_count = d]
<1>5. increase_sent(r, time, rdb, sent_t) =
        [q EXCEPT !.sent_tstamp_pcap = e, !.lost_tstamps_tcp = f]
  <2> HIDE DEF a, b, c, d, e, f
  <2>1. increase_sent(r, time, rdb, sent_t) =
          [r EXCEPT !.packet_sent_count = a, !.packet_retrans_count = b,
                    !.acked_sent = c, !.data_sent_count = d, !.sent_tstamp_pcap = e,
                    !.lost_tstamps_tcp = f]
    BY DEF increase_sent, a, b, c, d, e, f
  <2> QED
    BY <2>1 DEF ByteRanges
<1>6. q \in ByteRanges /\ q.endSeq = r.endSeq
  <2> HIDE DEF a, b, c, d
  <2> QED
    BY <1>2 DEF ByteRanges
<1> HIDE DEF q, e, f
<1> QED
  BY <1>4, <1>5, <1>6 DEF ByteRanges

\* Counting a reception changes neither the type nor the end of a range.
LEMMA IncreaseReceivedType ==
    ASSUME NEW r \in ByteRanges, NEW ts \in Nat, NEW time \in Nat
    PROVE  /\ increase_received(r, ts, time) \in ByteRanges
           /\ increase_received(r, ts, time).endSeq = r.endSeq
<1> DEFINE a == IF r.data_received_count = 0 THEN time ELSE r.received_tstamp_pcap
           b == IF r.data_received_count = 0 THEN ts ELSE r.received_tstamp_tcp
           c == Add(r.data_received_count, TRUE)
           d == r.lost_tstamps_tcp \ FirstLost(r, ts)
<1>1. /\ a \in Nat \cup {Uninit} /\ b \in Nat /\ r.data_received_count \in Counters
      /\ r.lost_tstamps_tcp \in LostTimes
  BY DEF ByteRanges
<1>2. c \in Counters /\ d \in LostTimes
  BY <1>1, AddType DEF LostTimes
<1>3. increase_received(r, ts, time) =
        [r EXCEPT !.received_tstamp_pcap = a, !.received_tstamp_tcp = b,
                  !.data_received_count = c, !.lost_tstamps_tcp = d]
  BY DEF increase_received
<1> HIDE DEF a, b, c, d
<1> QED
  BY <1>1, <1>2, <1>3 DEF ByteRanges

\* Nor do the acknowledgements.
LEMMA AckTimeType ==
    ASSUME NEW r \in ByteRanges, NEW time \in Nat
    PROVE  /\ insertAckTime(r, time) \in ByteRanges
           /\ insertAckTime(r, time).endSeq = r.endSeq
           /\ CountAck(r) \in ByteRanges
           /\ CountAck(r).endSeq = r.endSeq
<1>1. Add(r.ack_count, TRUE) \in Counters
  BY AddType DEF ByteRanges
<1> QED
  BY <1>1 DEF insertAckTime, CountAck, ByteRanges

\* splitEnd makes two ranges: the first ends where it is told to, the second
\* where the range did.
LEMMA SplitType ==
    ASSUME NEW r \in ByteRanges, NEW at \in Nat
    PROVE  /\ split(r, at) \in ByteRanges
           /\ split(r, at).endSeq = r.endSeq
           /\ Truncate(r, at) \in ByteRanges
           /\ Truncate(r, at).endSeq = at
<1> DEFINE n == newByteRange(at, r.endSeq)
<1>1. n \in ByteRanges /\ n.endSeq = r.endSeq
  BY NewByteRangeType DEF ByteRanges
<1>2. NoPackets(r) \in SentLists
  <2>1. r.sent_tstamp_pcap \in Seq(Transmissions)
    BY DEF ByteRanges, SentLists
  <2>2. \A i \in DOMAIN r.sent_tstamp_pcap :
          [r.sent_tstamp_pcap[i] EXCEPT !.sent_t = "ST_NONE"] \in Transmissions
    <3> TAKE i \in DOMAIN r.sent_tstamp_pcap
    <3>1. r.sent_tstamp_pcap[i] \in Transmissions
      BY <2>1
    <3> QED
      BY <3>1 DEF Transmissions, SentTypes
  <2>3. Len(r.sent_tstamp_pcap) \in Nat /\ DOMAIN r.sent_tstamp_pcap = 1 .. Len(r.sent_tstamp_pcap)
    BY <2>1
  <2> QED
    BY <2>2, <2>3 DEF NoPackets, SentLists
<1>3. split(r, at) \in ByteRanges /\ split(r, at).endSeq = r.endSeq
  <2> DEFINE a == r.data_retrans_count
             b == r.data_sent_count
             c == r.data_received_count
             d == r.received_tstamp_tcp
             p == NoPackets(r)
             f == r.ackTime
             g == r.acked
             q == [n EXCEPT !.data_retrans_count = a, !.data_sent_count = b,
                            !.data_received_count = c, !.received_tstamp_tcp = d]
  <2>1. /\ a \in Counters /\ b \in Counters /\ c \in Counters /\ d \in Nat
        /\ p \in SentLists /\ f \in Nat /\ g \in BOOLEAN
    BY <1>2 DEF ByteRanges
  <2>2. split(r, at) = [n EXCEPT !.data_retrans_count = a, !.data_sent_count = b,
                                 !.data_received_count = c, !.received_tstamp_tcp = d,
                                 !.sent_tstamp_pcap = p, !.ackTime = f, !.acked = g]
    BY DEF split
  <2> HIDE DEF a, b, c, d, f, g, n, p
  <2>3. split(r, at) = [q EXCEPT !.sent_tstamp_pcap = p, !.ackTime = f, !.acked = g]
    BY <1>1, <2>2 DEF ByteRanges
  <2>4. q \in ByteRanges /\ q.endSeq = r.endSeq
    BY <1>1, <2>1 DEF ByteRanges
  <2> HIDE DEF q
  <2> QED
    BY <2>1, <2>3, <2>4 DEF ByteRanges
<1> QED
  BY <1>3 DEF Truncate, ByteRanges

-----------------------------------------------------------------------------
(* The map. *)

RangeMap(rs) ==
    /\ DOMAIN rs \subseteq Nat
    /\ \A k \in DOMAIN rs : rs[k] \in ByteRanges

\* What an assignment to a key does: it changes that key only.
PutFacts(rs, k, r) ==
    /\ RangeMap(Put(rs, k, r))
    /\ DOMAIN Put(rs, k, r) = DOMAIN rs \cup {k}
    /\ Put(rs, k, r)[k] = r
    /\ \A j \in DOMAIN rs : j # k => Put(rs, k, r)[j] = rs[j]

\* What splitting a range does, for what the invariants look at.
SplitFacts(rs, k, at) ==
    /\ RangeMap(SplitAt(rs, k, at))
    /\ DOMAIN SplitAt(rs, k, at) = DOMAIN rs \cup {at}
    /\ SplitAt(rs, k, at)[k].endSeq = at
    /\ at \notin DOMAIN rs => SplitAt(rs, k, at)[at].endSeq = rs[k].endSeq
    /\ \A j \in DOMAIN rs : j # k => SplitAt(rs, k, at)[j] = rs[j]

\* Assigning to a key changes that key only.
LEMMA PutType ==
    ASSUME NEW rs, RangeMap(rs), NEW k \in Nat, NEW r \in ByteRanges
    PROVE  PutFacts(rs, k, r)
BY DEF RangeMap, Put, PutFacts

\* Splitting a range leaves the others alone, and a range that already starts
\* at the split too.
LEMMA SplitAtType ==
    ASSUME NEW rs, RangeMap(rs), NEW k \in DOMAIN rs, NEW at \in Nat, at # k
    PROVE  SplitFacts(rs, k, at)
<1> DEFINE cut == Put(rs, k, Truncate(rs[k], at))
<1>1. k \in Nat /\ rs[k] \in ByteRanges
  BY DEF RangeMap
<1>2. /\ split(rs[k], at) \in ByteRanges
      /\ split(rs[k], at).endSeq = rs[k].endSeq
      /\ Truncate(rs[k], at) \in ByteRanges
      /\ Truncate(rs[k], at).endSeq = at
  BY <1>1, SplitType
<1>3. /\ RangeMap(cut)
      /\ DOMAIN cut = DOMAIN rs \cup {k}
      /\ cut[k] = Truncate(rs[k], at)
      /\ \A j \in DOMAIN rs : j # k => cut[j] = rs[j]
  BY <1>1, <1>2, PutType DEF PutFacts
<1>4. CASE at \in DOMAIN rs
  <2>1. SplitAt(rs, k, at) = cut
    BY <1>3, <1>4 DEF SplitAt, Insert
  <2> QED
    BY <1>2, <1>3, <1>4, <2>1 DEF SplitFacts
<1>5. CASE at \notin DOMAIN rs
  <2>1. SplitAt(rs, k, at) = Put(cut, at, split(rs[k], at))
    BY <1>3, <1>5 DEF SplitAt, Insert
  <2>2. PutFacts(cut, at, split(rs[k], at))
    BY <1>2, <1>3, PutType
  <2> QED
    BY <1>2, <1>3, <1>5, <2>1, <2>2 DEF SplitFacts, PutFacts
<1> QED
  BY <1>4, <1>5

-----------------------------------------------------------------------------
(* What a segment adds to a range. *)

\* The parts of the segment that a range takes over.
LEMMA SegmentType ==
    ASSUME rmTypeOK
    PROVE  /\ seg.time \in Nat /\ seg.tstamp_tcp \in Nat
           /\ seg.seq \in Nat /\ seg.endSeq \in Nat
           /\ this_is_rdb_data \in BOOLEAN
BY DEF rmTypeOK, Segments, this_is_rdb_data

\* Credit, CreditSplit and SetFin change neither the type nor the end.
LEMMA CreditType ==
    ASSUME rmTypeOK, NEW r \in ByteRanges
    PROVE  /\ Credit(r) \in ByteRanges /\ Credit(r).endSeq = r.endSeq
           /\ CreditSplit(r) \in ByteRanges /\ CreditSplit(r).endSeq = r.endSeq
           /\ SetFin(r) \in ByteRanges /\ SetFin(r).endSeq = r.endSeq
<1>1. seg.time \in Nat /\ seg.tstamp_tcp \in Nat /\ this_is_rdb_data \in BOOLEAN
  BY SegmentType
<1>2. Credit(r) \in ByteRanges /\ Credit(r).endSeq = r.endSeq
  <2>1. CASE SENT
    <3> DEFINE t == IF ~Outermost THEN "ST_NONE"
                    ELSE IF seg.retrans THEN "ST_RTR" ELSE "ST_PKT"
               i == increase_sent(r, seg.time, this_is_rdb_data, t)
               a == Add(i.fin, Outermost /\ seg.flag = "fin")
               b == Add(i.data_retrans_count, seg.retrans)
               c == Add(i.rdb_count, seg.is_rdb)
    <3>1. t \in SentTypes
      BY DEF SentTypes
    <3>2. i \in ByteRanges /\ i.endSeq = r.endSeq
      BY <1>1, <3>1, IncreaseSentType
    <3>3. i.fin \in Counters /\ i.data_retrans_count \in Counters /\ i.rdb_count \in Counters
      BY <3>2 DEF ByteRanges
    <3>4. a \in Counters /\ b \in Counters /\ c \in Counters
      BY <3>3, AddType
    <3>5. Credit(r) = [i EXCEPT !.fin = a, !.data_retrans_count = b, !.rdb_count = c]
      BY <2>1 DEF Credit
    <3> HIDE DEF a, b, c, i
    <3> QED
      BY <3>2, <3>4, <3>5 DEF ByteRanges
  <2>2. CASE ~SENT
    <3> DEFINE i == increase_received(r, seg.tstamp_tcp, seg.time)
               a == Add(i.packet_received_count, Outermost)
    <3>1. i \in ByteRanges /\ i.endSeq = r.endSeq
      BY <1>1, IncreaseReceivedType
    <3>2. i.packet_received_count \in Counters
      BY <3>1 DEF ByteRanges
    <3>3. a \in Counters
      BY <3>2, AddType
    <3>4. Credit(r) = [i EXCEPT !.packet_received_count = a]
      BY <2>2 DEF Credit
    <3> HIDE DEF a, i
    <3> QED
      BY <3>1, <3>3, <3>4 DEF ByteRanges
  <2> QED
    BY <2>1, <2>2
<1>3. CreditSplit(r) \in ByteRanges /\ CreditSplit(r).endSeq = r.endSeq
  <2>1. CASE SENT
    <3> DEFINE t == IF Outermost THEN "ST_RTR" ELSE "ST_NONE"
               i == increase_sent(r, seg.time, this_is_rdb_data, t)
               b == Add(i.data_retrans_count, TRUE)
               c == Add(i.rdb_count, seg.is_rdb)
    <3>1. t \in SentTypes
      BY DEF SentTypes
    <3>2. i \in ByteRanges /\ i.endSeq = r.endSeq
      BY <1>1, <3>1, IncreaseSentType
    <3>3. i.data_retrans_count \in Counters /\ i.rdb_count \in Counters
      BY <3>2 DEF ByteRanges
    <3>4. b \in Counters /\ c \in Counters
      BY <3>3, AddType
    <3>5. CreditSplit(r) = [i EXCEPT !.data_retrans_count = b, !.rdb_count = c]
      BY <2>1 DEF CreditSplit
    <3> HIDE DEF b, c, i
    <3> QED
      BY <3>2, <3>4, <3>5 DEF ByteRanges
  <2>2. CASE ~SENT
    BY <1>2, <2>2 DEF CreditSplit
  <2> QED
    BY <2>1, <2>2
<1>4. SetFin(r) \in ByteRanges /\ SetFin(r).endSeq = r.endSeq
  <2>1. 1 \in Counters
    BY CounterModAssumption DEF Counters
  <2> QED
    BY <2>1 DEF SetFin, ByteRanges
<1> QED
  BY <1>2, <1>3, <1>4

-----------------------------------------------------------------------------
(* How each action changes the map, seen through the ends of the ranges.    *)

\* The ranges at the keys outside K stay, with their ends.
KeptOutside(K) ==
    /\ RangeMap(ranges')
    /\ Keys \subseteq Keys'
    /\ \A j \in Keys \ K : ranges'[j].endSeq = ranges[j].endSeq

\* Only counters and timestamps change.
CountsOnly == KeptOutside({}) /\ Keys' = Keys

\* The range at k is cut in two at position at.
CutAt(k, at) ==
    /\ KeptOutside({k})
    /\ Keys' = Keys \cup {at}
    /\ ranges'[k].endSeq = at
    /\ at \notin Keys => ranges'[at].endSeq = ranges[k].endSeq

\* Assigning a range with the same end changes counters and timestamps only.
LEMMA PutSame ==
    ASSUME RangeMap(ranges), NEW k \in Keys, NEW r \in ByteRanges,
           r.endSeq = ranges[k].endSeq, ranges' = Put(ranges, k, r)
    PROVE  CountsOnly
<1>1. k \in Nat
  BY DEF RangeMap, Keys
<1>2. PutFacts(ranges, k, r)
  BY <1>1, PutType
<1> QED
  BY <1>2 DEF CountsOnly, KeptOutside, Keys, PutFacts

\* A segment without payload adds at most an empty range at start_seq.
LEMMA InsertZeroLengthShape ==
    ASSUME rmTypeOK, InsertZeroLength
    PROVE  /\ KeptOutside({})
           /\ frame.start \notin Keys
           /\ Keys' = Keys \cup {frame.start}
           /\ ranges'[frame.start].endSeq = frame.start
<1> DEFINE n == newByteRange(start_seq, start_seq)
           a == Add(n.packet_retrans_count, seg.retrans)
           b == Add(n.rdb_count, seg.is_rdb)
           c == Add(n.syn, seg.flag = "syn")
           d == Add(n.fin, seg.flag = "fin")
           e == Add(n.rst, seg.flag = "rst")
           r == [n EXCEPT !.packet_retrans_count = a, !.rdb_count = b,
                          !.syn = c, !.fin = d, !.rst = e]
           t == IF seg.flag # "none" THEN "ST_PKT" ELSE "ST_PURE_ACK"
           i == increase_sent(r, seg.time, this_is_rdb_data, t)
<1>1. start_seq = frame.start /\ frame.start \in Nat /\ frame.start \notin Keys /\ seg.time \in Nat
  BY DEF rmTypeOK, Frames, Segments, InsertZeroLength, start_seq
<1>0. this_is_rdb_data \in BOOLEAN
  BY SegmentType
<1>2. n \in ByteRanges /\ n.endSeq = frame.start
  BY <1>1, NewByteRangeType
<1>3. /\ n.packet_retrans_count \in Counters /\ n.rdb_count \in Counters
      /\ n.syn \in Counters /\ n.fin \in Counters /\ n.rst \in Counters
  BY <1>2 DEF ByteRanges
<1>4. a \in Counters /\ b \in Counters /\ c \in Counters /\ d \in Counters /\ e \in Counters
  BY <1>3, AddType
<1>5. r \in ByteRanges /\ r.endSeq = frame.start
  <2> HIDE DEF a, b, c, d, e, n
  <2> QED
    BY <1>2, <1>4 DEF ByteRanges
<1>6. i \in ByteRanges /\ i.endSeq = frame.start
  <2>1. t \in SentTypes
    BY DEF SentTypes
  <2> HIDE DEF r, t
  <2> QED
    BY <1>0, <1>1, <1>5, <2>1, IncreaseSentType
<1>7. ranges' = Put(ranges, frame.start, i)
  BY <1>1 DEF InsertZeroLength
<1>8. RangeMap(ranges)
  BY DEF rmTypeOK, RangeMap
<1> HIDE DEF i
<1>9. PutFacts(ranges, frame.start, i)
  BY <1>1, <1>6, <1>8, PutType
<1> QED
  BY <1>1, <1>6, <1>7, <1>9 DEF KeptOutside, Keys, PutFacts

\* At the start of a range, a segment without payload changes counters only.
LEMMA UpdateZeroLengthShape ==
    ASSUME rmTypeOK, UpdateZeroLength
    PROVE  CountsOnly
<1> DEFINE r == ranges[start_seq]
           t == CASE seg.flag \in {"syn", "fin"} -> "ST_RTR"
                  [] seg.flag = "rst" -> "ST_RST"
                  [] OTHER -> "ST_PURE_ACK"
           i == increase_sent(r, seg.time, this_is_rdb_data, t)
           a == Add(i.syn, seg.flag = "syn")
           b == Add(i.fin, seg.flag = "fin")
           c == Add(i.rst, seg.flag = "rst")
           j == IF seg.flag \in {"syn", "fin"} THEN increase_received(r, seg.tstamp_tcp, seg.time) ELSE r
           d == Add(j.packet_received_count, Outermost)
           sent == [i EXCEPT !.syn = a, !.fin = b, !.rst = c]
           recvd == [j EXCEPT !.packet_received_count = d]
           new == IF SENT THEN sent ELSE recvd
<1>1. /\ start_seq \in Keys /\ seg.time \in Nat /\ seg.tstamp_tcp \in Nat
      /\ r \in ByteRanges /\ RangeMap(ranges) /\ this_is_rdb_data \in BOOLEAN
  BY SegmentType DEF rmTypeOK, UpdateZeroLength, Keys, RangeMap
<1>2. sent \in ByteRanges /\ sent.endSeq = r.endSeq
  <2>1. t \in SentTypes
    BY DEF SentTypes
  <2>2. i \in ByteRanges /\ i.endSeq = r.endSeq
    <3> HIDE DEF r, t
    <3> QED
      BY <1>1, <2>1, IncreaseSentType
  <2>3. i.syn \in Counters /\ i.fin \in Counters /\ i.rst \in Counters
    BY <2>2 DEF ByteRanges
  <2>4. a \in Counters /\ b \in Counters /\ c \in Counters
    BY <2>3, AddType
  <2> HIDE DEF a, b, c, i, r
  <2> QED
    BY <2>2, <2>4 DEF ByteRanges
<1>3. recvd \in ByteRanges /\ recvd.endSeq = r.endSeq
  <2>1. j \in ByteRanges /\ j.endSeq = r.endSeq
    <3> HIDE DEF r
    <3> QED
      BY <1>1, IncreaseReceivedType
  <2>2. j.packet_received_count \in Counters
    BY <2>1 DEF ByteRanges
  <2>3. d \in Counters
    BY <2>2, AddType
  <2> HIDE DEF d, j, r
  <2> QED
    BY <2>1, <2>3 DEF ByteRanges
<1>4. ranges' = Put(ranges, start_seq, new)
  BY DEF UpdateZeroLength
<1>5. new \in ByteRanges /\ new.endSeq = r.endSeq
  BY <1>2, <1>3
<1> HIDE DEF new
<1> QED
  BY <1>1, <1>4, <1>5, PutSame

\* A segment that starts inside a range cuts it there, and once more where the
\* segment ends, if that is in the same range.
LEMMA SplitHostShape ==
    ASSUME rmTypeOK, SplitHost
    PROVE  \E k \in Keys :
             /\ Host(k)
             /\ \/ /\ frame.end > ranges[k].endSeq
                   /\ CutAt(k, frame.start)
                   /\ Recurse(ranges[k].endSeq)
                \/ /\ frame.end = ranges[k].endSeq
                   /\ CutAt(k, frame.start)
                   /\ Return
                \/ /\ frame.end < ranges[k].endSeq
                   /\ KeptOutside({k})
                   /\ Keys' = Keys \cup {frame.start, frame.end}
                   /\ ranges'[k].endSeq = frame.start
                   /\ ranges'[frame.start].endSeq = frame.end
                   /\ frame.end \notin Keys =>
                        ranges'[frame.end].endSeq = ranges[k].endSeq
                   /\ Return
<1> DEFINE s == frame.start
<1>1. /\ RangeMap(ranges) /\ s \in Nat /\ frame.end \in Nat
      /\ s \notin Keys /\ s # frame.end /\ Keys \subseteq Nat
  BY DEF rmTypeOK, RangeMap, Frames, SplitHost, Keys, ZeroLength
<1>2. PICK k \in Keys :
        LET host == ranges[k]
            cut == SplitAt(ranges, k, s)
        IN /\ Host(k)
           /\ IF frame.end > host.endSeq
              THEN /\ ranges' = Put(cut, s, CreditSplit(cut[s]))
                   /\ Recurse(host.endSeq)
              ELSE LET cut2 == IF frame.end = host.endSeq THEN cut
                               ELSE SplitAt(cut, s, frame.end)
                   IN /\ ranges' = Put(cut2, s, CreditSplit(SetFin(cut2[s])))
                      /\ Return
  BY DEF SplitHost
<1> DEFINE cut == SplitAt(ranges, k, s)
           E == ranges[k].endSeq
<1>3. k < s /\ E > s /\ E \in Nat
  BY <1>1, <1>2 DEF Host, IsPrev, RangeMap, Keys, ByteRanges
<1>4. /\ RangeMap(cut)
      /\ DOMAIN cut = Keys \cup {s}
      /\ cut[k].endSeq = s
      /\ cut[s].endSeq = E
      /\ \A j \in Keys : j # k => cut[j] = ranges[j]
  <2>1. k \in DOMAIN ranges /\ s # k
    BY <1>1, <1>3 DEF Keys
  <2>2. SplitFacts(ranges, k, s)
    BY <1>1, <2>1, SplitAtType
  <2> QED
    BY <1>1, <2>2 DEF Keys, SplitFacts
<1>5. cut[s] \in ByteRanges
  BY <1>4 DEF RangeMap
<1>6. CASE frame.end >= E
  <2>1. PICK r \in ByteRanges : r.endSeq = E /\ ranges' = Put(cut, s, r)
    <3>1. CASE frame.end > E
      <4>1. CreditSplit(cut[s]) \in ByteRanges /\ CreditSplit(cut[s]).endSeq = E
        BY <1>4, <1>5, CreditType
      <4> QED
        BY <1>2, <3>1, <4>1
    <3>2. CASE frame.end = E
      <4>1. SetFin(cut[s]) \in ByteRanges /\ SetFin(cut[s]).endSeq = E
        BY <1>4, <1>5, CreditType
      <4>2. /\ CreditSplit(SetFin(cut[s])) \in ByteRanges
            /\ CreditSplit(SetFin(cut[s])).endSeq = E
        BY <4>1, CreditType
      <4>3. ~(frame.end > E)
        BY <1>1, <1>3, <3>2
      <4> QED
        BY <1>2, <3>2, <4>2, <4>3
    <3> QED
      BY <1>1, <1>3, <1>6, <3>1, <3>2
  <2>2. PutFacts(cut, s, r)
    BY <1>1, <1>4, PutType
  <2> HIDE DEF cut
  <2>3. CutAt(k, s)
    BY <1>1, <1>3, <1>4, <2>1, <2>2 DEF CutAt, KeptOutside, Keys, PutFacts
  <2>4. \/ frame.end > E /\ Recurse(E)
        \/ frame.end = E /\ Return
    BY <1>1, <1>2, <1>3, <1>6
  <2> QED
    BY <1>2, <2>3, <2>4
<1>7. CASE frame.end < E
  <2> DEFINE cut2 == SplitAt(cut, s, frame.end)
             r == CreditSplit(SetFin(cut2[s]))
  <2>1. /\ RangeMap(cut2)
        /\ DOMAIN cut2 = DOMAIN cut \cup {frame.end}
        /\ cut2[s].endSeq = frame.end
        /\ frame.end \notin DOMAIN cut => cut2[frame.end].endSeq = cut[s].endSeq
        /\ \A j \in DOMAIN cut : j # s => cut2[j] = cut[j]
    <3>1. s \in DOMAIN cut
      BY <1>4
    <3> HIDE DEF cut
    <3>2. SplitFacts(cut, s, frame.end)
      BY <1>1, <1>4, <3>1, SplitAtType
    <3> QED
      BY <3>2 DEF SplitFacts
  <2>2. cut2[s] \in ByteRanges
    BY <1>4, <2>1 DEF RangeMap
  <2>3. r \in ByteRanges /\ r.endSeq = frame.end
    <3>1. SetFin(cut2[s]) \in ByteRanges /\ SetFin(cut2[s]).endSeq = frame.end
      BY <2>1, <2>2, CreditType
    <3> QED
      BY <3>1, CreditType
  <2>4. ~(frame.end > E) /\ frame.end # E
    BY <1>1, <1>3, <1>7
  <2>5. ranges' = Put(cut2, s, r) /\ Return
    BY <1>2, <2>4
  <2> HIDE DEF cut, cut2, r
  <2>6. PutFacts(cut2, s, r)
    BY <1>1, <2>1, <2>3, PutType
  <2>7. /\ KeptOutside({k})
        /\ Keys' = Keys \cup {s, frame.end}
        /\ ranges'[k].endSeq = s
        /\ ranges'[s].endSeq = frame.end
        /\ frame.end \notin Keys => ranges'[frame.end].endSeq = E
    BY <1>1, <1>3, <1>4, <2>1, <2>3, <2>5, <2>6 DEF KeptOutside, Keys, PutFacts
  <2> QED
    BY <1>2, <1>7, <2>5, <2>7
<1>8. frame.end >= E \/ frame.end < E
  BY <1>1, <1>3
<1> QED
  BY <1>6, <1>7, <1>8

\* Data that no range holds the start of becomes a range of its own.
LEMMA InsertNewShape ==
    ASSUME rmTypeOK, InsertNew
    PROVE  \/ UNCHANGED ranges /\ (Return \/ Fail("assert_search"))
              /\ (~SENT \/ op' = "assert_search")
           \/ /\ SENT
              /\ KeptOutside({})
              /\ Keys' = Keys \cup {frame.start}
              /\ ranges'[frame.start].endSeq = frame.end
              /\ Return
<1> DEFINE n == newByteRange(frame.start, frame.end)
           t == IF seg.is_rdb THEN "ST_NONE" ELSE "ST_PKT"
           i == increase_sent(n, seg.time, this_is_rdb_data, t)
           a == Add(i.fin, seg.flag = "fin")
           b == payloadSize(seg)
           r == [i EXCEPT !.fin = a, !.original_payload_size = b]
<1>1. /\ frame.start \in Nat /\ frame.end \in Nat
      /\ frame.start \notin Keys /\ RangeMap(ranges)
  BY DEF rmTypeOK, Frames, RangeMap, InsertNew
<1>0. /\ seg.time \in Nat /\ this_is_rdb_data \in BOOLEAN /\ b \in Int
  BY SegmentType DEF payloadSize
<1>2. n \in ByteRanges /\ n.endSeq = frame.end
  BY <1>1, NewByteRangeType
<1>3. i \in ByteRanges /\ i.endSeq = frame.end
  <2>1. t \in SentTypes
    BY DEF SentTypes
  <2> HIDE DEF n, t
  <2> QED
    BY <1>0, <1>2, <2>1, IncreaseSentType
<1>4. i.fin \in Counters
  BY <1>3 DEF ByteRanges
<1>5. a \in Counters
  BY <1>4, AddType
<1>6. r \in ByteRanges /\ r.endSeq = frame.end
  <2> HIDE DEF a, b, i
  <2> QED
    BY <1>0, <1>3, <1>5 DEF ByteRanges
<1>7. \/ Fail("assert_search") /\ UNCHANGED ranges
      \/ Return /\ ranges' = IF SENT THEN Put(ranges, frame.start, r) ELSE ranges
  BY DEF InsertNew
<1> HIDE DEF r
<1>8. PutFacts(ranges, frame.start, r)
  BY <1>1, <1>6, PutType
<1>9. CASE Return /\ SENT /\ ranges' = Put(ranges, frame.start, r)
  BY <1>1, <1>6, <1>8, <1>9 DEF KeptOutside, Keys, PutFacts
<1> QED
  BY <1>7, <1>9 DEF Fail

\* Data at an empty range fills it: up to the end of the segment if there is no
\* range in between.
LEMMA FillEmptyShape ==
    ASSUME rmTypeOK, FillEmpty
    PROVE  /\ frame.start \in Keys
           /\ ranges[frame.start].endSeq = frame.start
           /\ KeptOutside({frame.start})
           /\ Keys' = Keys
           /\ \/ /\ ranges'[frame.start].endSeq = frame.end
                 /\ Return
              \/ \E n \in Keys :
                   /\ IsNext(frame.start, n)
                   /\ n < frame.end
                   /\ ranges'[frame.start].endSeq = n
                   /\ Recurse(n)
           /\ IsLast(frame.start) \/ \E n \in Keys : IsNext(frame.start, n)
<1> DEFINE k == frame.start
           t(end) == Truncate(ranges[k], end)
           o(end) == [t(end) EXCEPT !.original_payload_size = end - k]
           f(end) == increase_sent(o(end), seg.time, this_is_rdb_data, "ST_PKT")
<1>1. /\ k \in Keys /\ k \in Nat /\ frame.end \in Nat /\ seg.time \in Nat
      /\ RangeMap(ranges) /\ ranges[k] \in ByteRanges /\ Keys \subseteq Nat
      /\ ranges[k].endSeq \in Nat
  BY DEF rmTypeOK, Frames, Segments, RangeMap, FillEmpty, StartFound, Keys, ByteRanges
<1>0. this_is_rdb_data \in BOOLEAN
  BY SegmentType
<1>2. ranges[k].endSeq = k
  BY <1>1 DEF FillEmpty, byte_count
<1>3. ASSUME NEW end \in Nat, ranges' = Put(ranges, k, f(end))
      PROVE  /\ KeptOutside({k})
             /\ Keys' = Keys
             /\ ranges'[k].endSeq = end
  <2>0. t(end) \in ByteRanges /\ t(end).endSeq = end
    BY <1>1, SplitType
  <2>1. o(end) \in ByteRanges /\ o(end).endSeq = end
    <3>1. end - k \in Int
      BY <1>1
    <3> HIDE DEF t
    <3> QED
      BY <2>0, <3>1 DEF ByteRanges
  <2>2. "ST_PKT" \in SentTypes
    BY DEF SentTypes
  <2>3. f(end) \in ByteRanges /\ f(end).endSeq = end
    <3> HIDE DEF o
    <3> QED
      BY <1>0, <1>1, <2>1, <2>2, IncreaseSentType
  <2> HIDE DEF f
  <2>4. PutFacts(ranges, k, f(end))
    BY <1>1, <2>3, PutType
  <2> QED
    BY <1>1, <1>3, <2>3, <2>4 DEF KeptOutside, Keys, PutFacts
<1>4. \/ /\ IsLast(k)
         /\ ranges' = Put(ranges, k, f(frame.end))
         /\ Return
      \/ \E n \in Keys :
            /\ IsNext(k, n)
            /\ IF n < frame.end
               THEN ranges' = Put(ranges, k, f(n)) /\ Recurse(n)
               ELSE ranges' = Put(ranges, k, f(frame.end)) /\ Return
  BY DEF FillEmpty
<1> HIDE DEF f
<1>5. CASE IsLast(k) /\ ranges' = Put(ranges, k, f(frame.end)) /\ Return
  BY <1>1, <1>2, <1>3, <1>5
<1>6. ASSUME NEW n \in Keys,
             IsNext(k, n),
             IF n < frame.end
             THEN ranges' = Put(ranges, k, f(n)) /\ Recurse(n)
             ELSE ranges' = Put(ranges, k, f(frame.end)) /\ Return
      PROVE  /\ KeptOutside({k})
             /\ Keys' = Keys
             /\ \/ /\ ranges'[k].endSeq = frame.end
                   /\ Return
                \/ /\ n < frame.end
                   /\ ranges'[k].endSeq = n
                   /\ Recurse(n)
  BY <1>1, <1>3, <1>6
<1> QED
  BY <1>1, <1>2, <1>4, <1>5, <1>6

\* A range that the segment covers only gets its counters changed.
LEMMA CoverShape ==
    ASSUME rmTypeOK, SpanRange \/ UpdateRange
    PROVE  CountsOnly
<1> DEFINE k == frame.start
           c == Credit(ranges[k])
           a == Add(c.syn, seg.flag = "syn")
           u == [c EXCEPT !.syn = a]
<1>1. k \in Keys /\ RangeMap(ranges) /\ ranges[k] \in ByteRanges
  BY DEF rmTypeOK, RangeMap, Keys, SpanRange, UpdateRange, StartFound
<1>2. c \in ByteRanges /\ c.endSeq = ranges[k].endSeq
  BY <1>1, CreditType
<1>3. c.syn \in Counters
  BY <1>2 DEF ByteRanges
<1>4. a \in Counters
  BY <1>3, AddType
<1>5. u \in ByteRanges /\ u.endSeq = ranges[k].endSeq
  <2> HIDE DEF a, c
  <2> QED
    BY <1>2, <1>4 DEF ByteRanges
<1>6. ranges' = Put(ranges, k, c) \/ ranges' = Put(ranges, k, u)
  BY DEF SpanRange, UpdateRange
<1> HIDE DEF c, u
<1> QED
  BY <1>1, <1>2, <1>5, <1>6, PutSame

\* A segment that ends inside the range at its start cuts the range there.
LEMMA SplitTailShape ==
    ASSUME rmTypeOK, SplitTail
    PROVE  CutAt(frame.start, frame.end)
<1> DEFINE k == frame.start
           cut == SplitAt(ranges, k, frame.end)
           r == Credit(cut[k])
<1>1. /\ k \in Keys /\ k \in DOMAIN ranges /\ k \in Nat /\ frame.end \in Nat
      /\ frame.end # k
      /\ RangeMap(ranges) /\ Keys \subseteq Nat
  BY DEF rmTypeOK, Frames, RangeMap, Keys, SplitTail, StartFound, ZeroLength
<1>2. SplitFacts(ranges, k, frame.end)
  BY <1>1, SplitAtType
<1>3. RangeMap(cut) /\ cut[k] \in ByteRanges /\ cut[k].endSeq = frame.end
  BY <1>1, <1>2 DEF SplitFacts, RangeMap
<1>4. r \in ByteRanges /\ r.endSeq = frame.end
  BY <1>3, CreditType
<1>5. ranges' = Put(cut, k, r)
  BY DEF SplitTail
<1> HIDE DEF cut, r
<1>6. PutFacts(cut, k, r)
  BY <1>1, <1>3, <1>4, PutType
<1> QED
  BY <1>1, <1>2, <1>4, <1>5, <1>6 DEF CutAt, KeptOutside, Keys, PutFacts, SplitFacts, cut

\* An acknowledgement that ends in a range cuts it; otherwise it changes
\* counters and ack times only.
LEMMA AckShape ==
    ASSUME rmTypeOK, processAck
    PROVE  \/ CountsOnly
           \/ /\ ack.it < ack.ack /\ ack.ack < ranges[ack.it].endSeq
              /\ CutAt(ack.it, ack.ack)
<1>1. /\ RangeMap(ranges) /\ Keys \subseteq Nat
      /\ ack.ack \in Nat /\ ack.time \in Nat
      /\ op = "ack" /\ ack.it \in Keys /\ ranges[ack.it] \in ByteRanges
  BY DEF rmTypeOK, RangeMap, Keys, Acks, processAck, AckLast, AckBeforeSent,
         AckMore, AckSplit, AckOld
<1>2. \A r \in ByteRanges :
        /\ insertAckTime(r, ack.time) \in ByteRanges
        /\ insertAckTime(r, ack.time).endSeq = r.endSeq
        /\ CountAck(r) \in ByteRanges
        /\ CountAck(r).endSeq = r.endSeq
  BY <1>1, AckTimeType
<1>3. ASSUME UNCHANGED ranges PROVE CountsOnly
  BY <1>1, <1>3 DEF CountsOnly, KeptOutside, Keys
<1>4. ASSUME NEW k \in Keys, ranges' = Put(ranges, k, CountAck(ranges[k]))
      PROVE  CountsOnly
  <2>1. ranges[k] \in ByteRanges
    BY <1>1 DEF RangeMap, Keys
  <2>2. CountAck(ranges[k]) \in ByteRanges /\ CountAck(ranges[k]).endSeq = ranges[k].endSeq
    BY <1>2, <2>1
  <2> QED
    BY <1>1, <1>4, <2>2, PutSame
<1>5. CASE AckLast
  <2> DEFINE r == ranges[ack.it]
             i == IF r.acked \/ (byte_count(ack.it) = 0 /\ ack.echo) THEN r
                  ELSE insertAckTime(r, ack.time)
             n == CountAck(i)
  <2>1. i \in ByteRanges /\ i.endSeq = r.endSeq
    BY <1>1, <1>2
  <2>2. n \in ByteRanges /\ n.endSeq = r.endSeq
    <3> HIDE DEF i
    <3> QED
      BY <1>2, <2>1
  <2>3. ranges' = Put(ranges, ack.it, n)
    BY <1>5 DEF AckLast
  <2> HIDE DEF n
  <2> QED
    BY <1>1, <2>2, <2>3, PutSame
<1>6. CASE AckBeforeSent
  BY <1>3, <1>6 DEF AckBeforeSent
<1>7. CASE AckMore
  <2> DEFINE n == insertAckTime(ranges[ack.it], ack.time)
  <2>1. UNCHANGED ranges \/ ranges' = Put(ranges, ack.it, n)
    BY <1>7 DEF AckMore
  <2>2. n \in ByteRanges /\ n.endSeq = ranges[ack.it].endSeq
    BY <1>1, <1>2
  <2> HIDE DEF n
  <2> QED
    BY <1>1, <1>3, <2>1, <2>2, PutSame
<1>8. CASE AckSplit
  <2> DEFINE k == ack.it
             cut == SplitAt(ranges, k, ack.ack)
             r == CountAck(insertAckTime(cut[k], ack.time))
  <2>1. /\ k \in DOMAIN ranges /\ ack.ack # k /\ k \in Nat
        /\ k < ack.ack /\ ack.ack < ranges[k].endSeq
        /\ ranges' = Put(cut, k, r)
    BY <1>1, <1>8 DEF AckSplit, Keys
  <2>2. SplitFacts(ranges, k, ack.ack)
    BY <1>1, <2>1, SplitAtType
  <2>3. RangeMap(cut) /\ cut[k] \in ByteRanges /\ cut[k].endSeq = ack.ack
    BY <2>1, <2>2 DEF SplitFacts, RangeMap
  <2>4. r \in ByteRanges /\ r.endSeq = ack.ack
    <3>1. /\ insertAckTime(cut[k], ack.time) \in ByteRanges
          /\ insertAckTime(cut[k], ack.time).endSeq = ack.ack
      BY <1>2, <2>3
    <3> QED
      BY <1>2, <3>1
  <2> HIDE DEF cut, r
  <2>5. PutFacts(cut, k, r)
    BY <2>1, <2>3, <2>4, PutType
  <2>6. CutAt(k, ack.ack)
    BY <1>1, <2>1, <2>2, <2>4, <2>5 DEF CutAt, KeptOutside, Keys, PutFacts, SplitFacts, cut
  <2> QED
    BY <2>1, <2>6
<1>9. CASE AckOld
  <2>1. UNCHANGED ranges \/ \E k \in Keys : ranges' = Put(ranges, k, CountAck(ranges[k]))
    <3>1. ASSUME NEW p, IgnoreOld(p)
          PROVE  UNCHANGED ranges \/ \E k \in Keys : ranges' = Put(ranges, k, CountAck(ranges[k]))
      <4> DEFINE C == CoveredUpTo(p)
                 top == CHOOSE k \in C : \A j \in C : j <= k
      <4>1. CASE \E k \in C : \A j \in C : j <= k
        <5>1. top \in C
          BY <4>1
        <5>2. C \subseteq Keys
          BY DEF CoveredUpTo
        <5>3. top \in Keys
          BY <5>1, <5>2
        <5>4. ranges' = IF ack.ack = ranges[top].endSeq
                        THEN Put(ranges, top, CountAck(ranges[top])) ELSE ranges
          BY <3>1, <4>1 DEF IgnoreOld
        <5> HIDE DEF top
        <5> QED
          BY <5>3, <5>4
      <4>2. CASE ~\E k \in C : \A j \in C : j <= k
        BY <3>1, <4>2 DEF IgnoreOld
      <4> QED
        BY <4>1, <4>2
    <3> QED
      BY <1>9, <3>1 DEF AckOld
  <2> QED
    BY <1>3, <1>4, <2>1
<1> QED
  BY <1>5, <1>6, <1>7, <1>8, <1>9 DEF processAck

-----------------------------------------------------------------------------
(* Type correctness of the steps of the range manager. *)

\* What a call of insertByteRange does besides the map.
LEMMA ControlType ==
    ASSUME rmTypeOK,
           Return \/ (\E start \in Nat : Recurse(start)) \/ (\E why \in Failures : Fail(why))
    PROVE  /\ op' \in {"idle", "insert", "ack"} \cup Failures
           /\ op' = "ack" => op = "ack"
           /\ lastSeq' \in Nat /\ frame' \in Frames /\ seg' \in Segments
<1>1. /\ lastSeq \in Nat /\ frame \in Frames /\ seg \in Segments
      /\ op \in {"idle", "insert", "ack"} \cup Failures
  BY DEF rmTypeOK
<1>2. CASE Return
  <2>1. lastSeqAfter(seg) \in Nat
    BY <1>1 DEF lastSeqAfter, Segments
  <2> QED
    BY <1>1, <1>2, <2>1 DEF Return, NoFrame, NoSeg, Frames, Segments, Flags
<1>3. ASSUME NEW start \in Nat, Recurse(start)
      PROVE  /\ op' = op /\ lastSeq' = lastSeq /\ seg' = seg /\ frame' \in Frames
  <2>1. frame.level + 1 \in Nat
    BY <1>1 DEF Frames
  <2>2. [frame EXCEPT !.start = start, !.level = frame.level + 1] \in Frames
    BY <1>1, <2>1 DEF Frames
  <2> QED
    BY <1>3, <2>2 DEF Recurse
<1>4. ASSUME NEW why \in Failures, Fail(why)
      PROVE  /\ op' \in Failures /\ lastSeq' = lastSeq /\ seg' = seg /\ frame' = frame
  BY <1>4 DEF Fail
<1>5. "ack" \notin Failures
  BY DEF Failures
<1> QED
  BY <1>1, <1>2, <1>3, <1>4, <1>5 DEF Return

\* Every call of insertByteRange keeps the range manager's state well typed.
LEMMA InsertTypeOK ==
    ASSUME rmTypeOK, insertByteRange
    PROVE  rmTypeOK'
<1>1. /\ RangeMap(ranges) /\ Keys \subseteq Nat /\ frame \in Frames /\ op = "insert"
      /\ \A k \in Keys : ranges[k].endSeq \in Nat
  BY DEF rmTypeOK, RangeMap, Keys, ByteRanges, insertByteRange, InsertZeroLength,
         UpdateZeroLength, SplitHost, InsertNew, FailSynAck, FillEmpty, SpanRange,
         SplitTail, UpdateRange, StartFound
<1>2. ASSUME UNCHANGED ranges PROVE KeptOutside({})
  BY <1>1, <1>2 DEF KeptOutside, Keys
<1> DEFINE Control == \/ Return
                      \/ \E start \in Nat : Recurse(start)
                      \/ \E why \in Failures : Fail(why)
<1>3. (\E K : KeptOutside(K)) /\ Control
  <2>1. CASE InsertZeroLength
    <3>1. Control
      BY <2>1 DEF InsertZeroLength
    <3>2. KeptOutside({})
      BY <2>1, InsertZeroLengthShape
    <3> QED
      BY <3>1, <3>2
  <2>2. CASE UpdateZeroLength
    <3>1. Control
      BY <2>2 DEF UpdateZeroLength
    <3>2. KeptOutside({})
      BY <2>2, UpdateZeroLengthShape DEF CountsOnly
    <3> QED
      BY <3>1, <3>2
  <2>3. CASE SplitHost
    <3>1. PICK k \in Keys :
            /\ \E K : KeptOutside(K)
            /\ Recurse(ranges[k].endSeq) \/ Return
      BY <2>3, SplitHostShape DEF CutAt
    <3> QED
      BY <1>1, <3>1
  <2>4. CASE InsertNew
    <3>1. "assert_search" \in Failures
      BY DEF Failures
    <3>2. Control
      BY <2>4, <3>1, InsertNewShape
    <3>3. KeptOutside({})
      BY <1>2, <2>4, InsertNewShape
    <3> QED
      BY <3>2, <3>3
  <2>5. CASE FailSynAck
    <3>1. "assert_syn_ack" \in Failures
      BY DEF Failures
    <3>2. Control
      BY <2>5, <3>1 DEF FailSynAck
    <3>3. KeptOutside({})
      BY <1>2, <2>5 DEF FailSynAck
    <3> QED
      BY <3>2, <3>3
  <2>6. CASE FillEmpty
    <3>1. KeptOutside({frame.start}) /\ (Return \/ \E n \in Keys : Recurse(n))
      BY <2>6, FillEmptyShape
    <3> QED
      BY <1>1, <3>1
  <2>7. CASE SpanRange
    <3>1. "assert_tstamp" \in Failures /\ "recursion_level" \in Failures
      BY DEF Failures
    <3>2. frame.start \in Keys
      BY <2>7 DEF SpanRange, StartFound
    <3>3. \/ Fail("assert_tstamp") \/ Fail("recursion_level")
          \/ Recurse(ranges[frame.start].endSeq)
      BY <2>7 DEF SpanRange
    <3>4. Control
      BY <1>1, <3>1, <3>2, <3>3
    <3>5. KeptOutside({})
      BY <2>7, CoverShape DEF CountsOnly
    <3> QED
      BY <3>4, <3>5
  <2>8. CASE SplitTail
    <3>1. KeptOutside({frame.start})
      BY <2>8, SplitTailShape DEF CutAt
    <3>2. Control
      BY <2>8 DEF SplitTail
    <3> QED
      BY <3>1, <3>2
  <2>9. CASE UpdateRange
    <3>1. Control
      BY <2>9 DEF UpdateRange
    <3>2. KeptOutside({})
      BY <2>9, CoverShape DEF CountsOnly
    <3> QED
      BY <3>1, <3>2
  <2> QED
    BY <2>1, <2>2, <2>3, <2>4, <2>5, <2>6, <2>7, <2>8, <2>9 DEF insertByteRange
<1>4. /\ RangeMap(ranges') /\ Keys \subseteq Keys'
  BY <1>3 DEF KeptOutside
<1>5. /\ op' \in {"idle", "insert", "ack"} \cup Failures
      /\ op' # "ack"
      /\ lastSeq' \in Nat /\ frame' \in Frames /\ seg' \in Segments
  BY <1>1, <1>3, ControlType
<1>6. UNCHANGED <<firstSeq, highestAcked, ack>>
  BY DEF insertByteRange, InsertZeroLength, UpdateZeroLength, SplitHost, InsertNew,
         FailSynAck, FillEmpty, SpanRange, SplitTail, UpdateRange
<1>7. /\ firstSeq \in Nat /\ highestAcked \in Keys \cup {NoKey} /\ ack \in Acks
  BY DEF rmTypeOK, Keys
<1> QED
  BY <1>4, <1>5, <1>6, <1>7 DEF rmTypeOK, RangeMap, Keys

\* So does every turn of processAck's loop.
LEMMA AckTypeOK ==
    ASSUME rmTypeOK, processAck
    PROVE  rmTypeOK'
<1>1. /\ op = "ack" /\ ack.it \in Keys /\ ack.ack \in Nat /\ ack \in Acks
      /\ highestAcked \in Keys \cup {NoKey} /\ Keys \subseteq Nat
      /\ lastSeq \in Nat /\ firstSeq \in Nat /\ frame \in Frames /\ seg \in Segments
  BY DEF rmTypeOK, Keys, Acks, processAck, AckLast, AckBeforeSent, AckMore, AckSplit, AckOld
<1>2. /\ RangeMap(ranges') /\ Keys \subseteq Keys'
      /\ (ack.it < ack.ack /\ ack.ack < ranges[ack.it].endSeq => ack.ack \in Keys' \/ Keys' = Keys)
  BY AckShape DEF CountsOnly, CutAt, KeptOutside
<1>3. UNCHANGED <<lastSeq, firstSeq, frame, seg>>
  BY DEF processAck, AckLast, AckBeforeSent, AckMore, AckSplit, AckOld, AckReturn, IgnoreOld
<1>4. NoAck \in Acks
  BY DEF NoAck, Acks
<1>5. /\ op' \in {"idle", "ack", "bad_iterator"} /\ ack' \in Acks
      /\ op' = "ack" => ack'.it \in Keys
  <2>1. CASE AckReturn
    BY <1>4, <2>1 DEF AckReturn
  <2>2. CASE AckMore
    <3>1. CASE IsLast(ack.it)
      BY <1>4, <2>2, <3>1 DEF AckMore, AckReturn
    <3>2. CASE ~IsLast(ack.it)
      <4>1. PICK n \in Keys : ack' = [ack EXCEPT !.it = n] /\ op' = op
        BY <2>2, <3>2 DEF AckMore
      <4>2. ack' \in Acks /\ ack'.it = n
        BY <1>1, <4>1 DEF Acks
      <4> QED
        BY <1>1, <4>1, <4>2
    <3> QED
      BY <3>1, <3>2
  <2>3. CASE op' = "bad_iterator" /\ ack' = ack
    BY <1>1, <2>3
  <2> QED
    BY <2>1, <2>2, <2>3
       DEF processAck, AckLast, AckBeforeSent, AckSplit, AckOld, IgnoreOld
<1>6. highestAcked' \in Keys' \cup {NoKey}
  <2>1. CASE AckSplit
    <3>1. ack.ack \in Keys' /\ highestAcked' = ack.ack
      <4>1. DOMAIN ranges' = DOMAIN ranges \cup {ack.ack}
        <5> DEFINE cut == SplitAt(ranges, ack.it, ack.ack)
                   r == CountAck(insertAckTime(cut[ack.it], ack.time))
        <5>1. ranges' = Put(cut, ack.it, r)
          BY <2>1 DEF AckSplit
        <5>2. DOMAIN cut = DOMAIN ranges \cup {ack.ack}
          BY <1>1 DEF SplitAt, Insert, Put, Keys
        <5> HIDE DEF cut, r
        <5> QED
          BY <1>1, <5>1, <5>2 DEF Put, Keys
      <4> QED
        BY <2>1, <4>1 DEF AckSplit, Keys
    <3> QED
      BY <3>1
  <2>2. CASE highestAcked' = ack.it \/ highestAcked' = highestAcked
    BY <1>1, <1>2, <2>2
  <2> QED
    BY <2>1, <2>2 DEF processAck, AckLast, AckBeforeSent, AckMore, AckOld
<1>7. "bad_iterator" \in Failures
  BY DEF Failures
<1> QED
  BY <1>1, <1>2, <1>3, <1>5, <1>6, <1>7 DEF rmTypeOK, RangeMap, Keys

-----------------------------------------------------------------------------
(* The counters of Connection. *)

\* The last segment with payload did not start behind the largest end seen.
LargestOrdered == conn.lastLargestStartSeq <= conn.lastLargestEndSeq

\* As long as no later connection shows up, it is the end of data sent.
LargestInStream ==
    reuse = {} =>
        /\ base <= nxt
        /\ conn.lastLargestEndSeq = 0 \/ (base < nxt /\ conn.lastLargestEndSeq <= nxt)

CountersInv == TypeOK /\ LargestOrdered /\ TotalsConserved /\ LargestInStream

\* The fields of the counters, one by one.
LEMMA CounterFields ==
    ASSUME NEW c \in ConnCounters
    PROVE  /\ c.nrPacketsSent \in Nat /\ c.nrDataPacketsSent \in Nat
           /\ c.totBytesSent \in Nat /\ c.totRDBBytesSent \in Nat
           /\ c.totNewDataSent \in Nat /\ c.totRetransBytesSent \in Nat
           /\ c.nrRetrans \in Nat /\ c.bundleCount \in Nat
           /\ c.lastLargestStartSeq \in Nat /\ c.lastLargestEndSeq \in Nat
           /\ c.closed \in BOOLEAN /\ c.ignored_count \in Nat
BY DEF ConnCounters

\* A segment with payload keeps the counters well typed and in balance.
LEMMA CountDataType ==
    ASSUME conn \in ConnCounters, LargestOrdered, TotalsConserved,
           NEW s \in Segments, s.seq < s.endSeq
    PROVE  /\ countData(s) \in ConnCounters
           /\ countData(s).lastLargestStartSeq <= countData(s).lastLargestEndSeq
           /\ countData(s).totBytesSent =
                countData(s).totNewDataSent + countData(s).totRDBBytesSent
                  + countData(s).totRetransBytesSent
           /\ countData(s).closed = conn.closed
           /\ countData(s).lastLargestEndSeq \in {conn.lastLargestEndSeq, s.endSeq}
<1> DEFINE payload == payloadSize(s)
           old == conn.lastLargestEndSeq - s.seq
           fresh == payload - old
           packets == conn.nrPacketsSent + 1
           dataPackets == conn.nrDataPacketsSent + 1
           bytes == conn.totBytesSent + payload
           c == [conn EXCEPT !.nrPacketsSent = packets,
                             !.nrDataPacketsSent = dataPackets,
                             !.lastLargestStartSeq = s.seq,
                             !.totBytesSent = bytes]
           bundles == c.bundleCount + 1
           rdb == c.totRDBBytesSent + old
           newFresh == c.totNewDataSent + fresh
           newAll == c.totNewDataSent + payload
           retrans == c.nrRetrans + 1
           again == c.totRetransBytesSent + payload
<1>1. /\ s.seq \in Nat /\ s.endSeq \in Nat /\ payload \in Nat /\ payload = s.endSeq - s.seq
      /\ conn.lastLargestStartSeq \in Nat /\ conn.lastLargestEndSeq \in Nat
      /\ packets \in Nat /\ dataPackets \in Nat /\ bytes \in Nat
      /\ conn.totBytesSent \in Nat
  BY CounterFields DEF Segments, payloadSize
<1>2. /\ c \in ConnCounters
      /\ c.lastLargestStartSeq = s.seq
      /\ c.lastLargestEndSeq = conn.lastLargestEndSeq
      /\ c.totBytesSent = bytes
      /\ c.totNewDataSent = conn.totNewDataSent
      /\ c.totRDBBytesSent = conn.totRDBBytesSent
      /\ c.totRetransBytesSent = conn.totRetransBytesSent
      /\ c.closed = conn.closed
  <2> HIDE DEF packets, dataPackets, bytes
  <2> QED
    BY <1>1 DEF ConnCounters
<1>3. conn.totBytesSent = conn.totNewDataSent + conn.totRDBBytesSent + conn.totRetransBytesSent
  BY DEF TotalsConserved
<1> HIDE DEF c
<1>4. /\ c.totNewDataSent \in Nat /\ c.totRDBBytesSent \in Nat /\ c.totRetransBytesSent \in Nat
      /\ c.bundleCount \in Nat /\ c.nrRetrans \in Nat
  BY <1>2, CounterFields
<1>5. CASE IsBundle(s)
  <2>1. old \in Nat /\ fresh \in Nat
    BY <1>1, <1>5 DEF IsBundle, NewData, LargestOrdered
  <2>2. countData(s) = [c EXCEPT !.bundleCount = bundles,
                                 !.totRDBBytesSent = rdb,
                                 !.totNewDataSent = newFresh,
                                 !.lastLargestEndSeq = s.endSeq]
    BY <1>5 DEF countData, c
  <2>3. bundles \in Nat /\ rdb \in Nat /\ newFresh \in Nat
    BY <1>4, <2>1
  <2>4. bytes = newFresh + rdb + c.totRetransBytesSent
    BY <1>1, <1>2, <1>3, <1>4, <2>1
  <2> HIDE DEF bundles, rdb, newFresh, bytes
  <2>5. /\ countData(s) \in ConnCounters
        /\ countData(s).lastLargestStartSeq = s.seq
        /\ countData(s).lastLargestEndSeq = s.endSeq
        /\ countData(s).totBytesSent = bytes
        /\ countData(s).totNewDataSent = newFresh
        /\ countData(s).totRDBBytesSent = rdb
        /\ countData(s).totRetransBytesSent = c.totRetransBytesSent
        /\ countData(s).closed = conn.closed
    BY <1>1, <1>2, <2>2, <2>3 DEF ConnCounters
  <2> QED
    BY <1>1, <2>4, <2>5
<1>6. CASE ~IsBundle(s) /\ NewData(s)
  <2>1. countData(s) = [c EXCEPT !.totNewDataSent = newAll,
                                 !.lastLargestEndSeq = s.endSeq]
    BY <1>6 DEF countData, c
  <2>2. newAll \in Nat
    BY <1>1, <1>4
  <2>3. bytes = newAll + c.totRDBBytesSent + c.totRetransBytesSent
    BY <1>1, <1>2, <1>3, <1>4
  <2> HIDE DEF newAll, bytes
  <2>4. /\ countData(s) \in ConnCounters
        /\ countData(s).lastLargestStartSeq = s.seq
        /\ countData(s).lastLargestEndSeq = s.endSeq
        /\ countData(s).totBytesSent = bytes
        /\ countData(s).totNewDataSent = newAll
        /\ countData(s).totRDBBytesSent = c.totRDBBytesSent
        /\ countData(s).totRetransBytesSent = c.totRetransBytesSent
        /\ countData(s).closed = conn.closed
    BY <1>1, <1>2, <2>1, <2>2 DEF ConnCounters
  <2> QED
    BY <1>1, <2>3, <2>4
<1>7. CASE ~IsBundle(s) /\ ~NewData(s)
  <2>1. s.seq <= conn.lastLargestEndSeq
    BY <1>1, <1>7 DEF NewData
  <2>2. countData(s) = [c EXCEPT !.nrRetrans = retrans,
                                 !.totRetransBytesSent = again]
    BY <1>7 DEF countData, c
  <2>3. retrans \in Nat /\ again \in Nat
    BY <1>1, <1>4
  <2>4. bytes = c.totNewDataSent + c.totRDBBytesSent + again
    BY <1>1, <1>2, <1>3, <1>4
  <2> HIDE DEF retrans, again, bytes
  <2>5. /\ countData(s) \in ConnCounters
        /\ countData(s).lastLargestStartSeq = s.seq
        /\ countData(s).lastLargestEndSeq = conn.lastLargestEndSeq
        /\ countData(s).totBytesSent = bytes
        /\ countData(s).totNewDataSent = c.totNewDataSent
        /\ countData(s).totRDBBytesSent = c.totRDBBytesSent
        /\ countData(s).totRetransBytesSent = again
        /\ countData(s).closed = conn.closed
    BY <1>1, <1>2, <2>2, <2>3 DEF ConnCounters
  <2> QED
    BY <2>1, <2>4, <2>5
<1> QED
  BY <1>5, <1>6, <1>7

\* The TCP timestamp of a packet.
LEMMA TstampType ==
    ASSUME NEW time \in Nat
    PROVE  tstamp_tcp(time) \in Nat
<1>1. time \div TsTick \in Nat
  BY TsTickAssumption
<1> QED
  BY <1>1 DEF tstamp_tcp

\* The segment that processSent is given.
LEMMA NewSegment ==
    ASSUME clock \in Nat, NEW seq \in Nat, NEW endSeq \in Nat, NEW flag \in Flags
    PROVE  [seq |-> seq, endSeq |-> endSeq, flag |-> flag,
            retrans |-> FALSE, is_rdb |-> FALSE, rdb_end_seq |-> 0,
            time |-> clock + 1, tstamp_tcp |-> tstamp_tcp(clock + 1)] \in Segments
<1>1. clock + 1 \in Nat
  OBVIOUS
<1>2. tstamp_tcp(clock + 1) \in Nat
  BY <1>1, TstampType
<1> QED
  BY <1>1, <1>2 DEF Segments

\* What a segment puts on the wire.
LEMMA OnWireType ==
    ASSUME NEW s \in Segments
    PROVE  OnWire(s) \subseteq StampedBytes
<1>1. s.seq \in Nat /\ s.endSeq \in Nat /\ s.tstamp_tcp \in Nat
  BY DEF Segments
<1> QED
  BY <1>1 DEF OnWire, StampedBytes

\* registerSent and the call of insertByteRange after it keep the state well
\* typed and the totals in balance.
LEMMA ProcessSentType ==
    ASSUME CountersInv, NEW seq \in Nat, NEW endSeq \in Nat, seq <= endSeq,
           NEW flag \in Flags, processSent(seq, endSeq, flag)
    PROVE  /\ rmTypeOK' /\ conn' \in ConnCounters /\ clock' \in Nat
           /\ LargestOrdered' /\ TotalsConserved'
           /\ \/ conn'.lastLargestEndSeq = conn.lastLargestEndSeq
              \/ seq # endSeq /\ conn'.lastLargestEndSeq = endSeq
           /\ wire' \subseteq StampedBytes
           /\ UNCHANGED <<phase, base, acks, ackNo, recvNo, arrived, dups>>
<1> DEFINE s == [seq |-> seq, endSeq |-> endSeq, flag |-> flag,
                 retrans |-> FALSE, is_rdb |-> FALSE, rdb_end_seq |-> 0,
                 time |-> clock + 1, tstamp_tcp |-> tstamp_tcp(clock + 1)]
<1>1. /\ clock \in Nat /\ clock + 1 \in Nat /\ rmTypeOK /\ conn \in ConnCounters
      /\ LargestOrdered /\ TotalsConserved /\ wire \subseteq StampedBytes
  BY DEF CountersInv, TypeOK
<1>2. /\ s \in Segments /\ s.seq = seq /\ s.endSeq = endSeq
  BY <1>1, NewSegment
<1>3. /\ clock' = clock + 1
      /\ wire' = wire \cup OnWire(classify(s))
      /\ UNCHANGED <<ranges, lastSeq, highestAcked, ack, phase, base, acks, ackNo, recvNo,
                     arrived, dups>>
  BY DEF processSent
<1>6. classify(s) \in Segments
  <2> DEFINE b == IsBundle(s)
             e == IF b THEN conn.lastLargestEndSeq ELSE 0
             n == ~NewData(s)
  <2>1. b \in BOOLEAN /\ n \in BOOLEAN
    BY DEF IsBundle, NewData
  <2>2. e \in Nat
    BY <1>1, CounterFields
  <2> HIDE DEF s
  <2>3. classify(s) = IF payloadSize(s) = 0
                      THEN IF Restarted(s) THEN [s EXCEPT !.seq = 0, !.endSeq = 0] ELSE s
                      ELSE [s EXCEPT !.is_rdb = b, !.retrans = n, !.rdb_end_seq = e]
    BY DEF classify
  <2> HIDE DEF b, e, n
  <2>4. [s EXCEPT !.seq = 0, !.endSeq = 0] \in Segments
    BY <1>2 DEF Segments
  <2>5. [s EXCEPT !.is_rdb = b, !.retrans = n, !.rdb_end_seq = e] \in Segments
    BY <1>2, <2>1, <2>2 DEF Segments
  <2> QED
    BY <1>2, <2>3, <2>4, <2>5
<1>7. wire' \subseteq StampedBytes
  BY <1>1, <1>3, <1>6, OnWireType
<1>4. CASE Ignored(s)
  <2>1. /\ conn' = [conn EXCEPT !.nrPacketsSent = @ + 1, !.ignored_count = @ + 1]
        /\ UNCHANGED <<op, frame, seg, firstSeq>>
    BY <1>4 DEF processSent
  <2> DEFINE p == conn.nrPacketsSent + 1
             g == conn.ignored_count + 1
  <2>2. p \in Nat /\ g \in Nat
    BY <1>1, CounterFields
  <2>3. conn' = [conn EXCEPT !.nrPacketsSent = p, !.ignored_count = g]
    BY <2>1
  <2> HIDE DEF p, g
  <2>4. /\ conn' \in ConnCounters /\ LargestOrdered' /\ TotalsConserved'
        /\ conn'.lastLargestEndSeq = conn.lastLargestEndSeq
    BY <1>1, <2>2, <2>3 DEF ConnCounters, LargestOrdered, TotalsConserved
  <2> QED
    BY <1>1, <1>3, <1>7, <2>1, <2>4 DEF rmTypeOK
<1>5. CASE ~Ignored(s)
  <2>1. /\ conn' = IF payloadSize(s) # 0 THEN countData(s)
                   ELSE [conn EXCEPT !.nrPacketsSent = @ + 1,
                                     !.closed = @ \/ Reused(s)]
        /\ firstSeq' = IF Restarted(s) THEN firstSeq + s.seq ELSE firstSeq
        /\ Call(classify(s), "INSERT_SENT")
    BY <1>5 DEF processSent, insertSentRange
  <2>2. /\ conn' \in ConnCounters /\ LargestOrdered' /\ TotalsConserved'
        /\ \/ conn'.lastLargestEndSeq = conn.lastLargestEndSeq
           \/ seq # endSeq /\ conn'.lastLargestEndSeq = endSeq
    <3>1. CASE payloadSize(s) # 0
      <4>1. s.seq < s.endSeq
        BY <1>2, <3>1 DEF payloadSize
      <4> HIDE DEF s
      <4> QED
        BY <1>1, <1>2, <2>1, <3>1, <4>1, CountDataType DEF LargestOrdered, TotalsConserved
    <3>2. CASE payloadSize(s) = 0
      <4> DEFINE b == conn.closed \/ Reused(s)
                 p == conn.nrPacketsSent + 1
      <4>1. b \in BOOLEAN /\ p \in Nat
        BY <1>1, CounterFields DEF Reused
      <4>2. conn' = [conn EXCEPT !.nrPacketsSent = p, !.closed = b]
        BY <2>1, <3>2
      <4> HIDE DEF b, p
      <4> QED
        BY <1>1, <4>1, <4>2 DEF ConnCounters, LargestOrdered, TotalsConserved
    <3> QED
      BY <3>1, <3>2
  <2>4. firstSeq' \in Nat
    BY <1>1, <1>2, <2>1 DEF rmTypeOK
  <2>5. /\ op' = "insert" /\ seg' \in Segments /\ frame' \in Frames
    BY <1>6, <2>1 DEF Call, Frames, Segments
  <2> QED
    BY <1>1, <1>3, <1>7, <2>2, <2>4, <2>5 DEF rmTypeOK
<1> QED
  BY <1>4, <1>5

\* The actions that pass a segment of the sender trace to processSent.
SendStep ==
    \/ SendSyn \/ SendPureAck \/ SendFin \/ SendRst \/ SendKeepAlive
    \/ \E d \in SynOffsets : SendOtherSyn(d)
    \/ \E n \in 1 .. MaxPayload :
         \/ SendReused(n)
         \/ \E flag \in {"none", "fin"} :
              \/ SendNew(n, flag)
              \/ \E s \in 0 .. MaxSeq : Retransmit(s, n, flag)
         \/ \E s \in 0 .. MaxSeq : SendBundle(s, n)

\* Without a later connection, the segment is one of the stream.
OwnSegment(seq, endSeq) ==
    reuse' = {} =>
        /\ reuse = {} /\ nxt <= nxt'
        /\ seq = endSeq \/ (endSeq <= nxt' /\ base < nxt')

\* They do so with a well-formed segment.
LEMMA SendStepCalls ==
    ASSUME CountersInv, SendStep
    PROVE  /\ \E seq, endSeq \in Nat, flag \in Flags :
                seq <= endSeq /\ processSent(seq, endSeq, flag) /\ OwnSegment(seq, endSeq)
           /\ nxt' \in Nat /\ tcp' \in {"open", "fin", "rst"} /\ reuse' \subseteq Nat
<1>1. /\ nxt \in Nat /\ nxt + 1 \in Nat /\ tcp \in {"open", "fin", "rst"} /\ reuse \subseteq Nat
      /\ base \in {0, 1} /\ SndNxt \in Nat
      /\ SynOffsets \subseteq Nat /\ MaxPayload \in Nat /\ MaxSeq \in Nat
      /\ Established => reuse = {} /\ base <= nxt
  BY BoundsAssumption DEF CountersInv, TypeOK, SndNxt, LargestInStream, Established
<1>0. ASSUME NEW m \in Nat, UNCHANGED <<nxt, reuse>> PROVE OwnSegment(m, m)
  BY <1>0, <1>1 DEF OwnSegment
<1>2. {"none", "fin", "syn", "rst"} \subseteq Flags
  BY DEF Flags
<1>3. CASE SendSyn
  <2>1. 0 <= 0 /\ processSent(0, 0, "syn") /\ UNCHANGED <<nxt, tcp, reuse>>
    BY <1>3 DEF SendSyn
  <2> QED
    BY <1>0, <1>1, <1>2, <2>1
<1>4. CASE SendPureAck
  <2>1. SndNxt <= SndNxt /\ processSent(SndNxt, SndNxt, "none") /\ UNCHANGED <<nxt, tcp, reuse>>
    BY <1>1, <1>4 DEF SendPureAck
  <2> QED
    BY <1>0, <1>1, <1>2, <2>1
<1>5. CASE SendFin
  <2>1. nxt <= nxt /\ processSent(nxt, nxt, "fin") /\ UNCHANGED <<nxt, reuse>> /\ tcp' = "fin"
    BY <1>1, <1>5 DEF SendFin
  <2> QED
    BY <1>0, <1>1, <1>2, <2>1
<1>6. CASE SendRst
  <2>1. /\ SndNxt <= SndNxt /\ processSent(SndNxt, SndNxt, "rst")
        /\ UNCHANGED <<nxt, reuse>> /\ tcp' = "rst"
    BY <1>1, <1>6 DEF SendRst
  <2> QED
    BY <1>0, <1>1, <1>2, <2>1
<1>7. CASE SendKeepAlive
  <2>1. /\ nxt - 1 <= nxt - 1 /\ nxt - 1 \in Nat /\ processSent(nxt - 1, nxt - 1, "none")
        /\ UNCHANGED <<nxt, tcp, reuse>>
    BY <1>1, <1>7 DEF SendKeepAlive
  <2> QED
    BY <1>0, <1>1, <1>2, <2>1
<1>8. CASE \E d \in SynOffsets : SendOtherSyn(d)
  <2>1. PICK d \in SynOffsets : SendOtherSyn(d)
    BY <1>8
  <2>2. /\ d \in Nat /\ d <= d /\ processSent(d, d, "syn")
        /\ UNCHANGED <<nxt, tcp>> /\ reuse' \subseteq Nat /\ reuse \subseteq reuse'
    BY <1>1, <2>1 DEF SendOtherSyn
  <2>3. OwnSegment(d, d)
    BY <1>1, <2>2 DEF OwnSegment
  <2> QED
    BY <1>1, <1>2, <2>2, <2>3
<1>9. ASSUME NEW n \in 1 .. MaxPayload,
             \/ SendReused(n)
             \/ \E flag \in {"none", "fin"} :
                  \/ SendNew(n, flag)
                  \/ \E s \in 0 .. MaxSeq : Retransmit(s, n, flag)
             \/ \E s \in 0 .. MaxSeq : SendBundle(s, n)
      PROVE  /\ \E seq, endSeq \in Nat, flag \in Flags :
                   seq <= endSeq /\ processSent(seq, endSeq, flag) /\ OwnSegment(seq, endSeq)
             /\ nxt' \in Nat /\ tcp' \in {"open", "fin", "rst"} /\ reuse' \subseteq Nat
  <2>1. n \in Nat /\ n >= 1
    BY <1>1
  <2>2. CASE SendReused(n)
    <3>1. PICK d \in reuse : processSent(d + 1, d + 1 + n, "none")
      BY <2>2 DEF SendReused
    <3>2. /\ d + 1 \in Nat /\ d + 1 + n \in Nat /\ d + 1 <= d + 1 + n
          /\ UNCHANGED <<nxt, tcp, reuse>>
      BY <1>1, <2>1, <2>2, <3>1 DEF SendReused
    <3>3. OwnSegment(d + 1, d + 1 + n)
      BY <3>1, <3>2 DEF OwnSegment
    <3> QED
      BY <1>1, <1>2, <3>1, <3>2, <3>3
  <2>3. ASSUME NEW flag \in {"none", "fin"}, SendNew(n, flag)
        PROVE  /\ nxt + n \in Nat /\ nxt <= nxt + n /\ processSent(nxt, nxt + n, flag)
               /\ nxt' = nxt + n /\ UNCHANGED reuse /\ tcp' \in {tcp, "fin"}
               /\ OwnSegment(nxt, nxt + n)
    BY <1>1, <2>1, <2>3 DEF SendNew, OwnSegment
  <2>4. ASSUME NEW flag \in {"none", "fin"}, NEW s \in 0 .. MaxSeq, Retransmit(s, n, flag)
        PROVE  /\ s \in Nat /\ s + n \in Nat /\ s <= s + n /\ processSent(s, s + n, flag)
               /\ UNCHANGED <<nxt, tcp, reuse>> /\ OwnSegment(s, s + n)
    BY <1>1, <2>1, <2>4 DEF Retransmit, OwnSegment
  <2>5. ASSUME NEW s \in 0 .. MaxSeq, SendBundle(s, n)
        PROVE  /\ s \in Nat /\ s + n \in Nat /\ s <= s + n /\ processSent(s, s + n, "none")
               /\ nxt' = s + n /\ UNCHANGED <<tcp, reuse>> /\ OwnSegment(s, s + n)
    BY <1>1, <2>1, <2>5 DEF SendBundle, OwnSegment
  <2> QED
    BY <1>1, <1>2, <1>9, <2>2, <2>3, <2>4, <2>5
<1> QED
  BY <1>3, <1>4, <1>5, <1>6, <1>7, <1>8, <1>9 DEF SendStep

\* A retry of the SYN comes before data: it restarts the numbering.
LEMMA RetryUnexpected ==
    ASSUME CountersInv, NEW d \in SynOffsets, SendOtherSyn(d), d <= SynSlack
    PROVE  d > conn.lastLargestEndSeq + 1
<1>1. d \in Nat /\ d >= 2
  BY BoundsAssumption
<1>2. base = 1 /\ nxt = 1 /\ reuse = {}
  BY DEF SendOtherSyn
<1>3. conn.lastLargestEndSeq = 0
  BY <1>2 DEF CountersInv, LargestInStream
<1> QED
  BY <1>1, <1>3

\* The initial state is well typed.
LEMMA InitCounters == Init => CountersInv
<1> SUFFICES ASSUME Init PROVE CountersInv
  OBVIOUS
<1>1. rmTypeOK
  BY BoundsAssumption
     DEF Init, rmInit, rmTypeOK, NoFrame, NoSeg, NoAck, Frames, Segments, Acks, Flags
<1>2. conn \in ConnCounters /\ LargestOrdered /\ TotalsConserved
  BY DEF Init, ConnCounters, LargestOrdered, TotalsConserved
<1>5. LargestInStream
  BY BoundsAssumption DEF Init, LargestInStream
<1>3. acks \in Seq([ack : Nat, time : Nat, echo : BOOLEAN])
  BY DEF Init
<1>4. base \in {0, 1} /\ nxt \in Nat
  BY BoundsAssumption DEF Init
<1> QED
  BY <1>1, <1>2, <1>3, <1>4, <1>5 DEF CountersInv, TypeOK, Init

\* Next, with the actions that call processSent taken together.
LEMMA NextCases ==
    ASSUME Next
    PROVE  \/ RangeManagerStep
           \/ SendStep
           \/ \E n \in 1 .. MaxPayload : DropNew(n)
           \/ \E a \in 0 .. MaxSeq + 2, echo \in BOOLEAN : AckArrives(a, echo)
           \/ \E s \in 0 .. MaxSeq + 1, n \in 0 .. MaxPayload, flag \in {"none", "syn", "fin"} :
                \E ts \in {0} \cup {p.ts : p \in wire \cup arrived} : processRecvd(s, s + n, flag, ts)
           \/ StartAcks \/ processAcks \/ StartRecv
BY DEF Next, Trace, SendStep

\* Every step keeps the state well typed and the totals in balance.
LEMMA NextCounters ==
    ASSUME CountersInv, [Next]_vars
    PROVE  CountersInv'
<1>1. TypeOK /\ rmTypeOK /\ LargestOrdered /\ TotalsConserved /\ LargestInStream
  BY DEF CountersInv, TypeOK
<1>2. ASSUME UNCHANGED <<conn, base, reuse>>, nxt' \in Nat, nxt <= nxt'
      PROVE  LargestOrdered' /\ TotalsConserved' /\ LargestInStream'
  <2>1. nxt \in Nat /\ base \in Nat /\ conn.lastLargestEndSeq \in Nat
    BY <1>1, CounterFields DEF TypeOK
  <2> QED
    BY <1>1, <1>2, <2>1 DEF LargestOrdered, TotalsConserved, LargestInStream
<1>0. ASSUME UNCHANGED <<conn, base, nxt, reuse>>
      PROVE  LargestOrdered' /\ TotalsConserved' /\ LargestInStream'
  BY <1>0, <1>1 DEF LargestOrdered, TotalsConserved, LargestInStream
<1>3. ASSUME UNCHANGED rmVars PROVE rmTypeOK'
  BY <1>1, <1>3 DEF rmVars, rmTypeOK
<1>4. CASE UNCHANGED vars
  <2>1. UNCHANGED rmVars /\ UNCHANGED conn /\ UNCHANGED envVars
    BY <1>4 DEF vars
  <2> QED
    BY <1>0, <1>1, <1>3, <2>1 DEF CountersInv, TypeOK, envVars
<1>5. CASE RangeManagerStep
  <2>1. rmTypeOK'
    BY <1>1, <1>5, InsertTypeOK, AckTypeOK DEF RangeManagerStep
  <2>2. UNCHANGED conn /\ UNCHANGED envVars
    BY <1>5 DEF RangeManagerStep
  <2> QED
    BY <1>0, <1>1, <2>1, <2>2 DEF CountersInv, TypeOK, envVars
<1>6. CASE SendStep
  <2>1. PICK seq \in Nat, endSeq \in Nat, flag \in Flags :
          seq <= endSeq /\ processSent(seq, endSeq, flag) /\ OwnSegment(seq, endSeq)
    BY <1>6, SendStepCalls
  <2>2. /\ rmTypeOK' /\ conn' \in ConnCounters /\ clock' \in Nat
        /\ LargestOrdered' /\ TotalsConserved'
        /\ \/ conn'.lastLargestEndSeq = conn.lastLargestEndSeq
           \/ seq # endSeq /\ conn'.lastLargestEndSeq = endSeq
        /\ wire' \subseteq StampedBytes
        /\ UNCHANGED <<phase, base, acks, ackNo, recvNo, arrived, dups>>
    BY <2>1, ProcessSentType
  <2>3. nxt' \in Nat /\ tcp' \in {"open", "fin", "rst"} /\ reuse' \subseteq Nat
    BY <1>6, SendStepCalls
  <2>4. LargestInStream'
    <3>1. /\ nxt \in Nat /\ base \in Nat /\ conn.lastLargestEndSeq \in Nat /\ base' = base
      BY <1>1, <2>2, CounterFields DEF TypeOK
    <3> QED
      BY <1>1, <2>1, <2>2, <2>3, <3>1 DEF LargestInStream, OwnSegment
  <2> QED
    BY <1>1, <2>2, <2>3, <2>4 DEF CountersInv, TypeOK
<1>7. ASSUME NEW n \in 1 .. MaxPayload, DropNew(n) PROVE CountersInv'
  <2>1. /\ UNCHANGED rmVars /\ nxt' \in Nat /\ nxt <= nxt'
        /\ UNCHANGED <<conn, phase, clock, base, tcp, reuse, acks, ackNo, recvNo, arrived, dups>>
    BY <1>1, <1>7, BoundsAssumption DEF DropNew, TypeOK
  <2> DEFINE g == [NoSeg EXCEPT !.seq = nxt, !.endSeq = nxt + n,
                                !.tstamp_tcp = tstamp_tcp(clock + 1)]
  <2>2. g \in Segments
    <3>1. clock + 1 \in Nat /\ nxt \in Nat /\ nxt + n \in Nat
      BY <1>1, BoundsAssumption DEF TypeOK
    <3>2. tstamp_tcp(clock + 1) \in Nat
      BY <3>1, TstampType
    <3> QED
      BY <3>1, <3>2 DEF NoSeg, Segments, Flags
  <2>3. wire' = wire \cup OnWire(g)
    BY <1>7 DEF DropNew
  <2> HIDE DEF g
  <2>4. wire' \subseteq StampedBytes
    BY <1>1, <2>2, <2>3, OnWireType DEF TypeOK
  <2> QED
    BY <1>1, <1>2, <1>3, <2>1, <2>4 DEF CountersInv, TypeOK
<1>8. ASSUME NEW a \in 0 .. MaxSeq + 2, NEW echo \in BOOLEAN, AckArrives(a, echo)
      PROVE  CountersInv'
  <2> DEFINE T == [ack : Nat, time : Nat, echo : BOOLEAN]
             e == [ack |-> a, time |-> clock + 1, echo |-> echo]
  <2>1. /\ UNCHANGED rmVars /\ clock' \in Nat
        /\ UNCHANGED <<conn, phase, base, nxt, tcp, reuse, ackNo, recvNo, wire, arrived, dups>>
    BY <1>1, <1>8 DEF AckArrives, TypeOK
  <2>2. acks' \in Seq(T)
    <3>1. e \in T
      BY <1>1, BoundsAssumption DEF TypeOK
    <3>2. acks' = Append(acks, e) /\ acks \in Seq(T)
      BY <1>1, <1>8 DEF AckArrives, TypeOK
    <3> HIDE DEF e, T
    <3> QED
      BY <3>1, <3>2
  <2> QED
    BY <1>0, <1>1, <1>3, <2>1, <2>2 DEF CountersInv, TypeOK
<1>9. CASE StartAcks \/ StartRecv
  <2>1. /\ UNCHANGED rmVars /\ phase' \in {"acks", "recv"}
        /\ UNCHANGED <<conn, clock, base, nxt, tcp, reuse, acks, ackNo, recvNo, wire, arrived, dups>>
    BY <1>9 DEF StartAcks, StartRecv
  <2> QED
    BY <1>0, <1>1, <1>3, <2>1 DEF CountersInv, TypeOK
<1>10. CASE processAcks
  <2> DEFINE e == acks[ackNo + 1]
  <2>1. PICK first \in Keys : CallAck(e.ack, e.time, e.echo, first)
    BY <1>10 DEF processAcks
  <2>2. e \in [ack : Nat, time : Nat, echo : BOOLEAN] /\ ackNo + 1 \in Nat
    <3> DEFINE T == [ack : Nat, time : Nat, echo : BOOLEAN]
    <3>1. acks \in Seq(T) /\ ackNo \in Nat /\ ackNo < Len(acks)
      BY <1>1, <1>10 DEF processAcks, TypeOK
    <3> HIDE DEF T
    <3>2. acks[ackNo + 1] \in T /\ ackNo + 1 \in Nat
      BY <3>1
    <3> QED
      BY <3>2 DEF T
  <2> HIDE DEF e
  <2>3. rmTypeOK'
    <3> DEFINE it == IF highestAcked = NoKey THEN first ELSE highestAcked
    <3>1. it \in Keys /\ Keys \subseteq Nat
      BY <1>1 DEF rmTypeOK, Keys
    <3>2. /\ UNCHANGED <<ranges, lastSeq, firstSeq, highestAcked, frame, seg>>
          /\ \/ UNCHANGED <<op, ack>>
             \/ /\ op' = "ack"
                /\ ack' = [ack |-> e.ack, time |-> e.time, echo |-> e.echo, it |-> it]
      BY <2>1 DEF CallAck
    <3> HIDE DEF it
    <3>3. CASE UNCHANGED <<op, ack>>
      BY <1>3, <3>2, <3>3 DEF rmVars
    <3>4. CASE op' = "ack" /\ ack' = [ack |-> e.ack, time |-> e.time, echo |-> e.echo, it |-> it]
      <4>1. ack' \in Acks /\ ack'.it = it
        BY <2>2, <3>1, <3>4 DEF Acks
      <4> QED
        BY <1>1, <3>1, <3>2, <3>4, <4>1 DEF rmTypeOK, Keys
    <3> QED
      BY <3>2, <3>3, <3>4
  <2>4. /\ ackNo' \in Nat
        /\ UNCHANGED <<conn, phase, clock, base, nxt, tcp, reuse, acks, recvNo, wire, arrived, dups>>
    BY <1>10, <2>2 DEF processAcks
  <2> QED
    BY <1>0, <1>1, <2>3, <2>4 DEF CountersInv, TypeOK
<1>11. ASSUME NEW s \in 0 .. MaxSeq + 1, NEW n \in 0 .. MaxPayload,
              NEW flag \in {"none", "syn", "fin"},
              NEW ts \in {0} \cup {p.ts : p \in wire \cup arrived}, processRecvd(s, s + n, flag, ts)
       PROVE  CountersInv'
  <2> DEFINE g == [seq |-> s, endSeq |-> s + n, flag |-> flag, retrans |-> FALSE,
                   is_rdb |-> FALSE, rdb_end_seq |-> 0,
                   time |-> clock + 1, tstamp_tcp |-> ts]
  <2>0. ts \in Nat
    BY <1>1 DEF TypeOK, StampedBytes
  <2>1. clock' \in Nat /\ recvNo' \in Nat /\ clock + 1 \in Nat /\ s \in Nat /\ s + n \in Nat
    BY <1>1, <1>11, BoundsAssumption DEF processRecvd, TypeOK
  <2>2. g \in Segments /\ g.seq = s /\ g.endSeq = s + n
    BY <2>0, <2>1 DEF Segments, Flags
  <2>3. Call(g, "INSERT_RECV")
    BY <1>11 DEF processRecvd, insertReceivedRange
  <2> HIDE DEF g
  <2>4. op' = "insert" /\ seg' \in Segments /\ frame' \in Frames
    BY <2>1, <2>2, <2>3 DEF Call, Frames
  <2>5. UNCHANGED <<ranges, lastSeq, firstSeq, highestAcked, ack, conn,
                    phase, base, nxt, tcp, reuse, acks, ackNo>>
    BY <1>11 DEF processRecvd, insertReceivedRange
  <2>6. rmTypeOK'
    BY <1>1, <2>4, <2>5 DEF rmTypeOK
  <2>7. wire' \subseteq wire /\ arrived' \subseteq StampedBytes
    <3> DEFINE last == IF s = s + n THEN s + n + 1 ELSE s + n
    <3>1. Piece(s, last, ts) \subseteq StampedBytes
      BY <2>0, <2>1 DEF Piece, StampedBytes
    <3> QED
      BY <1>1, <1>11, <3>1 DEF processRecvd, TypeOK
  <2>8. dups' \in Nat
    BY <1>1, <1>11, BoundsAssumption DEF processRecvd, TypeOK
  <2> QED
    BY <1>0, <1>1, <2>1, <2>5, <2>6, <2>7, <2>8 DEF CountersInv, TypeOK
<1> QED
  BY <1>4, <1>5, <1>6, <1>7, <1>8, <1>9, <1>10, <1>11, NextCases

\* The state of the connection and of its range manager is always well typed:
\* no counter of registerSent goes below zero, and the iterators that
\* processAck keeps (highestAckedByteRangeIt, it) always point into the map.
THEOREM TypeCorrect == Spec => []TypeOK
<1>1. Init => CountersInv
  BY InitCounters
<1>2. CountersInv /\ [Next]_vars => CountersInv'
  BY NextCounters
<1>3. CountersInv => TypeOK
  BY DEF CountersInv
<1> QED
  BY <1>1, <1>2, <1>3, PTL DEF Spec

\* The check of validateContent on the totals never fails: however segments
\* overlap, registerSent counts each byte sent exactly once, as new, as
\* redundant or as retransmitted.
THEOREM TotalsAlwaysConserved == Spec => []TotalsConserved
<1>1. Init => CountersInv
  BY InitCounters
<1>2. CountersInv /\ [Next]_vars => CountersInv'
  BY NextCounters
<1>3. CountersInv => TotalsConserved
  BY DEF CountersInv
<1> QED
  BY <1>1, <1>2, <1>3, PTL DEF Spec

-----------------------------------------------------------------------------
(* The bytes of a later connection on the same port. *)

\* A range holds no bytes, or ends within the stream.
Within(k) == ranges[k].endSeq = k \/ ranges[k].endSeq <= nxt

\* What is left of the segment of the current call holds no bytes, or ends
\* within the stream.
CallWithin ==
    op = "insert" =>
        \/ frame.start = frame.end
        \/ frame.start < frame.end /\ frame.end <= nxt

\* Every later connection begins beyond the stream, more than one behind it.
ReuseBeyond == \A d \in reuse : d > nxt + 1

\* Once the port is used again the connection is closed, and nothing beyond the
\* stream was taken for data of it: registerSent ignores the later one.
ReuseShut ==
    /\ conn.lastLargestEndSeq <= nxt
    /\ reuse # {} => conn.closed

OwnState ==
    /\ \A k \in Keys : Within(k)
    /\ CallWithin
    /\ ReuseShut

OwnInv == CountersInv /\ (ReuseBeyond => OwnState)

\* Changing counters only, or cutting a range that ends within the stream, keeps
\* all ranges within it.
LEMMA ShapesKeepWithin ==
    ASSUME rmTypeOK, nxt \in Nat, UNCHANGED nxt, \A k \in Keys : Within(k),
           \/ CountsOnly
           \/ \E k \in Keys, at \in Nat : k < at /\ at < ranges[k].endSeq /\ CutAt(k, at)
    PROVE  \A k \in Keys' : Within(k)'
<1>1. Keys \subseteq Nat /\ \A k \in Keys : ranges[k].endSeq \in Nat
  BY DEF rmTypeOK, Keys, ByteRanges
<1>2. CASE CountsOnly
  BY <1>2 DEF CountsOnly, KeptOutside, Within
<1>3. ASSUME NEW k \in Keys, NEW at \in Nat, k < at, at < ranges[k].endSeq, CutAt(k, at)
      PROVE  \A j \in Keys' : Within(j)'
  <2>1. ranges[k].endSeq <= nxt
    BY <1>1, <1>3 DEF Within
  <2>2. /\ Keys' = Keys \cup {at} /\ ranges'[k].endSeq = at
        /\ at \notin Keys => ranges'[at].endSeq = ranges[k].endSeq
        /\ \A j \in Keys \ {k} : ranges'[j].endSeq = ranges[j].endSeq
    BY <1>3 DEF CutAt, KeptOutside
  <2> QED
    BY <1>1, <1>3, <2>1, <2>2 DEF Within
<1> QED
  BY <1>2, <1>3

\* A step of insertByteRange or processAck keeps every range, and the rest of
\* the call, within the stream.
LEMMA RangeManagerKeepsOwn ==
    ASSUME CountersInv, OwnState, RangeManagerStep
    PROVE  (\A k \in Keys' : Within(k)') /\ CallWithin'
<1> DEFINE s == frame.start
           e == frame.end
<1>1. /\ rmTypeOK /\ nxt \in Nat /\ UNCHANGED nxt
      /\ Keys \subseteq Nat /\ \A k \in Keys : ranges[k].endSeq \in Nat
      /\ s \in Nat /\ e \in Nat /\ frame \in Frames
  BY DEF CountersInv, TypeOK, rmTypeOK, Keys, ByteRanges, Frames, RangeManagerStep, envVars
<1>2. /\ \A k \in Keys : Within(k)
      /\ CallWithin
  BY DEF OwnState
<1>3. ASSUME op' # "insert" PROVE CallWithin'
  BY <1>3 DEF CallWithin
<1>4. Return => CallWithin'
  BY <1>3 DEF Return
<1>5. ASSUME NEW n \in Nat, n < e, e <= nxt, Recurse(n) PROVE CallWithin'
  <2>1. frame'.start = n /\ frame'.end = e
    BY <1>1, <1>5 DEF Recurse, Frames
  <2> QED
    BY <1>1, <1>5, <2>1 DEF CallWithin
<1>6. ASSUME NEW why \in Failures, Fail(why) PROVE CallWithin'
  BY <1>3, <1>6 DEF Fail, Failures
<1>7. ASSUME op = "insert", ~ZeroLength PROVE s < e /\ e <= nxt
  BY <1>2, <1>7 DEF CallWithin, ZeroLength
<1>8. CASE InsertZeroLength
  <2>1. /\ Keys' = Keys \cup {s} /\ ranges'[s].endSeq = s /\ s \notin Keys
        /\ \A j \in Keys : ranges'[j].endSeq = ranges[j].endSeq
    BY <1>1, <1>8, InsertZeroLengthShape DEF KeptOutside
  <2>2. Return
    BY <1>8 DEF InsertZeroLength
  <2> QED
    BY <1>1, <1>2, <1>4, <2>1, <2>2 DEF Within
<1>9. CASE UpdateZeroLength
  <2>1. CountsOnly /\ Return
    BY <1>1, <1>9, UpdateZeroLengthShape DEF UpdateZeroLength
  <2> QED
    BY <1>1, <1>2, <1>4, <2>1, ShapesKeepWithin
<1>10. CASE SplitHost
  <2>1. s < e /\ e <= nxt
    BY <1>7, <1>10 DEF SplitHost
  <2>2. PICK k \in Keys :
             /\ Host(k)
             /\ \/ /\ e > ranges[k].endSeq
                   /\ CutAt(k, s)
                   /\ Recurse(ranges[k].endSeq)
                \/ /\ e = ranges[k].endSeq
                   /\ CutAt(k, s)
                   /\ Return
                \/ /\ e < ranges[k].endSeq
                   /\ KeptOutside({k})
                   /\ Keys' = Keys \cup {s, e}
                   /\ ranges'[k].endSeq = s
                   /\ ranges'[s].endSeq = e
                   /\ e \notin Keys => ranges'[e].endSeq = ranges[k].endSeq
                   /\ Return
    BY <1>1, <1>10, SplitHostShape
  <2>3. k < s /\ s < ranges[k].endSeq /\ s \notin Keys
    BY <1>10, <2>2 DEF Host, IsPrev, SplitHost
  <2>4. ranges[k].endSeq <= nxt /\ s <= nxt
    BY <1>1, <1>2, <2>3 DEF Within
  <2>5. CASE CutAt(k, s) /\ (Return \/ (e > ranges[k].endSeq /\ Recurse(ranges[k].endSeq)))
    BY <1>1, <1>2, <1>4, <1>5, <2>1, <2>3, <2>5, ShapesKeepWithin
  <2>6. CASE /\ e < ranges[k].endSeq
             /\ KeptOutside({k})
             /\ Keys' = Keys \cup {s, e}
             /\ ranges'[k].endSeq = s
             /\ ranges'[s].endSeq = e
             /\ e \notin Keys => ranges'[e].endSeq = ranges[k].endSeq
             /\ Return
    <3>1. \A j \in Keys \ {k} : ranges'[j].endSeq = ranges[j].endSeq
      BY <2>6 DEF KeptOutside
    <3> QED
      BY <1>1, <1>2, <1>4, <2>1, <2>3, <2>4, <2>6, <3>1 DEF Within
  <2> QED
    BY <2>2, <2>5, <2>6
<1>11. CASE InsertNew
  <2>1. s < e /\ e <= nxt
    BY <1>7, <1>11 DEF InsertNew
  <2>2. CASE UNCHANGED ranges /\ (Return \/ Fail("assert_search"))
    <3>1. CallWithin'
      BY <1>4, <1>6, <2>2 DEF Failures
    <3> QED
      BY <1>1, <1>2, <2>2, <3>1 DEF Within, Keys
  <2>3. CASE /\ KeptOutside({}) /\ Keys' = Keys \cup {s}
             /\ ranges'[s].endSeq = e /\ Return
    <3>1. \A j \in Keys : ranges'[j].endSeq = ranges[j].endSeq
      BY <2>3 DEF KeptOutside
    <3> QED
      BY <1>1, <1>2, <1>4, <2>1, <2>3, <3>1 DEF Within
  <2> QED
    BY <1>1, <1>11, <2>2, <2>3, InsertNewShape
<1>12. CASE FailSynAck
  <2>1. UNCHANGED ranges /\ CallWithin'
    BY <1>6, <1>12 DEF FailSynAck, Failures
  <2> QED
    BY <1>1, <1>2, <2>1 DEF Within, Keys
<1>13. CASE FillEmpty
  <2>1. s < e /\ e <= nxt
    BY <1>7, <1>13 DEF FillEmpty, StartFound
  <2>2. /\ Keys' = Keys
        /\ \A j \in Keys \ {s} : ranges'[j].endSeq = ranges[j].endSeq
        /\ \/ ranges'[s].endSeq = e /\ Return
           \/ \E n \in Keys : n < e /\ ranges'[s].endSeq = n /\ Recurse(n)
    BY <1>1, <1>13, FillEmptyShape DEF KeptOutside
  <2>3. CASE ranges'[s].endSeq = e /\ Return
    BY <1>1, <1>2, <1>4, <2>1, <2>2, <2>3 DEF Within
  <2>4. ASSUME NEW n \in Keys, n < e, ranges'[s].endSeq = n, Recurse(n)
        PROVE  (\A k \in Keys' : Within(k)') /\ CallWithin'
    <3>1. CallWithin'
      BY <1>1, <1>5, <2>1, <2>4
    <3>2. n <= nxt
      BY <1>1, <2>1, <2>4
    <3> QED
      BY <1>1, <1>2, <2>2, <2>4, <3>1, <3>2 DEF Within
  <2> QED
    BY <2>2, <2>3, <2>4
<1>14. CASE SpanRange \/ UpdateRange
  <2>1. s < e /\ e <= nxt /\ s \in Keys
    BY <1>7, <1>14 DEF SpanRange, UpdateRange, StartFound
  <2>2. CountsOnly
    BY <1>1, <1>14, CoverShape
  <2>3. \/ Return \/ Fail("assert_tstamp") \/ Fail("recursion_level")
        \/ ranges[s].endSeq < e /\ Recurse(ranges[s].endSeq)
    BY <1>14 DEF SpanRange, UpdateRange
  <2>4. CallWithin'
    BY <1>1, <1>4, <1>5, <1>6, <2>1, <2>3 DEF Failures
  <2> QED
    BY <1>1, <1>2, <2>2, <2>4, ShapesKeepWithin
<1>15. CASE SplitTail
  <2>1. s < e /\ s \in Keys /\ e < ranges[s].endSeq
    BY <1>1, <1>7, <1>15 DEF SplitTail, StartFound
  <2>2. CutAt(s, e) /\ Return
    BY <1>1, <1>15, SplitTailShape DEF SplitTail
  <2> QED
    BY <1>1, <1>2, <1>4, <2>1, <2>2, ShapesKeepWithin
<1>16. CASE processAck
  <2>1. op = "ack" /\ (UNCHANGED op \/ op' \in {"idle", "bad_iterator"})
    BY <1>16 DEF processAck, AckLast, AckBeforeSent, AckMore, AckSplit, AckOld, AckReturn, IgnoreOld
  <2>2. CallWithin'
    BY <1>3, <2>1
  <2>3. ack.it \in Keys /\ ack.ack \in Nat
    BY <1>1, <2>1 DEF rmTypeOK, Keys, Acks
  <2>4. \/ CountsOnly
        \/ /\ ack.it < ack.ack /\ ack.ack < ranges[ack.it].endSeq
           /\ CutAt(ack.it, ack.ack)
    BY <1>1, <1>16, AckShape
  <2> QED
    BY <1>1, <1>2, <2>2, <2>3, <2>4, ShapesKeepWithin
<1> QED
  BY <1>8, <1>9, <1>10, <1>11, <1>12, <1>13, <1>14, <1>15, <1>16 DEF RangeManagerStep, insertByteRange

\* What processSent passes to insertByteRange: nothing, an empty segment, or the
\* segment itself; and how it moves the counters that ReuseShut reads.
LEMMA SentWithin ==
    ASSUME CountersInv, NEW seq \in Nat, NEW endSeq \in Nat, seq <= endSeq,
           NEW flag \in Flags, processSent(seq, endSeq, flag)
    PROVE  /\ UNCHANGED ranges
           /\ \/ UNCHANGED <<op, frame>>
              \/ /\ op' = "insert"
                 /\ \/ frame'.start = frame'.end
                    \/ frame'.start = seq /\ frame'.end = endSeq
           /\ conn.closed => conn'.closed
           /\ conn'.lastLargestEndSeq \in {conn.lastLargestEndSeq, endSeq}
           /\ seq = endSeq => conn'.lastLargestEndSeq = conn.lastLargestEndSeq
           /\ (flag = "syn" /\ seq > SynSlack /\ seq = endSeq /\ seq > conn.lastLargestEndSeq + 1)
                => conn'.closed
           /\ conn.closed /\ endSeq > conn.lastLargestEndSeq /\ seq # conn.lastLargestEndSeq + 1 =>
                UNCHANGED <<op, frame>> /\ conn'.lastLargestEndSeq = conn.lastLargestEndSeq
<1> DEFINE s == [seq |-> seq, endSeq |-> endSeq, flag |-> flag,
                 retrans |-> FALSE, is_rdb |-> FALSE, rdb_end_seq |-> 0,
                 time |-> clock + 1, tstamp_tcp |-> tstamp_tcp(clock + 1)]
<1>1. /\ s \in Segments /\ s.seq = seq /\ s.endSeq = endSeq /\ s.flag = flag
      /\ conn \in ConnCounters /\ LargestOrdered /\ TotalsConserved
      /\ conn.lastLargestEndSeq \in Nat /\ conn.closed \in BOOLEAN
  BY NewSegment, CounterFields DEF CountersInv, TypeOK
<1>2. UNCHANGED ranges
  BY DEF processSent
<1>3. CASE Ignored(s)
  <2>1. /\ conn' = [conn EXCEPT !.nrPacketsSent = @ + 1, !.ignored_count = @ + 1]
        /\ UNCHANGED <<op, frame>>
    BY <1>3 DEF processSent
  <2>2. conn'.closed = conn.closed /\ conn'.lastLargestEndSeq = conn.lastLargestEndSeq
    BY <1>1, <2>1 DEF ConnCounters
  <2>3. conn.closed
    BY <1>3 DEF Ignored
  <2> QED
    BY <1>2, <2>1, <2>2, <2>3
<1>4. CASE ~Ignored(s)
  <2>1. /\ conn' = IF payloadSize(s) # 0 THEN countData(s)
                   ELSE [conn EXCEPT !.nrPacketsSent = @ + 1,
                                     !.closed = @ \/ Reused(s)]
        /\ Call(classify(s), "INSERT_SENT")
    BY <1>4 DEF processSent, insertSentRange
  <2>2. ~(conn.closed /\ endSeq > conn.lastLargestEndSeq /\ seq # conn.lastLargestEndSeq + 1)
    BY <1>1, <1>4 DEF Ignored, Unexpected
  <2> HIDE DEF s
  <2>3. CASE seq # endSeq
    <3>1. payloadSize(s) # 0 /\ s.seq < s.endSeq
      BY <1>1, <2>3 DEF payloadSize
    <3>2. /\ conn'.closed = conn.closed
          /\ conn'.lastLargestEndSeq \in {conn.lastLargestEndSeq, endSeq}
      BY <1>1, <2>1, <3>1, CountDataType
    <3>3. classify(s).seq = seq /\ classify(s).endSeq = endSeq
      BY <1>1, <3>1 DEF classify, Segments
    <3>4. op' = "insert" /\ frame'.start = seq /\ frame'.end = endSeq
      BY <2>1, <3>3 DEF Call
    <3> QED
      BY <1>2, <2>2, <2>3, <3>2, <3>4
  <2>4. CASE seq = endSeq
    <3>1. payloadSize(s) = 0
      BY <1>1, <2>4 DEF payloadSize
    <3> DEFINE b == conn.closed \/ Reused(s)
    <3>2. /\ conn'.lastLargestEndSeq = conn.lastLargestEndSeq
          /\ conn'.closed = b
      BY <1>1, <2>1, <3>1 DEF ConnCounters
    <3>3. classify(s).seq = classify(s).endSeq
      BY <1>1, <2>4, <3>1 DEF classify, Segments
    <3>4. op' = "insert" /\ frame'.start = frame'.end
      BY <2>1, <3>3 DEF Call
    <3>5. flag = "syn" /\ seq > SynSlack /\ seq > conn.lastLargestEndSeq + 1 => b
      BY <1>1, <2>4 DEF Reused, Unexpected
    <3> QED
      BY <1>2, <2>2, <2>4, <3>2, <3>4, <3>5
  <2> QED
    BY <2>3, <2>4
<1> QED
  BY <1>3, <1>4

\* Sending a segment keeps the calls within the stream; the data of a later
\* connection is ignored.
LEMMA SendKeepsOwn ==
    ASSUME CountersInv, OwnState, SendStep, ReuseBeyond'
    PROVE  UNCHANGED ranges /\ nxt <= nxt' /\ CallWithin' /\ ReuseShut'
<1>1. /\ nxt \in Nat /\ reuse \subseteq Nat /\ base \in {0, 1} /\ SndNxt \in Nat
      /\ SynOffsets \subseteq Nat /\ MaxPayload \in Nat /\ MaxSeq \in Nat /\ SynSlack \in Nat
      /\ conn.lastLargestEndSeq \in Nat
      /\ CountersInv /\ CallWithin /\ ReuseShut
  BY BoundsAssumption, CounterFields DEF OwnState, CountersInv, TypeOK, SndNxt
<1>2. {"none", "fin", "syn", "rst"} \subseteq Flags
  BY DEF Flags
<1>3. ASSUME NEW m \in Nat, NEW flag \in Flags, processSent(m, m, flag), reuse = {},
             UNCHANGED <<nxt, reuse>>
      PROVE  UNCHANGED ranges /\ nxt <= nxt' /\ CallWithin' /\ ReuseShut'
  <2>1. /\ UNCHANGED ranges
        /\ UNCHANGED <<op, frame>> \/ (op' = "insert" /\ frame'.start = frame'.end)
        /\ conn'.lastLargestEndSeq = conn.lastLargestEndSeq
    BY <1>1, <1>3, SentWithin
  <2> QED
    BY <1>1, <1>3, <2>1 DEF CallWithin, ReuseShut
<1>4. ASSUME NEW m \in Nat, NEW n \in Nat, n > m, NEW flag \in Flags, processSent(m, n, flag),
             reuse' = {}, nxt' \in Nat, nxt <= nxt', n <= nxt'
      PROVE  UNCHANGED ranges /\ nxt <= nxt' /\ CallWithin' /\ ReuseShut'
  <2>1. /\ UNCHANGED ranges
        /\ \/ UNCHANGED <<op, frame>>
           \/ /\ op' = "insert"
              /\ frame'.start = frame'.end \/ (frame'.start = m /\ frame'.end = n)
        /\ conn'.lastLargestEndSeq \in {conn.lastLargestEndSeq, n}
    BY <1>1, <1>4, SentWithin
  <2>2. frame.end \in Nat
    BY <1>1 DEF CountersInv, TypeOK, rmTypeOK, Frames
  <2> QED
    BY <1>1, <1>4, <2>1, <2>2 DEF CallWithin, ReuseShut
<1>5. CASE SendSyn \/ SendPureAck \/ SendFin \/ SendRst \/ SendKeepAlive
  <2>1. reuse = {} /\ UNCHANGED <<nxt, reuse>>
    BY <1>5 DEF SendSyn, SendPureAck, SendFin, SendRst, SendKeepAlive, Established
  <2>2. SendKeepAlive => nxt - 1 \in Nat
    BY <1>1 DEF SendKeepAlive
  <2>3. \E m \in Nat, flag \in Flags : processSent(m, m, flag)
    BY <1>1, <1>2, <1>5, <2>2 DEF SendSyn, SendPureAck, SendFin, SendRst, SendKeepAlive
  <2> QED
    BY <1>3, <2>1, <2>3
<1>6. ASSUME NEW d \in SynOffsets, SendOtherSyn(d)
      PROVE  UNCHANGED ranges /\ nxt <= nxt' /\ CallWithin' /\ ReuseShut'
  <2>1. /\ d \in Nat /\ processSent(d, d, "syn") /\ nxt' = nxt
        /\ reuse' = IF d > SynSlack THEN reuse \cup {d} ELSE reuse
    BY <1>1, <1>6 DEF SendOtherSyn
  <2>2. /\ UNCHANGED ranges
        /\ UNCHANGED <<op, frame>> \/ (op' = "insert" /\ frame'.start = frame'.end)
        /\ conn'.lastLargestEndSeq = conn.lastLargestEndSeq
        /\ conn.closed => conn'.closed
        /\ d > SynSlack /\ d > conn.lastLargestEndSeq + 1 => conn'.closed
    BY <1>1, <1>2, <2>1, SentWithin
  <2>3. d > SynSlack => d > nxt + 1
    BY <2>1 DEF ReuseBeyond
  <2>4. d > SynSlack => d > conn.lastLargestEndSeq + 1
    BY <1>1, <2>1, <2>3 DEF ReuseShut
  <2>5. CASE d > SynSlack
    BY <1>1, <2>1, <2>2, <2>4, <2>5 DEF CallWithin, ReuseShut
  <2>6. CASE ~(d > SynSlack)
    BY <1>1, <2>1, <2>2, <2>6 DEF CallWithin, ReuseShut
  <2> QED
    BY <2>5, <2>6
<1>7. ASSUME NEW n \in 1 .. MaxPayload, SendReused(n)
      PROVE  UNCHANGED ranges /\ nxt <= nxt' /\ CallWithin' /\ ReuseShut'
  <2>1. PICK d \in reuse : processSent(d + 1, d + 1 + n, "none")
    BY <1>7 DEF SendReused
  <2>2. UNCHANGED <<nxt, reuse>>
    BY <1>7 DEF SendReused
  <2>3. d \in Nat /\ d > nxt + 1 /\ conn.closed
    BY <1>1, <2>1, <2>2 DEF ReuseBeyond, ReuseShut
  <2> DEFINE m == d + 1
             z == d + 1 + n
  <2>4. /\ m \in Nat /\ z \in Nat /\ m <= z /\ processSent(m, z, "none")
        /\ z > conn.lastLargestEndSeq /\ m # conn.lastLargestEndSeq + 1
    BY <1>1, <2>1, <2>3 DEF ReuseShut
  <2> HIDE DEF m, z
  <2>5. /\ UNCHANGED ranges /\ UNCHANGED <<op, frame>> /\ conn'.closed
        /\ conn'.lastLargestEndSeq = conn.lastLargestEndSeq
    BY <1>1, <1>2, <2>3, <2>4, SentWithin
  <2> QED
    BY <1>1, <2>2, <2>5 DEF CallWithin, ReuseShut
<1>8. ASSUME NEW n \in 1 .. MaxPayload, NEW flag \in {"none", "fin"}, SendNew(n, flag)
      PROVE  UNCHANGED ranges /\ nxt <= nxt' /\ CallWithin' /\ ReuseShut'
  <2>1. /\ nxt + n \in Nat /\ nxt + n > nxt /\ processSent(nxt, nxt + n, flag)
        /\ nxt' = nxt + n /\ reuse' = {}
    BY <1>1, <1>8 DEF SendNew, Established
  <2> QED
    BY <1>1, <1>2, <1>4, <2>1
<1>9. ASSUME NEW n \in 1 .. MaxPayload, NEW flag \in {"none", "fin"}, NEW s \in 0 .. MaxSeq,
             Retransmit(s, n, flag)
      PROVE  UNCHANGED ranges /\ nxt <= nxt' /\ CallWithin' /\ ReuseShut'
  <2>1. /\ s \in Nat /\ s + n \in Nat /\ s + n > s /\ processSent(s, s + n, flag)
        /\ nxt' = nxt /\ s + n <= nxt /\ reuse' = {}
    BY <1>1, <1>9 DEF Retransmit, Established
  <2> QED
    BY <1>1, <1>2, <1>4, <2>1
<1>10. ASSUME NEW n \in 1 .. MaxPayload, NEW s \in 0 .. MaxSeq, SendBundle(s, n)
       PROVE  UNCHANGED ranges /\ nxt <= nxt' /\ CallWithin' /\ ReuseShut'
  <2>1. /\ s \in Nat /\ s + n \in Nat /\ s + n > s /\ processSent(s, s + n, "none")
        /\ nxt' = s + n /\ nxt < s + n /\ reuse' = {}
    BY <1>1, <1>10 DEF SendBundle, Established
  <2> QED
    BY <1>1, <1>2, <1>4, <2>1
<1> QED
  BY <1>5, <1>6, <1>7, <1>8, <1>9, <1>10 DEF SendStep

\* The stream does not shrink and a later connection stays one, so that what
\* lies beyond the stream after a step did so before.
LEMMA BeyondBefore ==
    ASSUME CountersInv, CountersInv', [Next]_vars, ReuseBeyond'
    PROVE  ReuseBeyond
<1>1. nxt \in Nat /\ nxt' \in Nat /\ reuse \subseteq Nat /\ MaxPayload \in Nat
  BY BoundsAssumption DEF CountersInv, TypeOK
<1>2. CASE UNCHANGED <<nxt, reuse>>
  BY <1>2 DEF ReuseBeyond
<1>3. CASE reuse = {}
  BY <1>3 DEF ReuseBeyond
<1>4. CASE reuse \subseteq reuse' /\ UNCHANGED nxt
  BY <1>4 DEF ReuseBeyond
<1>5. CASE UNCHANGED vars \/ RangeManagerStep \/ StartAcks \/ StartRecv \/ processAcks
  BY <1>2, <1>5 DEF vars, envVars, RangeManagerStep, StartAcks, StartRecv, processAcks
<1>6. CASE SendStep
  BY <1>2, <1>3, <1>4, <1>6
     DEF SendStep, SendSyn, SendPureAck, SendFin, SendRst, SendKeepAlive, SendOtherSyn,
         SendReused, SendNew, Retransmit, SendBundle, Established
<1>7. ASSUME NEW n \in 1 .. MaxPayload, DropNew(n) PROVE ReuseBeyond
  BY <1>3, <1>7 DEF DropNew, Established
<1>8. ASSUME NEW a \in 0 .. MaxSeq + 2, NEW echo \in BOOLEAN, AckArrives(a, echo)
      PROVE  ReuseBeyond
  BY <1>2, <1>8 DEF AckArrives
<1>9. ASSUME NEW s \in 0 .. MaxSeq + 1, NEW n \in 0 .. MaxPayload,
             NEW flag \in {"none", "syn", "fin"},
             NEW ts \in {0} \cup {p.ts : p \in wire \cup arrived}, processRecvd(s, s + n, flag, ts)
      PROVE  ReuseBeyond
  BY <1>2, <1>9 DEF processRecvd
<1> QED
  BY <1>5, <1>6, <1>7, <1>8, <1>9, NextCases

\* No byte of a later connection gets into the ranges if each of them begins
\* more than one behind the stream, whatever is captured, missed, reordered or
\* sent again: registerSent then closes the connection at its SYN and ignores
\* all data behind it.  A SYN that lies lower is not recognised.
THEOREM OwnBytesAlways == Spec => []OwnBytesOnly
<1>1. Init => OwnInv
  <2> SUFFICES ASSUME Init PROVE OwnInv
    OBVIOUS
  <2>1. CountersInv
    BY InitCounters
  <2>2. conn.lastLargestEndSeq = 0 /\ nxt \in Nat /\ Keys = {} /\ op = "idle" /\ reuse = {}
    BY <2>1 DEF Init, rmInit, Keys, CountersInv, TypeOK
  <2> QED
    BY <2>1, <2>2 DEF OwnInv, OwnState, CallWithin, ReuseShut
<1>2. OwnInv /\ [Next]_vars => OwnInv'
  <2> SUFFICES ASSUME OwnInv, [Next]_vars, ReuseBeyond' PROVE OwnState'
    BY NextCounters DEF OwnInv
  <2>0. CountersInv /\ CountersInv'
    BY NextCounters DEF OwnInv
  <2>10. OwnState
    BY <2>0, BeyondBefore DEF OwnInv
  <2>1. /\ nxt \in Nat /\ nxt' \in Nat /\ conn.lastLargestEndSeq \in Nat
        /\ Keys \subseteq Nat /\ \A k \in Keys : ranges[k].endSeq \in Nat
        /\ frame.start \in Nat /\ frame.end \in Nat
        /\ (\A k \in Keys : Within(k)) /\ CallWithin /\ ReuseShut
    BY <2>0, <2>10, CounterFields
       DEF OwnState, CountersInv, TypeOK, rmTypeOK, Keys, ByteRanges, Frames
  <2>2. ASSUME UNCHANGED ranges, nxt <= nxt' PROVE \A k \in Keys' : Within(k)'
    BY <2>1, <2>2 DEF Within, Keys
  <2>3. ASSUME UNCHANGED <<op, frame>>, nxt <= nxt' PROVE CallWithin'
    BY <2>1, <2>3 DEF CallWithin
  <2>4. ASSUME UNCHANGED <<conn, reuse>>, nxt <= nxt' PROVE ReuseShut'
    BY <2>1, <2>4 DEF ReuseShut
  <2>5. CASE RangeManagerStep
    <3>1. UNCHANGED <<conn, reuse, nxt>>
      BY <2>5 DEF RangeManagerStep, envVars
    <3>2. (\A k \in Keys' : Within(k)') /\ CallWithin'
      BY <2>0, <2>5, <2>10, RangeManagerKeepsOwn
    <3> QED
      BY <2>1, <2>4, <3>1, <3>2 DEF OwnState
  <2>6. CASE SendStep
    BY <2>0, <2>1, <2>2, <2>6, <2>10, SendKeepsOwn DEF OwnState
  <2>7. ASSUME \/ UNCHANGED vars
               \/ \E n \in 1 .. MaxPayload : DropNew(n)
               \/ \E a \in 0 .. MaxSeq + 2, echo \in BOOLEAN : AckArrives(a, echo)
               \/ StartAcks \/ StartRecv
        PROVE  OwnState'
    <3>1. UNCHANGED <<ranges, op, frame, conn, reuse>>
      BY <2>7 DEF vars, rmVars, envVars, DropNew, AckArrives, StartAcks, StartRecv
    <3>2. UNCHANGED nxt \/ \E n \in 1 .. MaxPayload : nxt' = nxt + n
      BY <2>7 DEF vars, envVars, DropNew, AckArrives, StartAcks, StartRecv
    <3>3. nxt <= nxt'
      BY <2>1, <3>2, BoundsAssumption
    <3> QED
      BY <2>1, <2>2, <2>3, <2>4, <3>1, <3>3 DEF OwnState
  <2>8. CASE processAcks
    <3>1. /\ UNCHANGED <<ranges, frame, conn, reuse, nxt>>
          /\ UNCHANGED op \/ op' # "insert"
      BY <2>8 DEF processAcks, CallAck
    <3>2. CallWithin'
      BY <2>1, <3>1 DEF CallWithin
    <3> QED
      BY <2>1, <2>2, <2>4, <3>1, <3>2 DEF OwnState
  <2>9. ASSUME NEW s \in 0 .. MaxSeq + 1, NEW n \in 0 .. MaxPayload,
               NEW flag \in {"none", "syn", "fin"},
               NEW ts \in {0} \cup {p.ts : p \in wire \cup arrived}, processRecvd(s, s + n, flag, ts)
        PROVE  OwnState'
    <3>1. /\ UNCHANGED <<ranges, conn, reuse, nxt>>
          /\ frame'.start = s /\ frame'.end = s + n
          /\ s = s + n \/ (s < s + n /\ s + n <= nxt)
      BY <2>9 DEF processRecvd, insertReceivedRange, Call
    <3>2. CallWithin'
      BY <2>1, <3>1 DEF CallWithin
    <3> QED
      BY <2>1, <2>2, <2>4, <3>1, <3>2 DEF OwnState
  <2> QED
    BY <2>5, <2>6, <2>7, <2>8, <2>9, NextCases
<1>3. OwnInv => OwnBytesOnly
  <2> SUFFICES ASSUME OwnInv, ReuseBeyond PROVE LaterBytesIgnored
    BY DEF OwnBytesOnly, ReuseBeyond
  <2>1. Keys \subseteq Nat /\ \A k \in Keys : ranges[k].endSeq \in Nat /\ Within(k)
    BY DEF OwnInv, OwnState, CountersInv, TypeOK, rmTypeOK, Keys, ByteRanges
  <2> QED
    BY <2>1 DEF LaterBytesIgnored, Within, byte_count
<1> QED
  BY <1>1, <1>2, <1>3, PTL DEF Spec

=============================================================================
