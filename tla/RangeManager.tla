---------------------------- MODULE RangeManager ----------------------------
(***************************************************************************)
(* RangeManager: the map of byte ranges of one connection, how a sent or   *)
(* received segment is registered in it (insertSentRange,                  *)
(* insertReceivedRange, insertByteRange) and how an acknowledgement is     *)
(* (processAck).                                                           *)
(*                                                                         *)
(* insertByteRange only calls itself as the last thing it does, and        *)
(* processAck walks the map one range at a time; one step of this module   *)
(* is one call of insertByteRange or one turn of processAck's loop.  The   *)
(* call in progress is in op, frame, seg (insertByteRange) or op, ack      *)
(* (processAck).  The step that returns from the outermost call of         *)
(* insertByteRange also does what insertSentRange does after it.           *)
(*                                                                         *)
(* The program is built without DEBUG and with asserts, so a failed assert *)
(* ends it: op then names the cause.                                       *)
(***************************************************************************)
EXTENDS ByteRange, FiniteSets

CONSTANT RecursionLevel     \* RECURSION_LEVEL: 1500 in the program

ASSUME RecursionLevelAssumption == RecursionLevel \in Nat

VARIABLES
    ranges,         \* map<seq64_t, ByteRange*>: startSeq -> range
    lastSeq,
    firstSeq,       \* raw sequence number of offset 0
    highestAcked,   \* highestAckedByteRangeIt: a key of ranges, or NoKey
    op,             \* "idle", the call in progress, or why the program ended
    frame,          \* arguments of the current call of insertByteRange
    seg,            \* DataSeg *data_seg
    ack             \* processAck: the segment and its local variables

rmVars == <<ranges, lastSeq, firstSeq, highestAcked, op, frame, seg, ack>>

NoKey == -1

Failures == {"assert_syn_ack", "assert_search", "assert_tstamp",
             "recursion_level", "bad_iterator"}
Flags == {"none", "syn", "fin", "rst"}

Segments == [seq : Nat, endSeq : Nat, flag : Flags,
             retrans : BOOLEAN, is_rdb : BOOLEAN, rdb_end_seq : Nat,
             time : Nat, tstamp_tcp : Nat]
NoSeg == [seq |-> 0, endSeq |-> 0, flag |-> "none",
          retrans |-> FALSE, is_rdb |-> FALSE, rdb_end_seq |-> 0,
          time |-> 0, tstamp_tcp |-> 0]

Frames == [start : Nat, end : Nat, itype : {"INSERT_SENT", "INSERT_RECV"},
           level : Nat]
NoFrame == [start |-> 0, end |-> 0, itype |-> "INSERT_SENT", level |-> 0]

Acks == [ack : Nat, time : Nat, echo : BOOLEAN, it : Nat]
NoAck == [ack |-> 0, time |-> 0, echo |-> FALSE, it |-> 0]

rmInit ==
    /\ ranges = [k \in {} |-> newByteRange(0, 0)]
    /\ lastSeq = 0
    /\ highestAcked = NoKey
    /\ op = "idle"
    /\ frame = NoFrame
    /\ seg = NoSeg
    /\ ack = NoAck

rmTypeOK ==
    /\ DOMAIN ranges \subseteq Nat
    /\ \A k \in DOMAIN ranges : ranges[k] \in ByteRanges
    /\ lastSeq \in Nat
    /\ firstSeq \in Nat
    /\ highestAcked \in DOMAIN ranges \cup {NoKey}
    /\ op \in {"idle", "insert", "ack"} \cup Failures
    /\ frame \in Frames
    /\ seg \in Segments
    /\ ack \in Acks
    /\ op = "ack" => ack.it \in DOMAIN ranges

-----------------------------------------------------------------------------
(* The map. *)

Keys == DOMAIN ranges

byte_count(k) == ranges[k].endSeq - k

Put(rs, k, r) == [x \in DOMAIN rs \cup {k} |-> IF x = k THEN r ELSE rs[x]]

\* map::insert leaves an element that is already there alone.
Insert(rs, k, r) == IF k \in DOMAIN rs THEN rs ELSE Put(rs, k, r)

\* Mutant of SplitAt: the range that is split keeps its end.
SplitAtKeep(rs, k, at) == Insert(rs, at, split(rs[k], at))

\* splitEnd of the range at key k, and the insertion of the new range.
SplitAt(rs, k, at) ==
    Insert(Put(rs, k, Truncate(rs[k], at)), at, split(rs[k], at))

IsFirst(k) == k \in Keys /\ \A j \in Keys : k <= j
IsLast(k) == \A j \in Keys : j <= k
IsNext(k, n) == n > k /\ \A j \in Keys : j <= k \/ j >= n
IsPrev(k, p) == p < k /\ \A j \in Keys : j <= p \/ j >= k

-----------------------------------------------------------------------------
(* insertSentRange, insertReceivedRange *)

\* The call of insertByteRange with level 0.
Call(s, itype) ==
    /\ op = "idle"
    /\ op' = "insert"
    /\ seg' = s
    /\ frame' = [start |-> s.seq, end |-> s.endSeq, itype |-> itype, level |-> 0]

insertSentRange(s) == Call(s, "INSERT_SENT")
insertReceivedRange(s) == Call(s, "INSERT_RECV")

payloadSize(s) == s.endSeq - s.seq

\* Mutant of lastSeqAfter: any segment moves lastSeq.
lastSeqAfterAny(s) == s.endSeq

\* Mutant of lastSeqAfter: only data that begins at lastSeq moves it.
lastSeqAfterExact(s) ==
    IF payloadSize(s) = 0
    THEN IF s.flag = "rst" THEN lastSeq
         ELSE IF s.flag = "syn" THEN s.endSeq + 1
         ELSE s.endSeq
    ELSE IF s.seq = lastSeq THEN s.endSeq ELSE lastSeq

\* insertSentRange's update of lastSeq, after insertByteRange.
lastSeqAfter(s) ==
    IF payloadSize(s) = 0
    THEN IF s.flag = "rst" THEN lastSeq
         ELSE IF s.flag = "syn" THEN s.endSeq + 1
         ELSE s.endSeq
    ELSE IF s.seq = lastSeq \/ (s.seq < lastSeq /\ s.endSeq > lastSeq)
         THEN s.endSeq
         ELSE lastSeq

Return ==
    /\ op' = "idle"
    /\ lastSeq' = IF frame.itype = "INSERT_SENT" THEN lastSeqAfter(seg) ELSE lastSeq
    /\ frame' = NoFrame
    /\ seg' = NoSeg

Recurse(start) ==
    /\ frame' = [frame EXCEPT !.start = start, !.level = @ + 1]
    /\ UNCHANGED <<op, lastSeq, seg>>

Fail(why) ==
    /\ op' = why
    /\ UNCHANGED <<lastSeq, frame, seg>>

-----------------------------------------------------------------------------
(* insertByteRange *)

SENT == frame.itype = "INSERT_SENT"
ZeroLength == frame.start = frame.end
Outermost == frame.level = 0

\* The part of a bundle up to the end of what was sent before.
this_is_rdb_data == seg.is_rdb /\ seg.rdb_end_seq > frame.start

\* Mutant of start_seq: the range in front is not looked up.
start_seqUnchecked ==
    IF ZeroLength /\ seg.flag = "none" THEN frame.start - 1 ELSE frame.start

\* "If start seq -1 exists, use that", for a pure ack.
start_seq ==
    IF ZeroLength /\ seg.flag = "none" /\ frame.start - 1 \in Keys
    THEN frame.start - 1
    ELSE frame.start

\* The range in front of start_seq, which the search looks at first, if it goes
\* beyond start_seq.  The search stops at no later range, they start behind it.
Host(k) ==
    /\ k \in Keys
    /\ IsPrev(frame.start, k)
    /\ ranges[k].endSeq > frame.start

\* A segment without payload at a sequence number that is not in the map.
InsertZeroLength ==
    LET flagged == seg.flag # "none"
        r == [newByteRange(start_seq, start_seq) EXCEPT
                !.packet_retrans_count = Add(@, seg.retrans),
                !.rdb_count = Add(@, seg.is_rdb),
                !.syn = Add(@, seg.flag = "syn"),
                !.fin = Add(@, seg.flag = "fin"),
                !.rst = Add(@, seg.flag = "rst")]
    IN /\ op = "insert"
       /\ ZeroLength
       /\ start_seq \notin Keys
       /\ ranges' = Put(ranges, start_seq,
                        increase_sent(r, seg.time, this_is_rdb_data,
                                      IF flagged THEN "ST_PKT" ELSE "ST_PURE_ACK"))
       /\ Return
       /\ UNCHANGED <<firstSeq, highestAcked, ack>>

\* A segment without payload at the start of a range.
UpdateZeroLength ==
    LET r == ranges[start_seq]
        sent == [increase_sent(r, seg.time, this_is_rdb_data,
                     CASE seg.flag \in {"syn", "fin"} -> "ST_RTR"
                       [] seg.flag = "rst" -> "ST_RST"
                       [] OTHER -> "ST_PURE_ACK")
                 EXCEPT !.syn = Add(@, seg.flag = "syn"),
                        !.fin = Add(@, seg.flag = "fin"),
                        !.rst = Add(@, seg.flag = "rst")]
        recvd == [(IF seg.flag \in {"syn", "fin"}
                   THEN increase_received(r, seg.tstamp_tcp, seg.time) ELSE r)
                  EXCEPT !.packet_received_count = Add(@, Outermost)]
    IN /\ op = "insert"
       /\ ZeroLength
       /\ start_seq \in Keys
       /\ ranges' = Put(ranges, start_seq, IF SENT THEN sent ELSE recvd)
       /\ Return
       /\ UNCHANGED <<firstSeq, highestAcked, ack>>

\* Mutant of Credit: every recursive call counts the packet.
CreditEveryLevel(r) ==
    IF SENT
    THEN [increase_sent(r, seg.time, this_is_rdb_data,
              IF seg.retrans THEN "ST_RTR" ELSE "ST_PKT")
          EXCEPT !.fin = Add(@, Outermost /\ seg.flag = "fin"),
                 !.data_retrans_count = Add(@, seg.retrans),
                 !.rdb_count = Add(@, seg.is_rdb)]
    ELSE [increase_received(r, seg.tstamp_tcp, seg.time)
          EXCEPT !.packet_received_count = Add(@, TRUE)]

\* What the segment adds to a range whose start it matches.
Credit(r) ==
    IF SENT
    THEN [increase_sent(r, seg.time, this_is_rdb_data,
              IF ~Outermost THEN "ST_NONE"
              ELSE IF seg.retrans THEN "ST_RTR" ELSE "ST_PKT")
          EXCEPT !.fin = Add(@, Outermost /\ seg.flag = "fin"),
                 !.data_retrans_count = Add(@, seg.retrans),
                 !.rdb_count = Add(@, seg.is_rdb)]
    ELSE [increase_received(r, seg.tstamp_tcp, seg.time)
          EXCEPT !.packet_received_count = Add(@, Outermost)]

\* Mutant of CreditSplit: the retransmission of the part is not counted.
CreditSplitFirst(r) ==
    IF SENT
    THEN [increase_sent(r, seg.time, this_is_rdb_data,
              IF Outermost THEN "ST_RTR" ELSE "ST_NONE")
          EXCEPT !.rdb_count = Add(@, seg.is_rdb)]
    ELSE Credit(r)

\* What the segment adds to the part of a range split off for it.
CreditSplit(r) ==
    IF SENT
    THEN [increase_sent(r, seg.time, this_is_rdb_data,
              IF Outermost THEN "ST_RTR" ELSE "ST_NONE")
          EXCEPT !.data_retrans_count = Add(@, TRUE),
                 !.rdb_count = Add(@, seg.is_rdb)]
    ELSE Credit(r)

\* fin is set, not counted, on the part split off, and only if the segment
\* ends in the same range.
SetFin(r) == IF seg.flag = "fin" THEN [r EXCEPT !.fin = 1] ELSE r

\* The segment starts inside a range: split it there, and once more if the
\* segment also ends inside, or go on behind the range.
SplitHost ==
    /\ op = "insert"
    /\ ~ZeroLength
    /\ frame.start \notin Keys
    /\ frame.start < lastSeq
    /\ \E k \in Keys :
        LET host == ranges[k]
            cut == SplitAt(ranges, k, frame.start)
        IN /\ Host(k)
           /\ IF frame.end > host.endSeq
              THEN /\ ranges' = Put(cut, frame.start, CreditSplit(cut[frame.start]))
                   /\ Recurse(host.endSeq)
              ELSE LET cut2 == IF frame.end = host.endSeq THEN cut
                               ELSE SplitAt(cut, frame.start, frame.end)
                   IN /\ ranges' = Put(cut2, frame.start,
                                       CreditSplit(SetFin(cut2[frame.start])))
                      /\ Return
    /\ UNCHANGED <<firstSeq, highestAcked, ack>>

\* No range holds the start of the segment: a new range for what was sent.
\* Received data that was never seen sent is dropped.
InsertNew ==
    LET r == [increase_sent(newByteRange(frame.start, frame.end), seg.time,
                            this_is_rdb_data, IF seg.is_rdb THEN "ST_NONE" ELSE "ST_PKT")
              EXCEPT !.fin = Add(@, seg.flag = "fin"),
                     !.original_payload_size = payloadSize(seg)]
    IN /\ op = "insert"
       /\ ~ZeroLength
       /\ frame.start \notin Keys
       /\ frame.start >= lastSeq \/ ~\E k \in Keys : Host(k)
       /\ IF frame.start < lastSeq /\ \A k \in Keys : k > frame.end
          THEN Fail("assert_search") /\ UNCHANGED ranges
          ELSE /\ ranges' = IF SENT THEN Put(ranges, frame.start, r) ELSE ranges
               /\ Return
       /\ UNCHANGED <<firstSeq, highestAcked, ack>>

\* Mutant of SynAckAssert: the first offset instead of the first number.
SynAckAssertRelative ==
    /\ ~SENT
    /\ ranges[frame.start].endSeq # frame.end
    /\ frame.end = 1

\* "The ack on the syn-ack": a received segment that does not end where the
\* range does, and whose end offset happens to be firstSeq + 1.
SynAckAssert ==
    /\ ~SENT
    /\ ranges[frame.start].endSeq # frame.end
    /\ frame.end = firstSeq + 1

StartFound ==
    /\ op = "insert"
    /\ ~ZeroLength
    /\ frame.start \in Keys

FailSynAck ==
    /\ StartFound
    /\ SynAckAssert
    /\ Fail("assert_syn_ack")
    /\ UNCHANGED <<ranges, firstSeq, highestAcked, ack>>

\* The range at the start of the segment holds no bytes, only pure acks (or a
\* SYN, FIN or RST): its bytes become the ones of the segment, up to the next
\* range if there is one.
FillEmpty ==
    LET k == frame.start
        r(end) == [Truncate(ranges[k], end) EXCEPT !.original_payload_size = end - k]
        Fill(end) == Put(ranges, k,
                         increase_sent(r(end), seg.time, this_is_rdb_data, "ST_PKT"))
    IN /\ StartFound
       /\ SENT
       /\ byte_count(k) = 0
       /\ \/ /\ IsLast(k)
             /\ ranges' = Fill(frame.end)
             /\ Return
          \/ \E n \in Keys :
                /\ IsNext(k, n)
                /\ IF n < frame.end
                   THEN ranges' = Fill(n) /\ Recurse(n)
                   ELSE ranges' = Fill(frame.end) /\ Return
       /\ UNCHANGED <<firstSeq, highestAcked, ack>>

\* The segment covers the range and goes on behind it.
SpanRange ==
    LET k == frame.start
    IN /\ StartFound
       /\ ~SynAckAssert
       /\ ranges[k].endSeq < frame.end
       /\ SENT => byte_count(k) # 0
       /\ ranges' = Put(ranges, k, Credit(ranges[k]))
       /\ IF ~SENT /\ Credit(ranges[k]).received_tstamp_tcp = 0 THEN Fail("assert_tstamp")
          ELSE IF frame.level > RecursionLevel THEN Fail("recursion_level")
          ELSE Recurse(ranges[k].endSeq)
       /\ UNCHANGED <<firstSeq, highestAcked, ack>>

\* The segment ends inside the range: split the range there.
SplitTail ==
    LET k == frame.start
        cut == SplitAt(ranges, k, frame.end)
    IN /\ StartFound
       /\ ~SynAckAssert
       /\ ranges[k].endSeq > frame.end
       /\ ranges' = Put(cut, k, Credit(cut[k]))
       /\ Return
       /\ UNCHANGED <<firstSeq, highestAcked, ack>>

\* The segment is exactly the range.
UpdateRange ==
    LET k == frame.start
    IN /\ StartFound
       /\ ranges[k].endSeq = frame.end
       /\ ranges' = Put(ranges, k,
                        IF SENT
                        THEN [Credit(ranges[k]) EXCEPT !.syn = Add(@, seg.flag = "syn")]
                        ELSE Credit(ranges[k]))
       /\ Return
       /\ UNCHANGED <<firstSeq, highestAcked, ack>>

insertByteRange ==
    \/ InsertZeroLength \/ UpdateZeroLength
    \/ SplitHost \/ InsertNew
    \/ FailSynAck \/ FillEmpty \/ SpanRange \/ SplitTail \/ UpdateRange

-----------------------------------------------------------------------------
(* processAck.  Its result only feeds the reference point of the relative   *)
(* acknowledgement numbers (see SeqTracker) and is left out, and so are the *)
(* receiver window and the SACK blocks it stores.                           *)

\* The local variable it starts at the highest range acked so far.
CallAck(a, time, echo, first) ==
    /\ op = "idle"
    /\ IsFirst(first)
    /\ LET it == IF highestAcked = NoKey THEN first ELSE highestAcked
       IN IF a < it
          THEN UNCHANGED <<op, ack>>     \* all data has been ACKed before
          ELSE /\ op' = "ack"
               /\ ack' = [ack |-> a, time |-> time, echo |-> echo, it |-> it]
    /\ UNCHANGED <<ranges, lastSeq, firstSeq, highestAcked, frame, seg>>

AckReturn ==
    /\ op' = "idle"
    /\ ack' = NoAck
    /\ UNCHANGED <<lastSeq, firstSeq, frame, seg>>

CountAck(r) == [r EXCEPT !.ack_count = Add(@, TRUE)]

AckEndsHere(k) ==
    \/ ack.ack = ranges[k].endSeq
    \/ byte_count(k) = 0 /\ ack.ack - 1 = ranges[k].endSeq

\* Mutant of AckLast: every ack sets the ack time.
AckLastAgain ==
    LET k == ack.it
        r == ranges[k]
    IN /\ op = "ack"
       /\ AckEndsHere(k)
       /\ ranges' = Put(ranges, k, CountAck(insertAckTime(r, ack.time)))
       /\ highestAcked' = k
       /\ AckReturn

\* This ack covers this range, but not more.  A range without bytes gets no
\* ack time if the timestamps say that it is itself the answer to this ack.
AckLast ==
    LET k == ack.it
        r == ranges[k]
    IN /\ op = "ack"
       /\ AckEndsHere(k)
       /\ ranges' = Put(ranges, k,
             CountAck(IF r.acked \/ (byte_count(k) = 0 /\ ack.echo) THEN r
                      ELSE insertAckTime(r, ack.time)))
       /\ highestAcked' = k
       /\ AckReturn

\* The ack was captured before the range was first sent.
AckBeforeSent ==
    /\ op = "ack"
    /\ ~AckEndsHere(ack.it)
    /\ ack.ack > ranges[ack.it].endSeq
    /\ ack.time < getSendTime(ranges[ack.it])
    /\ AckReturn
    /\ UNCHANGED <<ranges, highestAcked>>

\* Mutant of AckMore: a range acked before is not stepped over.
AckMoreStuck ==
    LET k == ack.it
        r == ranges[k]
    IN /\ op = "ack"
       /\ ~AckEndsHere(k)
       /\ ack.ack > r.endSeq
       /\ ack.time >= getSendTime(r)
       /\ ranges' = IF r.acked THEN ranges
                    ELSE Put(ranges, k, insertAckTime(r, ack.time))
       /\ highestAcked' = k
       /\ IF IsLast(k) THEN AckReturn
          ELSE /\ \E n \in Keys :
                    /\ IsNext(k, n)
                    /\ ack' = IF r.acked THEN ack ELSE [ack EXCEPT !.it = n]
               /\ UNCHANGED <<op, lastSeq, firstSeq, frame, seg>>

\* The ack covers more than this range: ack it and go on with the next one.
AckMore ==
    LET k == ack.it
        r == ranges[k]
    IN /\ op = "ack"
       /\ ~AckEndsHere(k)
       /\ ack.ack > r.endSeq
       /\ ack.time >= getSendTime(r)
       /\ ranges' = IF r.acked THEN ranges
                    ELSE Put(ranges, k, insertAckTime(r, ack.time))
       /\ highestAcked' = k
       /\ IF IsLast(k) THEN AckReturn
          ELSE /\ \E n \in Keys :
                    /\ IsNext(k, n)
                    /\ ack' = [ack EXCEPT !.it = n]
               /\ UNCHANGED <<op, lastSeq, firstSeq, frame, seg>>

\* Mutant of AckSplit: the range is acked before it is split.
AckSplitLate ==
    LET k == ack.it
        r == ranges[k]
    IN /\ op = "ack"
       /\ k < ack.ack
       /\ ack.ack < r.endSeq
       /\ ranges' = SplitAt(Put(ranges, k, CountAck(insertAckTime(r, ack.time))), k, ack.ack)
       /\ highestAcked' = ack.ack
       /\ AckReturn

\* The ack covers only part of this range: split it.
AckSplit ==
    LET k == ack.it
        cut == SplitAt(ranges, k, ack.ack)
    IN /\ op = "ack"
       /\ k < ack.ack
       /\ ack.ack < ranges[k].endSeq
       /\ ranges' = Put(cut, k, CountAck(insertAckTime(cut[k], ack.time)))
       /\ highestAcked' = ack.ack
       /\ AckReturn

\* The backwards search when the ack exceeds the previous range by one: it
\* stops at a FIN, or where every transmission of the range was a packet.
StopsSearch(k) ==
    \/ ranges[k].fin # 0
    \/ ranges[k].packet_sent_count = ranges[k].data_sent_count

\* The ranges in front of prev, prev included, that the ack covers.
CoveredUpTo(prev) == {k \in Keys : k <= prev /\ ack.ack >= ranges[k].endSeq}

\* ACK on old data: count it on the range it ends, if there is one.
IgnoreOld(prev) ==
    /\ ranges' =
         IF \E k \in CoveredUpTo(prev) : \A j \in CoveredUpTo(prev) : j <= k
         THEN LET k == CHOOSE k \in CoveredUpTo(prev) :
                            \A j \in CoveredUpTo(prev) : j <= k
              IN IF ack.ack = ranges[k].endSeq
                 THEN Put(ranges, k, CountAck(ranges[k])) ELSE ranges
         ELSE ranges
    /\ AckReturn

\* The ack ends at or before the start of this range.
AckOld ==
    LET k == ack.it
    IN /\ op = "ack"
       /\ ~AckEndsHere(k)
       /\ ack.ack < ranges[k].endSeq
       /\ ack.ack <= k
       /\ \/ /\ IsFirst(k)
             /\ AckReturn
             /\ UNCHANGED ranges
          \/ \E p \in Keys :
               /\ IsPrev(k, p)
               /\ IF ack.ack - 1 # ranges[p].endSeq THEN IgnoreOld(p)
                  ELSE IF ~\E j \in Keys : j <= p /\ StopsSearch(j)
                  THEN /\ op' = "bad_iterator"
                       /\ UNCHANGED <<ranges, lastSeq, firstSeq, frame, seg, ack>>
                  ELSE \E j \in Keys :
                         /\ j <= p
                         /\ StopsSearch(j)
                         /\ \A i \in Keys : i <= j \/ i > p \/ ~StopsSearch(i)
                         /\ IF ranges[j].fin # 0
                            THEN /\ ranges' = Put(ranges, j, CountAck(ranges[j]))
                                 /\ AckReturn
                            ELSE IgnoreOld(j)
       /\ UNCHANGED highestAcked

processAck == AckLast \/ AckBeforeSent \/ AckMore \/ AckSplit \/ AckOld

=============================================================================
