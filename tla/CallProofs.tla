----------------------------- MODULE CallProofs -----------------------------
(***************************************************************************)
(* First: for a capture that misses nothing, with the acknowledgements in  *)
(* order, processAck gives every byte the time of the first                *)
(* acknowledgement that covers it, and no later step changes that time or  *)
(* the time of the byte's first transmission.                              *)
(* Then: for a regular trace no assert of insertByteRange or processAck    *)
(* fails, no exception ends the program, and the map implements            *)
(* ByteLedger.                                                             *)
(***************************************************************************)
EXTENDS PartitionProofs, LedgerMapping

-----------------------------------------------------------------------------
(* Registering segments. *)

\* The entries of acks.
LEMMA AckTypes ==
    ASSUME TypeOK
    PROVE  /\ Len(acks) \in Nat /\ ackNo \in Nat /\ clock \in Nat /\ base \in {0, 1}
           /\ \A i \in 1 .. Len(acks) : acks[i].ack \in Nat /\ acks[i].time \in Nat
<1> DEFINE S == [ack : Nat, time : Nat, echo : BOOLEAN]
<1>1. acks \in Seq(S)
  BY DEF TypeOK
<1>2. Len(acks) \in Nat /\ \A i \in 1 .. Len(acks) : acks[i] \in S
  <2> HIDE DEF S
  <2> QED
    BY <1>1
<1> QED
  BY <1>2 DEF TypeOK

\* The time of a range's first transmission.
LEMMA SendTimeType ==
    ASSUME NEW r \in ByteRanges
    PROVE  getSendTime(r) \in Nat
<1>1. r.sent_tstamp_pcap \in Seq(Transmissions)
  BY DEF ByteRanges, SentLists
<1>2. r.sent_tstamp_pcap # <<>> => r.sent_tstamp_pcap[1] \in Transmissions
  BY <1>1
<1> QED
  BY <1>2 DEF getSendTime, Transmissions

\* The times of a byte stay the same, whichever range holds it: when it was
\* first sent and, if it was, when it was acknowledged.
TimesKept ==
    \A k \in Keys, x \in Nat : Covers(k, x) =>
        \E j \in Keys' :
            /\ Covers(j, x)'
            /\ getSendTime(ranges'[j]) = getSendTime(ranges[k])
            /\ ranges[k].acked =>
                 ranges'[j].acked /\ ranges'[j].ackTime = ranges[k].ackTime

\* A range that is new, or has got its first bytes, is not acked, was sent before
\* every ack that covers it, and holds no byte that a range held before.
Fresh(j) ==
    /\ ~ranges'[j].acked
    /\ ranges'[j].sent_tstamp_pcap # <<>> /\ getSendTime(ranges'[j]) <= clock
    /\ phase = "sent" \/ ~(j < ranges'[j].endSeq)
    /\ \A i \in 1 .. Len(acks) :
         (j < ranges'[j].endSeq /\ j < acks[i].ack) \/ j < base =>
            getSendTime(ranges'[j]) <= acks[i].time
    /\ \A x \in Nat : j <= x /\ x < ranges'[j].endSeq => ~\E k \in Keys : Covers(k, x)

\* A call that passes the times of the ranges on to their parts keeps AckInv.
LEMMA InsertKeepsAcks ==
    ASSUME TypeOK, Disjoint, Typed', AckInv, op = "insert", op' # "ack",
           Fixed, UNCHANGED highestAcked, op' = "insert" => UNCHANGED seg,
           Keys \subseteq Keys', Holds,
           Keys = {} => frame.start \in Keys' \/ (Keys' = {} /\ op' # "insert"),
           \A j \in Keys' : (\E k \in Keys : PartOf(j, k)) \/ Fresh(j)
    PROVE  AckInv' /\ TimesKept
<1>1. UNCHANGED <<phase, clock, base, nxt, tcp, acks, ackNo>>
  BY DEF Fixed, envVars
<1>2. /\ Len(acks) \in Nat /\ ackNo \in Nat /\ clock \in Nat /\ base \in {0, 1} /\ nxt \in Nat
      /\ \A i \in 1 .. Len(acks) : acks[i].ack \in Nat /\ acks[i].time \in Nat
      /\ Keys \subseteq Nat /\ \A k \in Keys : ranges[k].endSeq \in Nat
      /\ Keys' \subseteq Nat /\ \A k \in Keys' : ranges'[k].endSeq \in Nat
  BY AckTypes, TypedFrom DEF Typed
<1>3. phase # "acks" /\ op \notin Failures /\ ackNo <= Len(acks)
  BY DEF AckInv, PassesInOrder, AcksInOrder, Failures
<1>4. EverySent'
  <2>1. ASSUME NEW j \in Keys'
        PROVE  ranges'[j].sent_tstamp_pcap # <<>> /\ getSendTime(ranges'[j]) <= clock
    <3>1. CASE Fresh(j)
      BY <3>1 DEF Fresh
    <3>2. CASE \E k \in Keys : PartOf(j, k)
      BY <3>2 DEF PartOf, Kept, AckInv, EverySent
    <3> QED
      BY <3>1, <3>2
  <2> QED
    BY <1>1, <2>1 DEF AckInv, EverySent
<1>5. phase = "sent" => \A j \in Keys' : ~ranges'[j].acked
  BY DEF Fresh, PartOf, Kept, AckInv, PassesInOrder
<1>6. PassesInOrder'
  <2>1. Keys' = {} => phase = "sent" /\ acks = <<>>
    BY DEF AckInv, PassesInOrder
  <2>2. ASSUME base = 1
        PROVE  IF Keys' = {} THEN op' # "insert" ELSE 0 \in Keys'
    BY <2>2 DEF AckInv, PassesInOrder
  <2> QED
    BY <1>1, <1>3, <1>5, <2>1, <2>2 DEF AckInv, PassesInOrder
<1>7. AcksInOrder'
  BY <1>1 DEF AckInv, AcksInOrder
<1>8. SentBeforeAck'
  <2> SUFFICES ASSUME NEW i \in 1 .. Len(acks)
               PROVE  /\ \A j \in Keys' :
                           (j < ranges'[j].endSeq /\ j < acks[i].ack) \/ j < base =>
                              getSendTime(ranges'[j]) <= acks[i].time
                      /\ \A x \in base .. nxt - 1 :
                           x >= acks[i].ack \/ \E k \in Keys' : Covers(k, x)'
    BY <1>1 DEF SentBeforeAck, HasBytes
  <2>1. ASSUME NEW j \in Keys',
               (j < ranges'[j].endSeq /\ j < acks[i].ack) \/ j < base
        PROVE  getSendTime(ranges'[j]) <= acks[i].time
    <3>1. CASE Fresh(j)
      BY <2>1, <3>1 DEF Fresh
    <3>2. CASE \E k \in Keys : PartOf(j, k)
      <4>1. PICK k \in Keys : PartOf(j, k)
        BY <3>2
      <4>2. k <= j /\ (HasBytes(k) <=> j < ranges'[j].endSeq)
        BY <1>2, <4>1 DEF PartOf
      <4>3. (HasBytes(k) /\ k < acks[i].ack) \/ k < base
        BY <1>2, <2>1, <4>2
      <4>4. getSendTime(ranges[k]) <= acks[i].time
        BY <4>3 DEF AckInv, SentBeforeAck
      <4> QED
        BY <4>1, <4>4 DEF PartOf, Kept
    <3> QED
      BY <3>1, <3>2
  <2>2. ASSUME NEW x \in base .. nxt - 1
        PROVE  x >= acks[i].ack \/ \E k \in Keys' : Covers(k, x)'
    <3>1. x \in Nat
      BY <1>2
    <3> QED
      BY <1>3, <3>1 DEF AckInv, SentBeforeAck, Holds
  <2> QED
    BY <2>1, <2>2
<1>9. \A i \in 1 .. ackNo' : Settled(i)'
  <2> SUFFICES ASSUME NEW i \in 1 .. ackNo, NEW j \in Keys', j < ranges'[j].endSeq
               PROVE  \/ j >= acks[i].ack
                      \/ ranges'[j].endSeq <= acks[i].ack /\ ranges'[j].acked
    BY <1>1 DEF Settled, HasBytes
  <2>1. phase # "sent"
    BY <1>2 DEF AckInv, PassesInOrder
  <2>2. PICK k \in Keys : PartOf(j, k)
    BY <2>1 DEF Fresh
  <2>3. HasBytes(k) /\ k <= j /\ ranges'[j].endSeq <= ranges[k].endSeq
        /\ ranges'[j].acked = ranges[k].acked
    BY <1>2, <2>2 DEF PartOf, Kept
  <2>4. Settled(i)
    BY DEF AckInv
  <2>5. k >= acks[i].ack \/ (ranges[k].endSeq <= acks[i].ack /\ ranges[k].acked)
    BY <2>3, <2>4 DEF Settled
  <2>6. acks[i].ack \in Nat
    BY <1>2, <1>3
  <2> QED
    BY <1>2, <2>3, <2>5, <2>6
<1>10. AckedByFirst'
  <2> SUFFICES ASSUME NEW j \in Keys', j < ranges'[j].endSeq, ranges'[j].acked
               PROVE  \E i \in 1 .. ackNo :
                         /\ ranges'[j].endSeq <= acks[i].ack
                         /\ ranges'[j].ackTime = acks[i].time
                         /\ \A h \in 1 .. i - 1 : acks[h].ack < ranges'[j].endSeq
    BY <1>1 DEF AckedByFirst, HasBytes
  <2>1. PICK k \in Keys : PartOf(j, k)
    BY DEF Fresh
  <2>2. /\ HasBytes(k) /\ k <= j /\ ranges'[j].endSeq <= ranges[k].endSeq
        /\ ranges[k].acked /\ ranges'[j].ackTime = ranges[k].ackTime
    BY <1>2, <2>1 DEF PartOf, Kept
  <2>3. PICK i \in 1 .. ackNo :
          /\ ranges[k].endSeq <= acks[i].ack
          /\ ranges[k].ackTime = acks[i].time
          /\ \A h \in 1 .. i - 1 : acks[h].ack < ranges[k].endSeq
    BY <2>2 DEF AckInv, AckedByFirst
  <2>4. ASSUME NEW h \in 1 .. i - 1 PROVE acks[h].ack < ranges'[j].endSeq
    <3>1. Settled(h) /\ acks[h].ack < ranges[k].endSeq /\ acks[h].ack \in Nat
      BY <1>2, <1>3, <2>3 DEF AckInv
    <3>2. k >= acks[h].ack
      BY <1>2, <2>2, <3>1 DEF Settled
    <3> QED
      BY <1>2, <2>2, <3>1, <3>2
  <2>5. acks[i].ack \in Nat
    BY <1>2, <1>3
  <2>6. ranges'[j].endSeq <= acks[i].ack
    BY <1>2, <2>2, <2>3, <2>5
  <2> QED
    BY <2>2, <2>3, <2>4, <2>6
<1>11. AckLoop'
  BY <1>1, <1>3 DEF AckLoop
<1>12. TimesKept
  <2> SUFFICES ASSUME NEW k \in Keys, NEW x \in Nat, Covers(k, x)
               PROVE  \E j \in Keys' : Covers(j, x)' /\ Kept(ranges'[j], ranges[k])
    BY DEF TimesKept, Kept
  <2>1. PICK j \in Keys' : Covers(j, x)'
    BY DEF Holds
  <2>2. ~Fresh(j)
    BY <2>1 DEF Fresh, Covers
  <2>3. PICK h \in Keys : PartOf(j, h)
    BY <2>2
  <2>4. j <= x /\ x < ranges'[j].endSeq
    BY <2>1 DEF Covers
  <2>5. h <= x /\ x < ranges[h].endSeq
    BY <1>2, <2>3, <2>4 DEF PartOf
  <2>6. k <= x /\ x < ranges[k].endSeq
    BY DEF Covers
  <2>7. h = k
    BY <1>2, <2>5, <2>6 DEF Disjoint
  <2> QED
    BY <2>1, <2>3, <2>7 DEF PartOf
<1> QED
  BY <1>4, <1>6, <1>7, <1>8, <1>9, <1>10, <1>11, <1>12 DEF AckInv

\* A call that leaves the map alone.
LEMMA SameMapKeepsAcks ==
    ASSUME TypeOK, Disjoint, Typed', AckInv, op = "insert", op' \notin {"ack", "insert"},
           Fixed, UNCHANGED <<ranges, highestAcked>>, Keys # {} \/ op' # "insert"
    PROVE  AckInv' /\ TimesKept
<1>1. Keys' = Keys /\ Holds
  BY DEF Keys, Holds, Covers
<1>2. \A k \in Keys : ranges[k].endSeq \in Nat /\ ranges[k].sent_tstamp_pcap # <<>>
  BY TypedFrom DEF Typed, AckInv, EverySent
<1>3. \A j \in Keys' : \E k \in Keys : PartOf(j, k)
  BY <1>1, <1>2, PartOfItself
<1> QED
  BY <1>1, <1>3, InsertKeepsAcks

\* Bytes that no range holds have not been acknowledged.
LEMMA OpenedUnacked ==
    ASSUME TypeOK, StepInv, AckInv, op = "insert", ~ZeroLength, SENT,
           \A k \in Keys : k <= frame.start /\ ranges[k].endSeq <= frame.start
    PROVE  /\ base <= frame.start
           /\ \A i \in 1 .. Len(acks) : acks[i].ack <= frame.start
<1>1. /\ frame.start \in Nat /\ frame.start \in base .. nxt - 1 /\ op \notin Failures
      /\ \A k \in Keys : ranges[k].endSeq \in Nat
  BY DEF StepInv, CallInStream, Typed, Failures
<1>2. ~\E k \in Keys : Covers(k, frame.start)
  BY <1>1 DEF Covers
<1>3. \A i \in 1 .. Len(acks) : acks[i].ack \in Nat
  BY AckTypes
<1> QED
  BY <1>1, <1>2, <1>3 DEF AckInv, SentBeforeAck, StepInv, CallInStream, Typed

\* Opening a range keeps AckInv: no ack has been read, and none covers it.
LEMMA OpensKeepsAcks ==
    ASSUME TypeOK, StepInv, Typed', AckInv, Opens, Fixed, UNCHANGED highestAcked
    PROVE  AckInv' /\ TimesKept
<1> DEFINE a == frame.start
           r == ranges'[a]
<1>1. /\ op = "insert" /\ ~ZeroLength /\ SENT /\ Return /\ Keys' = Keys \cup {a}
      /\ \A k \in Keys : k <= a /\ ranges[k].endSeq <= a /\ (k # a => ranges'[k] = ranges[k])
      /\ r.sent_tstamp_pcap # <<>> /\ getSendTime(r) <= clock
      /\ IF a \in Keys THEN r.acked = ranges[a].acked ELSE ~r.acked
  BY DEF Opens
<1>2. op' = "idle" /\ phase = "sent"
  BY <1>1 DEF Return, StepInv, CallInStream
<1>3. /\ \A k \in Keys : ranges[k].endSeq \in Nat /\ k \in Nat /\ ranges[k].sent_tstamp_pcap # <<>>
      /\ a \in Nat /\ base \in Nat
  BY DEF StepInv, Typed, AckInv, EverySent
<1>4. base <= a /\ \A i \in 1 .. Len(acks) : acks[i].ack <= a
  BY <1>1, OpenedUnacked
<1>5. Fresh(a)
  <2>1. ~r.acked
    BY <1>1, <1>2 DEF AckInv, PassesInOrder
  <2>2. \A i \in 1 .. Len(acks) : ~(a < acks[i].ack)
    BY <1>3, <1>4, AckTypes
  <2>3. ASSUME NEW x \in Nat, a <= x, NEW k \in Keys PROVE ~Covers(k, x)
    BY <1>1, <1>3, <2>3 DEF Covers
  <2> QED
    BY <1>1, <1>2, <1>3, <1>4, <2>1, <2>2, <2>3 DEF Fresh
<1>6. ASSUME NEW j \in Keys, j # a PROVE PartOf(j, j)
  BY <1>1, <1>3, <1>6, PartOfItself
<1>7. Holds
  <2> SUFFICES ASSUME NEW x \in Nat, NEW k \in Keys, Covers(k, x)
               PROVE  \E j \in Keys' : Covers(j, x)'
    BY DEF Holds
  <2>1. k # a
    BY <1>1, <1>3 DEF Covers
  <2> QED
    BY <1>1, <2>1 DEF Covers
<1>8. Keys \subseteq Keys' /\ a \in Keys' /\ \A j \in Keys' : (\E k \in Keys : PartOf(j, k)) \/ Fresh(j)
  BY <1>1, <1>5, <1>6
<1> QED
  BY <1>1, <1>2, <1>7, <1>8, InsertKeepsAcks DEF StepInv

\* Every step of insertByteRange keeps AckInv.
LEMMA InsertStepKeepsAcks ==
    ASSUME TypeOK, StepInv, Typed', AckInv, insertByteRange, Fixed
    PROVE  AckInv' /\ TimesKept
<1>0. EverySent /\ UNCHANGED highestAcked /\ Disjoint
  BY DEF AckInv, StepInv, insertByteRange, InsertZeroLength, UpdateZeroLength, SplitHost, InsertNew,
         FailSynAck, FillEmpty, SpanRange, SplitTail, UpdateRange
<1>1. ASSUME NEW upTo \in Nat, Registers(upTo),
             \/ Return
             \/ Recurse(upTo)
             \/ Fail("assert_tstamp") \/ Fail("recursion_level")
      PROVE  AckInv' /\ TimesKept
  <2>1. /\ op = "insert" /\ Keys \subseteq Keys' /\ Holds /\ frame.start \in Keys'
        /\ \A j \in Keys' : \E k \in Keys : PartOf(j, k)
    BY <1>1 DEF Registers
  <2>2. op' # "ack" /\ (op' = "insert" => UNCHANGED seg)
    BY <1>1, <2>1 DEF Return, Recurse, Fail
  <2> QED
    BY <1>0, <2>1, <2>2, InsertKeepsAcks
<1>2. CASE SplitHost
  BY <1>0, <1>1, <1>2, SplitHostRegisters
<1>3. CASE SpanRange \/ SplitTail \/ UpdateRange
  BY <1>0, <1>1, <1>3, CoverRegisters
<1>4. CASE FillEmpty
  BY <1>0, <1>4, FillEmptyOpens, OpensKeepsAcks
<1>5. CASE InsertNew
  <2>1. CASE Opens
    BY <1>0, <2>1, OpensKeepsAcks
  <2>2. CASE UNCHANGED ranges /\ (Return \/ Fail("assert_search"))
    <3>1. op = "insert" /\ op' \notin {"ack", "insert"}
      BY <1>5, <2>2 DEF InsertNew, Return, Fail
    <3> QED
      BY <1>0, <2>2, <3>1, SameMapKeepsAcks
  <2> QED
    BY <1>0, <1>5, <2>1, <2>2, InsertNewOpens
<1>6. CASE FailSynAck
  <2>1. op = "insert" /\ op' \notin {"ack", "insert"} /\ UNCHANGED ranges
    BY <1>6 DEF FailSynAck, StartFound, Fail
  <2> QED
    BY <1>0, <2>1, SameMapKeepsAcks
<1>7. CASE InsertZeroLength
  <2> DEFINE z == frame.start
             r == ranges'[z]
  <2>1. /\ op = "insert" /\ ZeroLength /\ Return
        /\ z \notin Keys /\ Keys' = Keys \cup {z}
        /\ \A k \in Keys : ranges'[k] = ranges[k]
        /\ r.endSeq = z /\ ~r.acked
        /\ r.sent_tstamp_pcap # <<>> /\ getSendTime(r) <= clock
    BY <1>0, <1>7, InsertZeroLengthHistory
  <2>2. op' = "idle"
    BY <2>1 DEF Return
  <2>3. /\ \A k \in Keys : ranges[k].endSeq \in Nat /\ k \in Nat /\ ranges[k].sent_tstamp_pcap # <<>>
        /\ z \in Nat /\ base \in {0, 1}
    BY DEF StepInv, Typed, TypeOK, AckInv, EverySent
  <2>4. z < base => Len(acks) = 0
    <3> SUFFICES ASSUME z < base PROVE Len(acks) = 0
      OBVIOUS
    <3>1. z = 0 /\ base = 1
      BY <2>3
    <3>2. Keys = {} /\ acks = <<>>
      BY <2>1, <3>1 DEF AckInv, PassesInOrder
    <3> QED
      BY <3>2
  <2>5. Fresh(z)
    <3>1. \A x \in Nat : ~(z <= x /\ x < r.endSeq)
      BY <2>1, <2>3
    <3> QED
      BY <2>1, <2>3, <2>4, <3>1 DEF Fresh
  <2>6. \A j \in Keys : PartOf(j, j)
    BY <2>1, <2>3, PartOfItself
  <2>7. Holds
    BY <2>1 DEF Holds, Covers
  <2>8. Keys \subseteq Keys' /\ z \in Keys'
        /\ \A j \in Keys' : (\E k \in Keys : PartOf(j, k)) \/ Fresh(j)
    BY <2>1, <2>5, <2>6
  <2> QED
    BY <1>0, <2>1, <2>2, <2>7, <2>8, InsertKeepsAcks
<1>8. CASE UpdateZeroLength
  <2> DEFINE z == start_seq
  <2>1. /\ op = "insert" /\ Return /\ z \in Keys /\ Keys' = Keys
        /\ \A k \in Keys : k # z => ranges'[k] = ranges[k]
        /\ ranges'[z].endSeq = ranges[z].endSeq
        /\ Kept(ranges'[z], ranges[z])
    BY <1>0, <1>8, UpdateZeroLengthHistory
  <2>2. op' = "idle"
    BY <2>1 DEF Return
  <2>3. \A k \in Keys : ranges[k].endSeq \in Nat /\ k \in Nat /\ ranges[k].sent_tstamp_pcap # <<>>
    BY DEF StepInv, Typed, AckInv, EverySent
  <2> HIDE DEF z
  <2>4. PartOf(z, z)
    <3>1. ranges'[z].endSeq <= ranges[z].endSeq
      BY <2>1, <2>3
    <3> QED
      BY <2>1, <3>1 DEF PartOf, HasBytes
  <2>5. \A j \in Keys : j # z => PartOf(j, j)
    BY <2>1, <2>3, PartOfItself
  <2>6. Holds
    <3>1. \A k \in Keys : ranges'[k].endSeq = ranges[k].endSeq
      BY <2>1
    <3> QED
      BY <2>1, <3>1 DEF Holds, Covers
  <2> QED
    BY <1>0, <2>1, <2>2, <2>4, <2>5, <2>6, InsertKeepsAcks
<1> QED
  BY <1>2, <1>3, <1>4, <1>5, <1>6, <1>7, <1>8 DEF insertByteRange

-----------------------------------------------------------------------------
(* Reading acknowledgements. *)

\* The range at j of the new map is the one at k of the old map, or was cut from
\* it; it has its counts and the time it was sent, and its ack time unless it is
\* the one that the ack in hand reaches first.
AckPart(j, k) ==
    /\ j = k \/ (k < j /\ j < ranges[k].endSeq)
    /\ ranges'[j].endSeq <= ranges[k].endSeq
    /\ HasBytes(k) <=> j < ranges'[j].endSeq
    /\ ranges'[j].sent_tstamp_pcap # <<>>
    /\ getSendTime(ranges'[j]) = getSendTime(ranges[k])
    /\ Counts(ranges'[j], ranges[k], FALSE)
    /\ \/ ranges'[j].acked = ranges[k].acked /\ ranges'[j].ackTime = ranges[k].ackTime
       \/ /\ ~ranges[k].acked /\ j = ack.it
          /\ ranges'[j].acked /\ ranges'[j].ackTime = ack.time
          /\ HasBytes(k) => ranges'[j].endSeq <= ack.ack

\* What every turn of processAck's loop does to the map.
Marks ==
    /\ Keys \subseteq Keys' /\ Holds
    /\ \A j \in Keys' : \E k \in Keys : AckPart(j, k)

\* A turn that cuts no range.
MarksOnly ==
    /\ Keys' = Keys
    /\ \A k \in Keys : ranges'[k].endSeq = ranges[k].endSeq /\ AckPart(k, k)

\* It is one of the turns.
LEMMA MarksOnlyMarks ==
    ASSUME MarksOnly
    PROVE  Marks
BY DEF MarksOnly, Marks, Holds, Covers

\* s has what a transmission or a reception writes from r.
SameTraffic(s, r) ==
    /\ s.endSeq = r.endSeq
    /\ s.sent_tstamp_pcap = r.sent_tstamp_pcap
    /\ s.data_sent_count = r.data_sent_count
    /\ s.data_received_count = r.data_received_count
    /\ s.received_tstamp_tcp = r.received_tstamp_tcp

\* The time at which an ack reaches a range, and its count of acks, are the only
\* things that change.
LEMMA MarkOne ==
    ASSUME TypeOK, EverySent, NEW k \in Keys, NEW s,
           \/ UNCHANGED ranges
           \/ /\ ranges' = Put(ranges, k, s)
              /\ SameTraffic(s, ranges[k])
              /\ \/ s.acked = ranges[k].acked /\ s.ackTime = ranges[k].ackTime
                 \/ /\ ~ranges[k].acked /\ k = ack.it
                    /\ s.acked /\ s.ackTime = ack.time
                    /\ HasBytes(k) => s.endSeq <= ack.ack
    PROVE  MarksOnly
<1>1. \A j \in Keys : ranges[j].endSeq \in Nat /\ ranges[j].sent_tstamp_pcap # <<>>
  BY TypedFrom DEF Typed, EverySent
<1>2. ASSUME NEW j \in Keys, ranges'[j] = ranges[j]
      PROVE  ranges'[j].endSeq = ranges[j].endSeq /\ AckPart(j, j)
  BY <1>1, <1>2 DEF AckPart, Counts, Add, HasBytes, PacketsFrom, OnlyPackets, SendingsFrom
<1>3. CASE UNCHANGED ranges
  BY <1>2, <1>3 DEF MarksOnly, Keys
<1>4. CASE /\ ranges' = Put(ranges, k, s)
           /\ SameTraffic(s, ranges[k])
           /\ \/ s.acked = ranges[k].acked /\ s.ackTime = ranges[k].ackTime
              \/ /\ ~ranges[k].acked /\ k = ack.it
                 /\ s.acked /\ s.ackTime = ack.time
                 /\ HasBytes(k) => s.endSeq <= ack.ack
  <2>1. Keys' = Keys /\ ranges'[k] = s /\ \A j \in Keys : j # k => ranges'[j] = ranges[j]
    BY <1>4 DEF Keys, Put
  <2>2. s.endSeq = ranges[k].endSeq /\ AckPart(k, k)
    BY <1>1, <1>4, <2>1 DEF AckPart, Counts, Add, HasBytes, PacketsFrom, OnlyPackets, SendingsFrom, SameTraffic, getSendTime
  <2> QED
    BY <1>2, <2>1, <2>2 DEF MarksOnly
<1> QED
  BY <1>3, <1>4

\* What an ack writes into a range.
LEMMA AckRecords ==
    ASSUME NEW r \in ByteRanges, NEW time \in Nat
    PROVE  LET i == insertAckTime(r, time)
           IN /\ i \in ByteRanges /\ SameTraffic(i, r) /\ i.acked /\ i.ackTime = time
              /\ SameTraffic(CountAck(i), r) /\ CountAck(i).acked /\ CountAck(i).ackTime = time
              /\ SameTraffic(CountAck(r), r)
              /\ CountAck(r).acked = r.acked /\ CountAck(r).ackTime = r.ackTime
<1> DEFINE i == insertAckTime(r, time)
<1>1. i \in ByteRanges /\ i.endSeq = r.endSeq /\ CountAck(r).endSeq = r.endSeq
  BY AckTimeType
<1>2. SameTraffic(i, r) /\ i.acked /\ i.ackTime = time
      /\ SameTraffic(CountAck(r), r)
      /\ CountAck(r).acked = r.acked /\ CountAck(r).ackTime = r.ackTime
  BY <1>1, AckHistory DEF SameTraffic
<1>3. CountAck(i).endSeq = i.endSeq
  <2> HIDE DEF i
  <2> QED
    BY <1>1, AckTimeType
<1>4. SameTraffic(CountAck(i), i) /\ CountAck(i).acked = i.acked /\ CountAck(i).ackTime = i.ackTime
  <2> HIDE DEF i
  <2> QED
    BY <1>1, <1>3, AckHistory DEF SameTraffic
<1> HIDE DEF i
<1>5. SameTraffic(CountAck(i), r) /\ CountAck(i).acked /\ CountAck(i).ackTime = time
  BY <1>2, <1>4 DEF SameTraffic
<1> QED
  BY <1>1, <1>2, <1>5 DEF i

\* What an acked range's time shows: the ack in hand is no older.
LEMMA AckedReached ==
    ASSUME TypeOK, AckInv, op = "ack", NEW k \in Keys, HasBytes(k), ranges[k].acked
    PROVE  ranges[k].endSeq <= ack.ack
<1>1. PICK i \in 1 .. ackNo : ranges[k].endSeq <= acks[i].ack
  BY DEF AckInv, AckedByFirst
<1>2. ackNo \in 1 .. Len(acks) /\ i \in 1 .. ackNo /\ i \in 1 .. Len(acks)
  BY AckTypes DEF AckInv, AcksInOrder
<1>3. acks[i].ack <= acks[ackNo].ack /\ ack.ack = acks[ackNo].ack
  BY <1>2 DEF AckInv, AcksInOrder
<1>4. acks[i].ack \in Nat /\ acks[ackNo].ack \in Nat /\ ranges[k].endSeq \in Nat
  BY <1>2, AckTypes, TypedFrom DEF Typed
<1> QED
  BY <1>1, <1>3, <1>4

\* A turn of the loop keeps the parts of AckInv that are not about the loop.
LEMMA MarksKeepsAcks ==
    ASSUME TypeOK, Typed', AckInv, op = "ack", Fixed, Marks,
           op' = "idle" \/ (op' = "ack" /\ ack'.ack = ack.ack /\ ack'.time = ack.time),
           AckLoop', op' = "idle" => Settled(ackNo)'
    PROVE  AckInv'
<1>1. UNCHANGED <<phase, clock, base, nxt, tcp, acks, ackNo>>
  BY DEF Fixed, envVars
<1>2. /\ Len(acks) \in Nat /\ ackNo \in Nat /\ clock \in Nat /\ base \in {0, 1} /\ nxt \in Nat
      /\ \A i \in 1 .. Len(acks) : acks[i].ack \in Nat /\ acks[i].time \in Nat
      /\ Keys \subseteq Nat /\ \A k \in Keys : ranges[k].endSeq \in Nat
      /\ Keys' \subseteq Nat /\ \A k \in Keys' : ranges'[k].endSeq \in Nat
      /\ \A k \in Keys : ranges[k].acked \in BOOLEAN
  BY AckTypes, TypedFrom DEF Typed, TypeOK, rmTypeOK, Keys, ByteRanges
<1>3. /\ phase = "acks" /\ op \notin Failures /\ ackNo <= Len(acks) /\ ackNo >= 1
      /\ ack.ack = acks[ackNo].ack /\ ack.time = acks[ackNo].time
  BY DEF AckInv, PassesInOrder, AcksInOrder, Failures
<1>4. EverySent'
  BY <1>1 DEF Marks, AckPart, AckInv, EverySent
<1>5. PassesInOrder'
  <2>1. Keys # {} /\ Keys' # {}
    BY <1>3 DEF AckInv, PassesInOrder, Marks
  <2>2. base = 1 => 0 \in Keys'
    BY <2>1 DEF AckInv, PassesInOrder, Marks
  <2> QED
    BY <1>1, <1>3, <2>1, <2>2 DEF PassesInOrder
<1>6. AcksInOrder'
  BY <1>1, <1>3 DEF AckInv, AcksInOrder
<1>7. SentBeforeAck'
  <2> SUFFICES ASSUME NEW i \in 1 .. Len(acks)
               PROVE  /\ \A j \in Keys' :
                           (j < ranges'[j].endSeq /\ j < acks[i].ack) \/ j < base =>
                              getSendTime(ranges'[j]) <= acks[i].time
                      /\ \A x \in base .. nxt - 1 :
                           x >= acks[i].ack \/ \E k \in Keys' : Covers(k, x)'
    BY <1>1 DEF SentBeforeAck, HasBytes
  <2>1. ASSUME NEW j \in Keys',
               (j < ranges'[j].endSeq /\ j < acks[i].ack) \/ j < base
        PROVE  getSendTime(ranges'[j]) <= acks[i].time
    <3>1. PICK k \in Keys : AckPart(j, k)
      BY DEF Marks
    <3>2. k <= j /\ (HasBytes(k) <=> j < ranges'[j].endSeq)
      BY <1>2, <3>1 DEF AckPart
    <3>3. (HasBytes(k) /\ k < acks[i].ack) \/ k < base
      BY <1>2, <2>1, <3>2
    <3>4. getSendTime(ranges[k]) <= acks[i].time
      BY <3>3 DEF AckInv, SentBeforeAck
    <3> QED
      BY <3>1, <3>4 DEF AckPart
  <2>2. ASSUME NEW x \in base .. nxt - 1
        PROVE  x >= acks[i].ack \/ \E k \in Keys' : Covers(k, x)'
    <3>1. x \in Nat
      BY <1>2
    <3> QED
      BY <1>3, <3>1 DEF AckInv, SentBeforeAck, Marks, Holds
  <2> QED
    BY <2>1, <2>2
<1>8. ASSUME NEW i \in 1 .. ackNo, i # ackNo
      PROVE  Settled(i) /\ Settled(i)' /\ acks[i].ack \in Nat
  <2>1. Settled(i) /\ acks[i].ack \in Nat
    BY <1>2, <1>3, <1>8 DEF AckInv
  <2> SUFFICES ASSUME NEW j \in Keys', j < ranges'[j].endSeq
               PROVE  \/ j >= acks[i].ack
                      \/ ranges'[j].endSeq <= acks[i].ack /\ ranges'[j].acked
    BY <1>1, <2>1 DEF Settled, HasBytes
  <2>2. PICK k \in Keys : AckPart(j, k)
    BY DEF Marks
  <2>3. HasBytes(k) /\ k <= j /\ ranges'[j].endSeq <= ranges[k].endSeq
        /\ (ranges[k].acked => ranges'[j].acked)
    BY <1>2, <2>2 DEF AckPart
  <2>4. k >= acks[i].ack \/ (ranges[k].endSeq <= acks[i].ack /\ ranges[k].acked)
    BY <2>1, <2>3 DEF Settled
  <2> QED
    BY <1>2, <2>1, <2>3, <2>4
<1>9. \A i \in 1 .. ackNo : Settled(i)' \/ (op' = "ack" /\ i = ackNo)
  <2>1. op' = "idle" => Settled(ackNo)'
    OBVIOUS
  <2>2. op' = "idle" => \A i \in {ackNo} : Settled(i)'
    BY <1>1, <2>1 DEF Settled, HasBytes
  <2> QED
    BY <1>8, <2>2
<1>10. AckedByFirst'
  <2> SUFFICES ASSUME NEW j \in Keys', j < ranges'[j].endSeq, ranges'[j].acked
               PROVE  \E i \in 1 .. ackNo :
                         /\ ranges'[j].endSeq <= acks[i].ack
                         /\ ranges'[j].ackTime = acks[i].time
                         /\ \A h \in 1 .. i - 1 : acks[h].ack < ranges'[j].endSeq
    BY <1>1 DEF AckedByFirst, HasBytes
  <2>1. PICK k \in Keys : AckPart(j, k)
    BY DEF Marks
  <2>2. HasBytes(k) /\ k <= j /\ ranges'[j].endSeq <= ranges[k].endSeq
    BY <1>2, <2>1 DEF AckPart
  <2>3. ASSUME NEW h \in 1 .. ackNo, h # ackNo, acks[h].ack < ranges[k].endSeq \/ ~ranges[k].acked
        PROVE  acks[h].ack < ranges'[j].endSeq
    <3>1. Settled(h) /\ acks[h].ack \in Nat
      BY <1>8, <2>3
    <3>2. k >= acks[h].ack
      BY <1>2, <2>2, <2>3, <3>1 DEF Settled
    <3> QED
      BY <1>2, <2>2, <3>1, <3>2
  <2>4. CASE ranges[k].acked /\ ranges'[j].ackTime = ranges[k].ackTime
    <3>1. PICK i \in 1 .. ackNo :
            /\ ranges[k].endSeq <= acks[i].ack
            /\ ranges[k].ackTime = acks[i].time
            /\ \A h \in 1 .. i - 1 : acks[h].ack < ranges[k].endSeq
      BY <2>2, <2>4 DEF AckInv, AckedByFirst
    <3>2. ASSUME NEW h \in 1 .. i - 1 PROVE acks[h].ack < ranges'[j].endSeq
      <4>1. h \in 1 .. ackNo /\ h # ackNo /\ acks[h].ack < ranges[k].endSeq
        BY <1>2, <3>1
      <4> QED
        BY <2>3, <4>1
    <3>3. acks[i].ack \in Nat
      BY <1>2, <1>3
    <3>4. ranges'[j].endSeq <= acks[i].ack
      BY <1>2, <2>2, <3>1, <3>3
    <3> QED
      BY <2>4, <3>1, <3>2, <3>4
  <2>5. CASE ~ranges[k].acked /\ ranges'[j].ackTime = ack.time /\ ranges'[j].endSeq <= ack.ack
    <3>1. ASSUME NEW h \in 1 .. ackNo - 1 PROVE acks[h].ack < ranges'[j].endSeq
      <4>1. h \in 1 .. ackNo /\ h # ackNo
        BY <1>2
      <4> QED
        BY <2>3, <2>5, <4>1
    <3>2. ackNo \in 1 .. ackNo
      BY <1>2, <1>3
    <3> QED
      BY <1>3, <2>5, <3>1, <3>2
  <2> QED
    BY <2>1, <2>2, <2>4, <2>5 DEF AckPart
<1> QED
  BY <1>1, <1>4, <1>5, <1>6, <1>7, <1>9, <1>10 DEF AckInv

\* What is known in the middle of processAck.
LEMMA AckFacts ==
    ASSUME TypeOK, StepInv, AckInv, op = "ack"
    PROVE  /\ ack.it \in Keys /\ ack.ack \in Nat /\ ack.time \in Nat
           /\ base \in {0, 1} /\ nxt \in Nat /\ base <= nxt
           /\ \A k \in Keys : /\ k \in Nat /\ ranges[k] \in ByteRanges
                              /\ ranges[k].endSeq \in Nat /\ ranges[k].acked \in BOOLEAN
                              /\ ranges[k].ackTime \in Nat
                              /\ getSendTime(ranges[k]) \in Nat
                              /\ k <= ranges[k].endSeq
           /\ ackNo \in 1 .. Len(acks) /\ ack.ack = acks[ackNo].ack /\ ack.time = acks[ackNo].time
           /\ ack.ack <= nxt + 1
           /\ \A k \in Keys : (HasBytes(k) /\ k < ack.ack) \/ k < base =>
                 getSendTime(ranges[k]) <= ack.time
           /\ \A x \in base .. nxt - 1 : x < ack.ack => \E k \in Keys : Covers(k, x)
           /\ ack.it <= ack.ack
           /\ \A k \in Keys : HasBytes(k) /\ k < ack.it =>
                 ranges[k].acked /\ ranges[k].endSeq <= ack.ack
<1>1. /\ ack.it \in Keys /\ ack.ack \in Nat /\ ack.time \in Nat /\ nxt \in Nat
      /\ \A k \in Keys : /\ k \in Nat /\ ranges[k] \in ByteRanges
                         /\ ranges[k].endSeq \in Nat /\ ranges[k].acked \in BOOLEAN
                         /\ ranges[k].ackTime \in Nat
  BY DEF TypeOK, rmTypeOK, Keys, Acks, ByteRanges
<1>2. \A k \in Keys : getSendTime(ranges[k]) \in Nat /\ k <= ranges[k].endSeq
  BY <1>1, SendTimeType DEF StepInv, RangesInStream
<1>3. ackNo \in 1 .. Len(acks) /\ ack.ack = acks[ackNo].ack /\ ack.time = acks[ackNo].time
  BY AckTypes DEF AckInv, AcksInOrder
<1>4. ack.ack <= nxt + 1
  BY <1>1, <1>3 DEF AckInv, AcksInOrder
<1>5. base \in {0, 1} /\ base <= nxt /\ op \notin Failures
  BY DEF TypeOK, StepInv, Failures
<1>6. /\ \A k \in Keys : (HasBytes(k) /\ k < ack.ack) \/ k < base =>
            getSendTime(ranges[k]) <= ack.time
      /\ \A x \in base .. nxt - 1 : x >= ack.ack \/ \E k \in Keys : Covers(k, x)
  BY <1>3, <1>5 DEF AckInv, SentBeforeAck
<1>7. \A x \in base .. nxt - 1 : x < ack.ack => \E k \in Keys : Covers(k, x)
  BY <1>1, <1>5, <1>6
<1>8. /\ ack.it <= ack.ack
      /\ \A k \in Keys : HasBytes(k) /\ k < ack.it =>
            ranges[k].acked /\ ranges[k].endSeq <= ack.ack
  BY DEF AckInv, PassesInOrder, AckLoop
<1> QED
  BY <1>1, <1>2, <1>3, <1>4, <1>5, <1>6, <1>7, <1>8

\* A range without bytes that the ack goes beyond is the SYN in front of the
\* stream: there are bytes on both sides of any other one.
LEMMA EmptyInFront ==
    ASSUME TypeOK, StepInv, AckInv, op = "ack", NEW k \in Keys, ~HasBytes(k),
           k + 1 < ack.ack
    PROVE  k = 0 /\ base = 1
<1>1. k \in Nat /\ \A j \in Keys : j \in Nat /\ ranges[j].endSeq \in Nat
  BY AckFacts
<1>2. ASSUME base <= k PROVE FALSE
  <2>1. ack.ack \in Nat /\ ack.ack <= nxt + 1 /\ nxt \in Nat /\ base \in {0, 1}
    BY AckFacts
  <2>2. k \in base .. nxt - 1 /\ k < ack.ack
    BY <1>1, <1>2, <2>1
  <2>3. PICK j \in Keys : Covers(j, k)
    BY <2>2, AckFacts
  <2>4. j < k /\ k < ranges[j].endSeq
    BY <1>1, <2>3 DEF Covers, HasBytes
  <2> QED
    BY <1>1, <2>4 DEF StepInv, Disjoint
<1> QED
  BY <1>1, <1>2, AckFacts

\* The ack was never captured before the range was first sent.
LEMMA NeverBeforeSent ==
    ASSUME TypeOK, StepInv, AckInv
    PROVE  ~AckBeforeSent
<1> SUFFICES ASSUME AckBeforeSent PROVE FALSE
  OBVIOUS
<1> DEFINE k == ack.it
<1>1. /\ op = "ack" /\ ~AckEndsHere(k) /\ ack.ack > ranges[k].endSeq
      /\ ack.time < getSendTime(ranges[k])
  BY DEF AckBeforeSent
<1>2. /\ k \in Keys /\ k \in Nat /\ ranges[k].endSeq \in Nat /\ k <= ranges[k].endSeq
      /\ ack.ack \in Nat /\ ack.time \in Nat /\ getSendTime(ranges[k]) \in Nat
  BY <1>1, AckFacts
<1> HIDE DEF k
<1>3. HasBytes(k) => k < ack.ack
  BY <1>1, <1>2
<1>4. ~HasBytes(k) => k + 1 < ack.ack
  BY <1>1, <1>2 DEF AckEndsHere, byte_count, HasBytes
<1>5. ~HasBytes(k) => k < base
  BY <1>1, <1>2, <1>4, EmptyInFront
<1>6. getSendTime(ranges[k]) <= ack.time
  BY <1>1, <1>2, <1>3, <1>5, AckFacts
<1> QED
  BY <1>1, <1>2, <1>6

\* The ack that ends at a range settles it.
LEMMA AckLastKeeps ==
    ASSUME TypeOK, StepInv, Typed', AckInv, AckLast, Fixed
    PROVE  AckInv' /\ Marks /\ op' = "idle"
<1> DEFINE k == ack.it
           r == ranges[k]
           i == insertAckTime(r, ack.time)
           s == CountAck(IF r.acked \/ (byte_count(k) = 0 /\ ack.echo) THEN r ELSE i)
<1>1. op = "ack" /\ AckEndsHere(k) /\ ranges' = Put(ranges, k, s) /\ highestAcked' = k /\ op' = "idle"
  BY DEF AckLast, AckReturn
<1>2. /\ k \in Keys /\ r \in ByteRanges /\ ack.time \in Nat /\ ack.ack \in Nat
      /\ \A j \in Keys : j \in Nat /\ ranges[j].endSeq \in Nat /\ j <= ranges[j].endSeq
      /\ r.acked \in BOOLEAN
  BY <1>1, AckFacts
<1>3. HasBytes(k) => ranges[k].endSeq = ack.ack /\ byte_count(k) # 0
  BY <1>1, <1>2 DEF AckEndsHere, byte_count, HasBytes
<1>4. ~HasBytes(k) => ranges[k].endSeq = k /\ ack.ack <= k + 1
  BY <1>1, <1>2 DEF AckEndsHere, byte_count, HasBytes
<1>5. /\ SameTraffic(s, r)
      /\ \/ s.acked = r.acked /\ s.ackTime = r.ackTime
         \/ ~r.acked /\ s.acked /\ s.ackTime = ack.time
      /\ HasBytes(k) => s.acked
  <2>1. r.acked \/ (byte_count(k) = 0 /\ ack.echo) => s = CountAck(r)
    OBVIOUS
  <2>2. ~(r.acked \/ (byte_count(k) = 0 /\ ack.echo)) => s = CountAck(i)
    OBVIOUS
  <2> HIDE DEF s
  <2>3. /\ SameTraffic(CountAck(i), r) /\ CountAck(i).acked /\ CountAck(i).ackTime = ack.time
        /\ SameTraffic(CountAck(r), r)
        /\ CountAck(r).acked = r.acked /\ CountAck(r).ackTime = r.ackTime
    <3>1. r \in ByteRanges /\ ack.time \in Nat
      BY <1>2
    <3> HIDE DEF r
    <3> QED
      BY <3>1, AckRecords
  <2> HIDE DEF i, r, k
  <2> QED
    BY <1>2, <1>3, <2>1, <2>2, <2>3
<1>6. HasBytes(k) => s.endSeq <= ack.ack
  <2> HIDE DEF s
  <2> QED
    BY <1>2, <1>3, <1>5 DEF SameTraffic
<1> HIDE DEF s, i
<1>7. MarksOnly
  BY <1>1, <1>2, <1>5, <1>6, MarkOne DEF AckInv
<1> HIDE DEF r, k
<1>8. /\ Keys' = Keys /\ ranges'[k] = s
      /\ \A j \in Keys : ranges'[j].endSeq = ranges[j].endSeq /\ (ranges[j].acked => ranges'[j].acked)
  <2>1. ranges'[k] = s
    BY <1>1, <1>2 DEF Keys, Put
  <2> QED
    BY <1>7, <2>1, <1>2 DEF MarksOnly, AckPart
<1>9. \A j \in Keys : HasBytes(j) /\ j < k => ranges'[j].acked /\ ranges[j].endSeq <= ack.ack
  BY <1>1, <1>8, AckFacts DEF k
<1>10. HasBytes(k) => ranges'[k].acked
  BY <1>5, <1>8
<1>11. UNCHANGED <<phase, acks, ackNo>> /\ ack.ack = acks[ackNo].ack
  BY <1>1, AckFacts DEF Fixed, envVars
<1>12. AckLoop'
  BY <1>1, <1>2, <1>8, <1>9, <1>10 DEF AckLoop, HasBytes
<1>13. Settled(ackNo)'
  <2> SUFFICES ASSUME NEW j \in Keys, HasBytes(j)
               PROVE  j >= ack.ack \/ (ranges[j].endSeq <= ack.ack /\ ranges'[j].acked)
    BY <1>8, <1>11 DEF Settled, HasBytes
  <2>1. CASE j < k
    BY <1>9, <2>1
  <2>2. CASE j = k
    BY <1>2, <1>3, <1>10, <2>2
  <2>3. CASE k < j
    <3>1. ranges[k].endSeq <= j
      BY <1>2, <2>3 DEF StepInv, Disjoint
    <3> QED
      BY <1>2, <1>3, <1>4, <2>3, <3>1
  <2> QED
    BY <1>2, <2>1, <2>2, <2>3
<1> QED
  BY <1>1, <1>7, <1>12, <1>13, MarksOnlyMarks, MarksKeepsAcks

\* Behind a range that the ack goes beyond, the next one starts at the ack at
\* the latest, and in front of it if it has bytes.
LEMMA NextReached ==
    ASSUME TypeOK, StepInv, AckInv, op = "ack", NEW k \in Keys, NEW n \in Keys,
           IsNext(k, n), ~AckEndsHere(k), ack.ack > ranges[k].endSeq
    PROVE  n <= ack.ack /\ (n = ack.ack => ~HasBytes(n))
<1> DEFINE y == ranges[k].endSeq
<1>1. /\ \A j \in Keys : j \in Nat /\ ranges[j].endSeq \in Nat /\ j <= ranges[j].endSeq
      /\ ack.ack \in Nat /\ nxt \in Nat /\ base \in {0, 1} /\ base <= nxt /\ ack.ack <= nxt + 1
  BY AckFacts
<1>2. k \in Nat /\ n \in Nat /\ y \in Nat /\ k <= y /\ k < n /\ y < ack.ack
  BY <1>1 DEF IsNext
<1>3. ASSUME NEW j \in Keys, j > k PROVE y <= j /\ n <= j
  <2>1. j \in Nat /\ k < j
    BY <1>1, <1>2, <1>3
  <2>2. y <= j
    BY <2>1 DEF StepInv, Disjoint
  <2>3. j <= k \/ j >= n
    BY DEF IsNext
  <2> QED
    BY <1>2, <2>1, <2>2, <2>3
<1>4. HasBytes(n) => n < nxt
  BY <1>1 DEF HasBytes, StepInv, RangesInStream
<1>5. n <= nxt + 1
  BY DEF StepInv, RangesInStream
<1>6. ~HasBytes(k) => y = k /\ k + 1 < ack.ack
  BY <1>1, <1>2 DEF HasBytes, AckEndsHere, byte_count
<1>7. CASE ~HasBytes(k)
  <2>1. k = 0 /\ base = 1 /\ 1 < ack.ack
    BY <1>1, <1>6, <1>7, EmptyInFront
  <2>2. CASE nxt = 1
    <3>1. ack.ack = 2
      BY <1>1, <2>1, <2>2
    <3> QED
      BY <1>2, <1>4, <1>5, <2>2, <3>1
  <2>3. CASE nxt # 1
    <3>1. 1 \in base .. nxt - 1
      BY <1>1, <2>1, <2>3
    <3>2. PICK j \in Keys : Covers(j, 1)
      BY <2>1, <3>1, AckFacts
    <3>3. j # k /\ j > k
      BY <1>1, <1>7, <2>1, <3>2 DEF Covers, HasBytes
    <3>4. n <= 1
      BY <1>1, <1>2, <1>3, <3>2, <3>3 DEF Covers
    <3> QED
      BY <1>1, <1>2, <2>1, <3>4
  <2> QED
    BY <2>2, <2>3
<1>8. CASE HasBytes(k)
  <2>1. k < y /\ y <= nxt
    BY <1>8 DEF HasBytes, StepInv, RangesInStream
  <2>2. CASE y = nxt
    <3>1. ack.ack = nxt + 1
      BY <1>1, <1>2, <2>2
    <3> QED
      BY <1>1, <1>2, <1>4, <1>5, <3>1
  <2>3. CASE y < nxt
    <3>1. y \in base .. nxt - 1
      BY <1>1, <1>2, <2>1, <2>3
    <3>2. PICK j \in Keys : Covers(j, y)
      BY <1>2, <3>1, AckFacts
    <3>3. ~(j <= k)
      <4>1. j < k => ranges[j].endSeq <= k
        BY <1>2, <3>2 DEF StepInv, Disjoint
      <4>2. j \in Nat /\ j <= y /\ y < ranges[j].endSeq /\ ranges[j].endSeq \in Nat
        BY <1>1, <3>2 DEF Covers
      <4>3. j # k
        BY <1>2, <4>2
      <4> QED
        BY <1>2, <4>1, <4>2, <4>3
    <3>4. n <= y
      BY <1>1, <1>2, <1>3, <3>2, <3>3 DEF Covers
    <3> QED
      BY <1>1, <1>2, <3>4
  <2> QED
    BY <1>1, <1>2, <2>1, <2>2, <2>3
<1> QED
  BY <1>7, <1>8

\* Going on to the next range leaves no range out.
LEMMA AckMoreKeeps ==
    ASSUME TypeOK, StepInv, Typed', AckInv, AckMore, Fixed
    PROVE  AckInv' /\ Marks /\ op' \in {"idle", "ack"}
<1> DEFINE k == ack.it
           r == ranges[k]
           i == insertAckTime(r, ack.time)
<1>1. /\ op = "ack" /\ ~AckEndsHere(k) /\ ack.ack > r.endSeq
      /\ ranges' = IF r.acked THEN ranges ELSE Put(ranges, k, i)
      /\ highestAcked' = k
  BY DEF AckMore
<1>2. \/ IsLast(k) /\ op' = "idle"
      \/ ~IsLast(k) /\ op' = "ack" /\ \E n \in Keys : IsNext(k, n) /\ ack' = [ack EXCEPT !.it = n]
  BY DEF AckMore, AckReturn
<1>3. /\ k \in Keys /\ r \in ByteRanges /\ ack.time \in Nat /\ ack.ack \in Nat
      /\ \A j \in Keys : j \in Nat /\ ranges[j].endSeq \in Nat /\ j <= ranges[j].endSeq
      /\ r.acked \in BOOLEAN
  BY <1>1, AckFacts
<1>4. SameTraffic(i, r) /\ i.acked /\ i.ackTime = ack.time
  <2>1. r \in ByteRanges /\ ack.time \in Nat
    BY <1>3
  <2> HIDE DEF r
  <2> QED
    BY <2>1, AckRecords
<1> HIDE DEF i
<1>5. MarksOnly
  <2>1. HasBytes(k) => i.endSeq <= ack.ack
    BY <1>1, <1>3, <1>4 DEF SameTraffic
  <2> QED
    BY <1>1, <1>3, <1>4, <2>1, MarkOne DEF AckInv
<1>6. /\ Keys' = Keys /\ ranges'[k].acked
      /\ \A j \in Keys : ranges'[j].endSeq = ranges[j].endSeq /\ (ranges[j].acked => ranges'[j].acked)
  <2>1. ranges'[k].acked
    BY <1>1, <1>3, <1>4 DEF Keys, Put
  <2> QED
    BY <1>5, <2>1 DEF MarksOnly, AckPart
<1> HIDE DEF r, k
<1>7. \A j \in Keys : HasBytes(j) /\ j < k => ranges'[j].acked /\ ranges[j].endSeq <= ack.ack
  BY <1>1, <1>6, AckFacts DEF k
<1>8. \A j \in Keys : HasBytes(j) /\ j <= k => ranges'[j].acked /\ ranges[j].endSeq <= ack.ack
  BY <1>1, <1>3, <1>6, <1>7 DEF r
<1>9. UNCHANGED <<phase, acks, ackNo>> /\ ack.ack = acks[ackNo].ack
  BY <1>1, AckFacts DEF Fixed, envVars
<1>10. CASE IsLast(k) /\ op' = "idle"
  <2>1. AckLoop'
    BY <1>1, <1>3, <1>6, <1>7, <1>10 DEF AckLoop, HasBytes
  <2>2. Settled(ackNo)'
    <3> SUFFICES ASSUME NEW j \in Keys, HasBytes(j)
                 PROVE  ranges[j].endSeq <= ack.ack /\ ranges'[j].acked
      BY <1>6, <1>9 DEF Settled, HasBytes
    <3> QED
      BY <1>8, <1>10 DEF IsLast
  <2> QED
    BY <1>1, <1>5, <1>10, <2>1, <2>2, MarksOnlyMarks, MarksKeepsAcks
<1>11. ASSUME NEW n \in Keys, IsNext(k, n), op' = "ack", ack' = [ack EXCEPT !.it = n]
       PROVE  AckInv' /\ Marks /\ op' \in {"idle", "ack"}
  <2>1. ack'.it = n /\ ack'.ack = ack.ack /\ ack'.time = ack.time
    BY <1>11 DEF TypeOK, rmTypeOK, Acks
  <2>2. n <= ack.ack /\ (n = ack.ack => ~HasBytes(n))
    BY <1>1, <1>3, <1>11, NextReached DEF r
  <2>3. \A j \in Keys : HasBytes(j) /\ j < n => ranges'[j].acked /\ ranges[j].endSeq <= ack.ack
    BY <1>3, <1>8, <1>11 DEF IsNext
  <2>4. AckLoop'
    BY <1>1, <1>3, <1>6, <1>7, <1>11, <2>1, <2>2, <2>3 DEF AckLoop, HasBytes
  <2> QED
    BY <1>1, <1>5, <1>11, <2>1, <2>4, MarksOnlyMarks, MarksKeepsAcks
<1> QED
  BY <1>2, <1>10, <1>11

\* An ack inside a range acks the first part, and starts there the next time.
LEMMA AckSplitKeeps ==
    ASSUME TypeOK, StepInv, Typed', AckInv, AckSplit, Fixed
    PROVE  AckInv' /\ Marks /\ op' = "idle"
<1> DEFINE k == ack.it
           at == ack.ack
           cut == SplitAt(ranges, k, at)
           i == insertAckTime(cut[k], ack.time)
           s == CountAck(i)
<1>1. /\ op = "ack" /\ k < at /\ at < ranges[k].endSeq
      /\ ranges' = Put(cut, k, s) /\ highestAcked' = at /\ op' = "idle"
  BY DEF AckSplit, AckReturn
<1>2. /\ k \in Keys /\ k \in Nat /\ ack.time \in Nat /\ at \in Nat
      /\ \A j \in Keys : j \in Nat /\ ranges[j].endSeq \in Nat /\ j <= ranges[j].endSeq
      /\ \A j \in Keys : ranges[j].acked \in BOOLEAN
  BY <1>1, AckFacts
<1>3. RangeMap(ranges) /\ k \in DOMAIN ranges /\ at # k /\ HasBytes(k)
  BY <1>1, <1>2 DEF TypeOK, rmTypeOK, RangeMap, Keys, HasBytes
<1>4. at \notin Keys
  BY <1>1, <1>2 DEF StepInv, Disjoint
<1>5. ~ranges[k].acked
  <2>1. ranges[k].acked => ranges[k].endSeq <= at
    BY <1>1, <1>2, <1>3, AckedReached
  <2> QED
    BY <1>1, <1>2, <2>1
<1>6. SplitFacts(ranges, k, at)
  BY <1>2, <1>3, SplitAtType
<1>7. \A j \in Keys : ranges[j].sent_tstamp_pcap # <<>>
  BY DEF AckInv, EverySent
<1>8. \A j \in {k, at} : /\ Kept(cut[j], ranges[k])
                         /\ Counts(cut[j], ranges[k], FALSE)
                         /\ cut[j] \in ByteRanges
  <2>1. at \notin DOMAIN ranges /\ ranges[k].sent_tstamp_pcap # <<>>
    BY <1>4, <1>2, <1>7 DEF Keys
  <2> QED
    BY <1>2, <1>3, <2>1, CutHistory
<1>9. SameTraffic(s, cut[k]) /\ s.acked /\ s.ackTime = ack.time
  <2>1. cut[k] \in ByteRanges /\ ack.time \in Nat
    BY <1>2, <1>8
  <2> HIDE DEF cut
  <2> QED
    BY <2>1, AckRecords
<1> HIDE DEF s, i
<1>10. /\ Keys' = Keys \cup {at} /\ ranges'[k] = s /\ ranges'[at] = cut[at]
       /\ s.endSeq = at /\ ranges'[at].endSeq = ranges[k].endSeq
       /\ \A j \in Keys : j # k => ranges'[j] = ranges[j]
  <2>1. /\ DOMAIN cut = Keys \cup {at} /\ cut[k].endSeq = at /\ cut[at].endSeq = ranges[k].endSeq
        /\ \A j \in Keys : j # k => cut[j] = ranges[j]
    BY <1>4, <1>6 DEF SplitFacts, Keys
  <2> HIDE DEF cut
  <2> QED
    BY <1>1, <1>2, <1>3, <1>4, <1>9, <2>1 DEF Keys, Put, SameTraffic
<1> HIDE DEF cut, k, at
<1>11. ASSUME NEW j \in Keys, j # k PROVE AckPart(j, j)
  <2>1. ranges'[j] = ranges[j] /\ ranges[j].endSeq \in Nat /\ ranges[j].sent_tstamp_pcap # <<>>
    BY <1>2, <1>7, <1>10, <1>11
  <2> QED
    BY <2>1 DEF AckPart, Counts, Add, HasBytes, PacketsFrom, OnlyPackets, SendingsFrom
<1>12. AckPart(k, k)
  <2>1. s.endSeq <= ranges[k].endSeq /\ k < s.endSeq /\ s.endSeq <= ack.ack
    BY <1>1, <1>2, <1>10 DEF at
  <2>2. s.sent_tstamp_pcap # <<>> /\ getSendTime(s) = getSendTime(ranges[k])
    BY <1>8, <1>9 DEF Kept, SameTraffic, getSendTime
  <2>3. Counts(s, ranges[k], FALSE)
    BY <1>8, <1>9 DEF Counts, SameTraffic, PacketsFrom, OnlyPackets, SendingsFrom
  <2> QED
    BY <1>3, <1>5, <1>9, <1>10, <2>1, <2>2, <2>3 DEF AckPart, k
<1>13. AckPart(at, k)
  <2>1. ranges'[at].endSeq <= ranges[k].endSeq /\ at < ranges'[at].endSeq
    BY <1>1, <1>2, <1>10
  <2> QED
    BY <1>1, <1>3, <1>8, <1>10, <2>1 DEF AckPart, Kept
<1>14. Holds
  <2> SUFFICES ASSUME NEW x \in Nat, NEW j \in Keys, Covers(j, x)
               PROVE  \E h \in Keys' : Covers(h, x)'
    BY DEF Holds
  <2>1. CASE j # k
    BY <1>10, <2>1 DEF Covers
  <2>2. CASE j = k /\ x < at
    BY <1>10, <2>2 DEF Covers
  <2>3. CASE j = k /\ at <= x
    BY <1>10, <2>3 DEF Covers
  <2> QED
    BY <1>2, <2>1, <2>2, <2>3
<1>15. Marks
  BY <1>2, <1>10, <1>11, <1>12, <1>13, <1>14 DEF Marks
<1>16. \A j \in Keys : HasBytes(j) /\ j < k =>
          ranges'[j] = ranges[j] /\ ranges[j].acked /\ ranges[j].endSeq <= at
  <2>1. \A j \in Keys : HasBytes(j) /\ j < k => ranges[j].acked /\ ranges[j].endSeq <= at
    BY <1>1, AckFacts DEF k, at
  <2>2. \A j \in Keys : j < k => ranges'[j] = ranges[j]
    BY <1>2, <1>10
  <2> QED
    BY <2>1, <2>2
<1>17. \A j \in Keys : k < j => at <= j
  BY <1>1, <1>2 DEF StepInv, Disjoint
<1>18. UNCHANGED <<phase, acks, ackNo>> /\ at = acks[ackNo].ack
  BY <1>1, AckFacts DEF Fixed, envVars, at
<1>19. \A j \in Keys' : j < ranges'[j].endSeq /\ j < at => ranges'[j].acked /\ ranges'[j].endSeq <= at
  <2> SUFFICES ASSUME NEW j \in Keys', j < ranges'[j].endSeq, j < at
               PROVE  ranges'[j].acked /\ ranges'[j].endSeq <= at
    OBVIOUS
  <2>1. j \in Keys /\ j <= k
    BY <1>2, <1>10, <1>17
  <2>2. CASE j = k
    BY <1>2, <1>9, <1>10, <2>2
  <2>3. CASE j < k
    BY <1>2, <1>10, <1>16, <2>1, <2>3 DEF HasBytes
  <2>4. j \in Nat
    BY <1>2, <2>1
  <2> QED
    BY <1>2, <2>1, <2>2, <2>3, <2>4
<1>20. AckLoop'
  <2>1. k \in Keys' /\ k < ranges'[k].endSeq /\ ranges'[k].endSeq = at
    BY <1>1, <1>2, <1>10
  <2> QED
    BY <1>1, <1>19, <2>1 DEF AckLoop, HasBytes
<1>21. Settled(ackNo)'
  <2>1. \A j \in Keys' : j \in Nat
    BY <1>2, <1>10
  <2>2. \A j \in Keys' : j < ranges'[j].endSeq => j >= at \/ (ranges'[j].endSeq <= at /\ ranges'[j].acked)
    BY <1>2, <1>19, <2>1
  <2> QED
    BY <1>18, <2>2 DEF Settled, HasBytes
<1> QED
  BY <1>1, <1>15, <1>20, <1>21, MarksKeepsAcks

\* An ack that ends where the range starts finds the range in front of it, and
\* is counted there; the search for a FIN, which can leave the map, is not made.
LEMMA AckOldKeeps ==
    ASSUME TypeOK, StepInv, Typed', AckInv, AckOld, Fixed
    PROVE  AckInv' /\ Marks /\ op' = "idle"
<1> DEFINE k == ack.it
<1>1. /\ op = "ack" /\ ack.ack < ranges[k].endSeq /\ ack.ack <= k /\ UNCHANGED highestAcked
  BY DEF AckOld
<1>2. /\ k \in Keys /\ ack.time \in Nat /\ ack.ack \in Nat
      /\ \A j \in Keys : /\ j \in Nat /\ ranges[j].endSeq \in Nat /\ j <= ranges[j].endSeq
                         /\ ranges[j] \in ByteRanges
  BY <1>1, AckFacts
<1>3. k = ack.ack /\ HasBytes(k)
  <2>1. k <= ack.ack
    BY <1>1, AckFacts
  <2> QED
    BY <1>1, <1>2, <2>1 DEF HasBytes
<1>4. IsFirst(k) \/ \E p \in Keys : HasBytes(p) /\ ranges[p].endSeq = k
  BY <1>1, <1>3 DEF AckInv, AckLoop, PassesInOrder
<1>5. ASSUME NEW p \in Keys, IsPrev(k, p)
      PROVE  ranges[p].endSeq = ack.ack
  <2>1. p < k
    BY <1>5 DEF IsPrev
  <2>2. ~IsFirst(k)
    BY <1>2, <2>1 DEF IsFirst
  <2>3. PICK q \in Keys : HasBytes(q) /\ ranges[q].endSeq = k
    BY <1>4, <2>2
  <2>4. q < k
    BY <1>2, <2>3 DEF HasBytes
  <2>5. q <= p
    BY <1>2, <1>5, <2>4 DEF IsPrev
  <2>6. q < p => ranges[q].endSeq <= p
    BY DEF StepInv, Disjoint
  <2>7. q = p
    BY <1>2, <2>1, <2>3, <2>5, <2>6
  <2> QED
    BY <1>3, <2>3, <2>7
<1>6. (UNCHANGED ranges /\ AckReturn) \/ \E p \in Keys : IgnoreOld(p)
  <2>1. ASSUME NEW p \in Keys, IsPrev(k, p) PROVE ack.ack - 1 # ranges[p].endSeq
    BY <1>2, <1>5, <2>1
  <2> HIDE DEF k
  <2> QED
    BY <2>1 DEF AckOld, k
<1>7. op' = "idle"
  BY <1>6 DEF IgnoreOld, AckReturn
<1>8. UNCHANGED ranges \/ \E j \in Keys : ranges' = Put(ranges, j, CountAck(ranges[j]))
  <2>1. ASSUME NEW p \in Keys, IgnoreOld(p)
        PROVE  UNCHANGED ranges \/ \E j \in Keys : ranges' = Put(ranges, j, CountAck(ranges[j]))
    <3> DEFINE C == CoveredUpTo(p)
               top == CHOOSE j \in C : \A h \in C : h <= j
    <3>1. CASE \E j \in C : \A h \in C : h <= j
      <4>1. top \in C
        BY <3>1
      <4>2. C \subseteq Keys
        BY DEF CoveredUpTo
      <4>3. top \in Keys
        BY <4>1, <4>2
      <4>4. ranges' = IF ack.ack = ranges[top].endSeq
                      THEN Put(ranges, top, CountAck(ranges[top])) ELSE ranges
        BY <2>1, <3>1 DEF IgnoreOld
      <4> HIDE DEF top
      <4> QED
        BY <4>3, <4>4
    <3>2. CASE ~\E j \in C : \A h \in C : h <= j
      BY <2>1, <3>2 DEF IgnoreOld
    <3> QED
      BY <3>1, <3>2
  <2> QED
    BY <1>6, <2>1
<1>9. MarksOnly /\ \A j \in Keys : ranges'[j].acked = ranges[j].acked
  <2>1. CASE UNCHANGED ranges
    BY <1>2, <2>1, MarkOne DEF AckInv
  <2>2. ASSUME NEW j \in Keys, ranges' = Put(ranges, j, CountAck(ranges[j]))
        PROVE  MarksOnly /\ \A h \in Keys : ranges'[h].acked = ranges[h].acked
    <3> DEFINE s == CountAck(ranges[j])
    <3>1. ranges[j] \in ByteRanges
      BY <1>2
    <3>2. SameTraffic(s, ranges[j]) /\ s.acked = ranges[j].acked /\ s.ackTime = ranges[j].ackTime
      BY <1>2, <3>1, AckRecords
    <3> HIDE DEF s
    <3>3. ranges' = Put(ranges, j, s)
      BY <2>2 DEF s
    <3>4. MarksOnly
      BY <3>2, <3>3, MarkOne DEF AckInv
    <3> QED
      BY <3>2, <3>3, <3>4 DEF Put, Keys
  <2> QED
    BY <1>8, <2>1, <2>2
<1>10. Keys' = Keys /\ \A j \in Keys : ranges'[j].endSeq = ranges[j].endSeq
  BY <1>9 DEF MarksOnly
<1>11. UNCHANGED <<phase, acks, ackNo>> /\ ack.ack = acks[ackNo].ack
  BY <1>1, AckFacts DEF Fixed, envVars
<1>12. \A j \in Keys : HasBytes(j) /\ j < k => ranges[j].acked /\ ranges[j].endSeq <= ack.ack
  BY <1>1, AckFacts
<1> HIDE DEF k
<1>13. AckLoop'
  <2>1. AckLoop /\ highestAcked \in Keys \cup {NoKey}
    BY DEF AckInv, TypeOK, rmTypeOK, Keys
  <2>2. ASSUME phase = "acks", highestAcked # NoKey
        PROVE  /\ \A j \in Keys : j < ranges'[j].endSeq /\ j < highestAcked => ranges'[j].acked
               /\ highestAcked < ranges'[highestAcked].endSeq =>
                    \/ ranges'[highestAcked].acked
                    \/ \E p \in Keys : p < ranges'[p].endSeq /\ ranges'[p].endSeq = highestAcked
    <3>1. highestAcked \in Keys
      BY <2>1, <2>2
    <3>2. /\ \A j \in Keys : HasBytes(j) /\ j < highestAcked => ranges[j].acked
          /\ HasBytes(highestAcked) =>
                    \/ ranges[highestAcked].acked
                    \/ \E p \in Keys : HasBytes(p) /\ ranges[p].endSeq = highestAcked
      BY <2>1, <2>2 DEF AckLoop
    <3> QED
      BY <1>9, <1>10, <3>1, <3>2 DEF HasBytes
  <2> QED
    BY <1>1, <1>7, <1>10, <1>11, <2>2 DEF AckLoop, HasBytes
<1>14. Settled(ackNo)'
  <2> SUFFICES ASSUME NEW j \in Keys, HasBytes(j)
               PROVE  j >= ack.ack \/ (ranges[j].endSeq <= ack.ack /\ ranges[j].acked)
    BY <1>9, <1>10, <1>11 DEF Settled, HasBytes
  <2> QED
    BY <1>2, <1>3, <1>12
<1> QED
  BY <1>1, <1>7, <1>9, <1>13, <1>14, MarksOnlyMarks, MarksKeepsAcks

\* Every step of processAck keeps AckInv, and none of them fails.
LEMMA AckStepKeepsAcks ==
    ASSUME TypeOK, StepInv, Typed', AckInv, processAck, Fixed
    PROVE  AckInv' /\ Marks /\ op = "ack" /\ op' \in {"idle", "ack"}
<1>1. op = "ack"
  BY DEF processAck, AckLast, AckBeforeSent, AckMore, AckSplit, AckOld
<1> QED
  BY <1>1, AckLastKeeps, NeverBeforeSent, AckMoreKeeps, AckSplitKeeps, AckOldKeeps DEF processAck

-----------------------------------------------------------------------------
(* The steps of the environment. *)

\* A segment as registerSent leaves it has numbers.
LEMMA ClassifyInt ==
    ASSUME NEW s \in Segments
    PROVE  classify(s).seq \in Int /\ classify(s).endSeq \in Int
BY DEF classify, Segments

\* The network gets the bytes of the segment, or its SYN or FIN, and no others.
Transmits ==
    /\ wire \subseteq wire'
    /\ \A p \in wire' \ wire :
         /\ p.ts = tstamp_tcp(clock + 1)
         /\ \/ seg'.seq <= p.seq /\ p.seq < seg'.endSeq
            \/ p.seq = seg'.seq /\ seg'.seq = seg'.endSeq /\ seg'.flag \in {"syn", "fin"}
    /\ MaxRecv # 0 => \A x \in seg'.seq .. seg'.endSeq - 1 :
         [seq |-> x, ts |-> tstamp_tcp(clock + 1)] \in wire'

\* What processSent passes on of any segment.
LEMMA SentCall ==
    ASSUME CountersInv, ~conn.closed, op = "idle",
           NEW seq \in Nat, NEW endSeq \in Nat, NEW flag \in Flags, processSent(seq, endSeq, flag)
    PROVE  /\ seg'.time = clock + 1 /\ clock' = clock + 1 /\ seg'.flag = flag
           /\ frame'.level = 0
           /\ UNCHANGED <<highestAcked, ack, acks, ackNo, recvNo, arrived, dups>>
           /\ firstSeq' >= firstSeq
           /\ TcpTimestamps => \A p \in wire' \ wire : p.ts # 0
           /\ reuse = {} => Transmits
<1> DEFINE s == [seq |-> seq, endSeq |-> endSeq, flag |-> flag,
                 retrans |-> FALSE, is_rdb |-> FALSE, rdb_end_seq |-> 0,
                 time |-> clock + 1, tstamp_tcp |-> tstamp_tcp(clock + 1)]
           c == classify(s)
<1>1. /\ s \in Segments /\ s.seq = seq /\ s.flag = flag /\ s.time = clock + 1
      /\ s.tstamp_tcp = tstamp_tcp(clock + 1) /\ clock \in Nat /\ firstSeq \in Nat
  BY NewSegment DEF CountersInv, TypeOK, rmTypeOK
<1>2. ~Ignored(s)
  BY DEF Ignored
<1>3. /\ clock' = clock + 1 /\ wire' = wire \cup OnWire(c)
      /\ firstSeq' = IF Restarted(s) THEN firstSeq + seq ELSE firstSeq
      /\ Call(c, "INSERT_SENT")
      /\ UNCHANGED <<highestAcked, ack, acks, ackNo, recvNo, arrived, dups>>
  BY <1>2 DEF processSent, insertSentRange
<1> HIDE DEF s
<1>4. c.time = s.time /\ c.flag = s.flag /\ c.tstamp_tcp = s.tstamp_tcp
  BY <1>1 DEF classify, Segments
<1> HIDE DEF c
<1>5. seg'.time = clock + 1 /\ seg'.flag = flag /\ frame'.level = 0
  BY <1>1, <1>3, <1>4 DEF Call
<1>6. firstSeq' >= firstSeq
  BY <1>1, <1>3
<1>7. ASSUME TcpTimestamps PROVE \A p \in wire' \ wire : p.ts # 0
  <2>1. tstamp_tcp(clock + 1) # 0
    <3>1. (clock + 1) \div TsTick \in Nat
      BY <1>1, TsTickAssumption
    <3> QED
      BY <1>7, <3>1 DEF tstamp_tcp
  <2>2. \A p \in OnWire(c) : p.ts = c.tstamp_tcp
    BY DEF OnWire
  <2> QED
    BY <1>1, <1>3, <1>4, <2>1, <2>2
<1>8. ASSUME reuse = {} PROVE Transmits
  <2>1. seg' = c /\ c.tstamp_tcp = tstamp_tcp(clock + 1)
    BY <1>1, <1>3, <1>4 DEF Call
  <2>2. c.seq \in Int /\ c.endSeq \in Int
    BY <1>1, ClassifyInt DEF c
  <2>3. ASSUME NEW p \in OnWire(c)
        PROVE  /\ p.ts = c.tstamp_tcp
               /\ \/ c.seq <= p.seq /\ p.seq < c.endSeq
                  \/ p.seq = c.seq /\ c.seq = c.endSeq /\ c.flag \in {"syn", "fin"}
    <3>1. PICK x : /\ p = [seq |-> x, ts |-> c.tstamp_tcp]
                   /\ \/ payloadSize(c) # 0 /\ x \in c.seq .. c.endSeq - 1
                      \/ payloadSize(c) = 0 /\ c.flag \in {"syn", "fin"} /\ x = c.seq
      BY DEF OnWire
    <3> QED
      BY <2>2, <3>1 DEF payloadSize
  <2>4. ASSUME MaxRecv # 0, NEW x \in c.seq .. c.endSeq - 1
        PROVE  [seq |-> x, ts |-> c.tstamp_tcp] \in OnWire(c)
    <3>1. payloadSize(c) # 0
      BY <2>2 DEF payloadSize
    <3> QED
      BY <1>8, <2>4, <3>1 DEF OnWire
  <2> QED
    BY <1>3, <2>1, <2>3, <2>4 DEF Transmits
<1> QED
  BY <1>3, <1>5, <1>6, <1>7, <1>8

\* How a segment gets into the sender trace.
Sends ==
    /\ op = "idle" /\ op' = "insert" /\ phase = "sent" /\ frame'.itype = "INSERT_SENT"
    /\ frame'.start = seg'.seq /\ frame'.end = seg'.endSeq /\ frame'.level = 0
    /\ UNCHANGED <<ranges, lastSeq, highestAcked, ack, phase, base, acks, ackNo, recvNo,
                   arrived, dups>>
    /\ clock' = clock + 1 /\ seg'.time = clock + 1
    /\ firstSeq' >= firstSeq
    /\ TcpTimestamps => \A p \in wire' \ wire : p.ts # 0
    /\ Transmits
    /\ seg'.endSeq - seg'.seq <= MaxPayload
    /\ nxt <= nxt'
    /\ nxt' # nxt => tcp = "open" /\ nxt' <= base + MaxSeq
    /\ tcp' = "open" => tcp = "open"
    /\ base = 1 /\ Keys = {} => seg'.seq = 0 /\ seg'.endSeq = 0 /\ seg'.flag = "syn"
    /\ seg'.seq = seg'.endSeq /\ tcp' = "open" =>
          seg'.flag = "none" \/ (base = 1 /\ seg'.seq = 0)

\* A segment with payload gets there that way.
LEMMA DataSends ==
    ASSUME CountersInv, PartitionInv, op = "idle", phase = "sent", base = 0 \/ Keys # {},
           NEW seq \in Nat, NEW endSeq \in Nat, seq < endSeq, endSeq - seq <= MaxPayload,
           NEW flag \in {"none", "fin"}, processSent(seq, endSeq, flag),
           nxt <= nxt', nxt' # nxt => tcp = "open" /\ nxt' <= base + MaxSeq,
           tcp' = "open" => tcp = "open"
    PROVE  Sends
<1>1. ~conn.closed /\ flag \in Flags /\ reuse = {}
  BY DEF PartitionInv, Flags
<1>2. /\ op' = "insert" /\ frame'.itype = "INSERT_SENT"
      /\ frame'.start = seq /\ frame'.end = endSeq
      /\ seg'.seq = seq /\ seg'.endSeq = endSeq
      /\ UNCHANGED <<ranges, lastSeq, phase, base>>
  BY <1>1, DataCall
<1>3. /\ seg'.time = clock + 1 /\ clock' = clock + 1 /\ frame'.level = 0
      /\ UNCHANGED <<highestAcked, ack, acks, ackNo, recvNo, arrived, dups>>
      /\ firstSeq' >= firstSeq
      /\ TcpTimestamps => \A p \in wire' \ wire : p.ts # 0
      /\ Transmits
  BY <1>1, SentCall
<1>4. base = 1 => Keys # {}
  OBVIOUS
<1>5. seg'.seq # seg'.endSeq
  BY <1>2
<1> QED
  BY <1>2, <1>3, <1>4, <1>5 DEF Sends

\* So does one without.
LEMMA EmptySends ==
    ASSUME CountersInv, PartitionInv, op = "idle", phase = "sent",
           NEW seq \in Nat, NEW flag \in Flags, processSent(seq, seq, flag),
           IF flag = "syn"
           THEN base = 1 /\ seq <= SynSlack /\ (seq = 0 \/ seq > conn.lastLargestEndSeq + 1)
           ELSE (base = 0 \/ Keys # {}) /\ (flag = "none" \/ tcp' # "open"),
           nxt' = nxt, tcp' = "open" => tcp = "open"
    PROVE  Sends
<1>1. ~conn.closed /\ nxt \in Nat /\ MaxPayload \in Nat /\ reuse = {}
  BY BoundsAssumption DEF PartitionInv, CountersInv, TypeOK
<1>2. /\ op' = "insert" /\ frame'.itype = "INSERT_SENT"
      /\ frame'.start = seg'.seq /\ frame'.end = seg'.seq
      /\ seg'.endSeq = seg'.seq /\ seg'.flag = flag
      /\ seg'.seq = seq \/ (seg'.seq = 0 /\ flag = "syn")
      /\ flag = "syn" /\ seq > conn.lastLargestEndSeq + 1 => seg'.seq = 0
      /\ UNCHANGED <<ranges, lastSeq, phase, base>>
  BY <1>1, EmptyCall
<1>3. /\ seg'.time = clock + 1 /\ clock' = clock + 1 /\ frame'.level = 0
      /\ UNCHANGED <<highestAcked, ack, acks, ackNo, recvNo, arrived, dups>>
      /\ firstSeq' >= firstSeq
      /\ TcpTimestamps => \A p \in wire' \ wire : p.ts # 0
      /\ Transmits
  BY <1>1, SentCall
<1>4. flag = "syn" => seg'.seq = 0 /\ base = 1
  BY <1>2
<1>5. seg'.endSeq - seg'.seq <= MaxPayload
  BY <1>1, <1>2
<1>6. nxt <= nxt'
  BY <1>1
<1>7. base = 1 /\ Keys = {} => flag = "syn"
  OBVIOUS
<1>8. flag # "syn" /\ tcp' = "open" => flag = "none"
  OBVIOUS
<1> QED
  BY <1>2, <1>3, <1>4, <1>5, <1>6, <1>7, <1>8 DEF Sends

\* Every step of the sender is such a step, for a complete capture.
LEMMA SendStepSends ==
    ASSUME CompleteCapture, CountersInv, PartitionInv, SendStep
    PROVE  Sends
<1>1. /\ nxt \in Nat /\ nxt + 1 \in Nat /\ tcp \in {"open", "fin", "rst"}
      /\ base \in {0, 1} /\ SndNxt \in Nat /\ reuse = {}
      /\ SynOffsets \subseteq Nat /\ MaxPayload \in Nat /\ MaxSeq \in Nat /\ SynSlack \in Nat
  BY BoundsAssumption DEF CountersInv, PartitionInv, TypeOK, SndNxt
<1>2. {"none", "fin", "syn", "rst"} \subseteq Flags
  BY DEF Flags
<1>3. Established => phase = "sent" /\ op = "idle" /\ (base = 0 \/ Keys # {})
  BY DEF Established, CanSend
<1>4. CASE SendSyn
  <2>1. /\ processSent(0, 0, "syn") /\ UNCHANGED <<nxt, tcp>>
        /\ base = 1 /\ phase = "sent" /\ op = "idle"
    BY <1>4 DEF SendSyn, CanSend
  <2>2. 0 \in Nat /\ 0 <= SynSlack /\ "syn" \in Flags
    BY <1>1, <1>2
  <2> QED
    BY <2>1, <2>2, EmptySends
<1>5. CASE SendPureAck
  <2>1. processSent(SndNxt, SndNxt, "none") /\ UNCHANGED <<nxt, tcp>> /\ Established
    BY <1>5 DEF SendPureAck
  <2> QED
    BY <1>1, <1>2, <1>3, <2>1, EmptySends
<1>6. CASE SendFin
  <2>1. processSent(nxt, nxt, "fin") /\ UNCHANGED nxt /\ tcp' = "fin" /\ Established
    BY <1>6 DEF SendFin
  <2> QED
    BY <1>1, <1>2, <1>3, <2>1, EmptySends
<1>7. CASE SendRst
  <2>1. processSent(SndNxt, SndNxt, "rst") /\ UNCHANGED nxt /\ tcp' = "rst" /\ Established
    BY <1>7 DEF SendRst
  <2> QED
    BY <1>1, <1>2, <1>3, <2>1, EmptySends
<1>8. CASE SendKeepAlive
  BY <1>8 DEF SendKeepAlive, CompleteCapture
<1>9. ASSUME NEW d \in SynOffsets, SendOtherSyn(d) PROVE Sends
  <2>1. d \in Nat /\ d <= SynSlack
    BY <1>1 DEF CompleteCapture
  <2>2. /\ processSent(d, d, "syn") /\ UNCHANGED <<nxt, tcp>>
        /\ base = 1 /\ phase = "sent" /\ op = "idle"
    BY <1>9, <2>1 DEF SendOtherSyn, CanSend
  <2>3. d > conn.lastLargestEndSeq + 1
    BY <1>9, <2>1, RetryUnexpected
  <2> QED
    BY <1>2, <2>1, <2>2, <2>3, EmptySends
<1>10. ASSUME NEW n \in 1 .. MaxPayload,
              \/ SendReused(n)
              \/ \E flag \in {"none", "fin"} :
                   \/ SendNew(n, flag)
                   \/ \E s \in 0 .. MaxSeq : Retransmit(s, n, flag)
              \/ \E s \in 0 .. MaxSeq : SendBundle(s, n)
       PROVE  Sends
  <2>1. n \in Nat /\ n >= 1 /\ n <= MaxPayload
    BY <1>1
  <2>2. \A s \in Nat : s + n \in Nat /\ s < s + n /\ (s + n) - s <= MaxPayload
    BY <1>1, <2>1
  <2>3. CASE SendReused(n)
    BY <1>1, <2>3 DEF SendReused
  <2>4. ASSUME NEW flag \in {"none", "fin"}, SendNew(n, flag) PROVE Sends
    <3>1. /\ processSent(nxt, nxt + n, flag) /\ Established /\ tcp = "open"
          /\ nxt' = nxt + n /\ nxt + n <= base + MaxSeq
      BY <2>4 DEF SendNew
    <3>2. nxt <= nxt'
      BY <1>1, <2>1, <3>1
    <3> QED
      BY <1>1, <1>3, <2>2, <3>1, <3>2, DataSends
  <2>5. ASSUME NEW flag \in {"none", "fin"}, NEW s \in 0 .. MaxSeq, Retransmit(s, n, flag)
        PROVE  Sends
    <3>1. processSent(s, s + n, flag) /\ Established /\ UNCHANGED <<nxt, tcp>>
      BY <2>5 DEF Retransmit
    <3>2. s \in Nat /\ nxt <= nxt'
      BY <1>1, <3>1
    <3> QED
      BY <1>1, <1>3, <2>2, <3>1, <3>2, DataSends
  <2>6. ASSUME NEW s \in 0 .. MaxSeq, SendBundle(s, n) PROVE Sends
    <3>1. /\ processSent(s, s + n, "none") /\ Established
          /\ s + n > nxt /\ nxt' = s + n /\ s + n <= base + MaxSeq /\ tcp = "open" /\ UNCHANGED tcp
      BY <2>6 DEF SendBundle
    <3>2. s \in Nat /\ nxt <= nxt'
      BY <1>1, <2>1, <3>1
    <3> QED
      BY <1>1, <1>3, <2>2, <3>1, <3>2, DataSends
  <2> QED
    BY <1>10, <2>3, <2>4, <2>5, <2>6
<1> QED
  BY <1>4, <1>5, <1>6, <1>7, <1>8, <1>9, <1>10 DEF SendStep

\* The part of AckInv that only looks at the map and the acks.
LEMMA SameMapSameAcks ==
    ASSUME TypeOK, AckInv, UNCHANGED <<ranges, base, acks, ackNo>>, op # "ack",
           clock' \in Nat, clock <= clock', nxt' \in Nat, nxt <= nxt',
           nxt' # nxt => tcp = "open", tcp' = "open" => tcp = "open",
           op \notin Failures \/ op' \in Failures, op' # "ack"
    PROVE  /\ Keys' = Keys
           /\ \A k \in Keys : ranges[k].sent_tstamp_pcap # <<>> /\ getSendTime(ranges[k]) <= clock'
           /\ AcksInOrder' /\ SentBeforeAck' /\ AckedByFirst'
           /\ \A i \in 1 .. ackNo' : Settled(i)'
<1>1. /\ Keys' = Keys /\ nxt \in Nat /\ base \in Nat
      /\ \A k \in Keys : k \in Nat /\ ranges[k].endSeq \in Nat /\ getSendTime(ranges[k]) \in Nat
  BY SendTimeType DEF TypeOK, rmTypeOK, Keys, ByteRanges
<1>2. /\ Len(acks) \in Nat /\ clock \in Nat
      /\ \A i \in 1 .. Len(acks) : acks[i].ack \in Nat /\ acks[i].time \in Nat
  BY AckTypes
<1>3. \A k \in Keys : ranges[k].sent_tstamp_pcap # <<>> /\ getSendTime(ranges[k]) <= clock'
  BY <1>1, <1>2 DEF AckInv, EverySent
<1>4. AcksInOrder'
  <2>1. ASSUME NEW i \in 1 .. Len(acks)
        PROVE  /\ acks[i].time <= clock'
               /\ acks[i].ack <= nxt' \/ (tcp' # "open" /\ acks[i].ack <= nxt' + 1)
    <3>1. acks[i].time <= clock /\ (acks[i].ack <= nxt \/ (tcp # "open" /\ acks[i].ack <= nxt + 1))
      BY DEF AckInv, AcksInOrder
    <3> QED
      BY <1>1, <1>2, <3>1
  <2> QED
    BY <2>1 DEF AckInv, AcksInOrder
<1>5. SentBeforeAck'
  <2> SUFFICES ASSUME NEW i \in 1 .. Len(acks), op' \notin Failures, NEW x \in base .. nxt' - 1
               PROVE  x >= acks[i].ack \/ \E k \in Keys : Covers(k, x)
    BY <1>1 DEF AckInv, SentBeforeAck, HasBytes, Covers
  <2>1. CASE x < nxt
    <3>1. x \in base .. nxt - 1
      BY <1>1, <2>1
    <3> QED
      BY <3>1 DEF AckInv, SentBeforeAck
  <2>2. CASE x >= nxt
    <3>1. x \in Nat /\ nxt' # nxt
      BY <1>1, <2>2, Between
    <3>2. acks[i].ack <= nxt
      BY <3>1 DEF AckInv, AcksInOrder
    <3> QED
      BY <1>1, <1>2, <2>2, <3>1, <3>2
  <2> QED
    BY <1>1, <2>1, <2>2
<1>6. AckedByFirst'
  BY <1>1 DEF AckInv, AckedByFirst, HasBytes
<1>7. \A i \in 1 .. ackNo' : Settled(i)'
  BY <1>1 DEF AckInv, Settled, HasBytes
<1> QED
  BY <1>1, <1>3, <1>4, <1>5, <1>6, <1>7

\* Sending keeps AckInv: the bytes sent are not covered by an ack yet.
LEMMA SendsKeepsAcks ==
    ASSUME TypeOK, TypeOK', AckInv, Sends
    PROVE  AckInv'
<1>1. clock \in Nat /\ clock' \in Nat /\ clock <= clock' /\ nxt' \in Nat
  BY DEF Sends, TypeOK
<1>2. op' # "ack" /\ op' \notin Failures /\ op \notin Failures /\ op # "ack"
  BY DEF Sends, Failures
<1>3. /\ Keys' = Keys
      /\ \A k \in Keys : ranges[k].sent_tstamp_pcap # <<>> /\ getSendTime(ranges[k]) <= clock'
      /\ AcksInOrder' /\ SentBeforeAck' /\ AckedByFirst'
      /\ \A i \in 1 .. ackNo' : Settled(i)'
  BY <1>1, <1>2, SameMapSameAcks DEF Sends
<1>4. EverySent'
  BY <1>1, <1>3 DEF Sends, EverySent
<1>5. PassesInOrder'
  <2>1. base = 1 /\ Keys = {} => frame'.start = 0 /\ frame'.end = 0 /\ seg'.flag = "syn"
    BY DEF Sends
  <2> QED
    BY <1>2, <1>3, <2>1 DEF AckInv, PassesInOrder, Sends, ZeroLength
<1>6. AckLoop'
  BY DEF AckLoop, Sends
<1> QED
  BY <1>3, <1>4, <1>5, <1>6 DEF AckInv

\* A captured ack covers only what has been sent and registered.
LEMMA AckArrivesKeepsAcks ==
    ASSUME ~AllowReorder, TypeOK, PartitionInv, AckInv,
           NEW a \in Nat, NEW echo \in BOOLEAN, AckArrives(a, echo)
    PROVE  AckInv'
<1> DEFINE new == [ack |-> a, time |-> clock + 1, echo |-> echo]
           n == Len(acks)
<1>1. /\ phase = "sent" /\ op = "idle" /\ Keys # {} /\ a <= SndNxt
      /\ \A i \in DOMAIN acks : acks[i].ack <= a
      /\ clock' = clock + 1 /\ acks' = Append(acks, new)
      /\ UNCHANGED <<ranges, highestAcked, op, frame, seg, ack, phase, base, nxt, tcp, ackNo>>
  BY DEF AckArrives, rmVars
<1>2. /\ acks \in Seq([ack : Nat, time : Nat, echo : BOOLEAN])
      /\ clock \in Nat /\ nxt \in Nat /\ base \in Nat
  BY DEF TypeOK
<1>3. n \in Nat /\ DOMAIN acks = 1 .. n
      /\ \A i \in 1 .. n : acks[i].ack \in Nat /\ acks[i].time \in Nat
  BY <1>2, AckTypes
<1>4. /\ Len(acks') = n + 1 /\ acks'[n + 1] = new
      /\ \A i \in 1 .. n : acks'[i] = acks[i]
  <2> HIDE DEF new
  <2> QED
    BY <1>1, <1>2, <1>3
<1>5. new.ack = a /\ new.time = clock + 1
  OBVIOUS
<1> HIDE DEF new, n
<1>6. /\ Keys' = Keys /\ ~Inserting /\ op \notin Failures
      /\ \A k \in Keys : k \in Nat /\ ranges[k].endSeq \in Nat /\ getSendTime(ranges[k]) \in Nat
  BY <1>1, SendTimeType DEF TypeOK, rmTypeOK, Keys, ByteRanges, Inserting, Failures
<1>7. ackNo = 0 /\ \A k \in Keys : ~ranges[k].acked
  BY <1>1 DEF AckInv, PassesInOrder
<1>8. EverySent'
  BY <1>1, <1>2, <1>6 DEF AckInv, EverySent
<1>9. PassesInOrder'
  BY <1>1, <1>6 DEF AckInv, PassesInOrder
<1>10. AcksInOrder'
  <2>1. ASSUME NEW i \in 1 .. n + 1
        PROVE  /\ acks'[i].time <= clock'
               /\ acks'[i].ack <= nxt \/ (tcp # "open" /\ acks'[i].ack <= nxt + 1)
               /\ \A j \in 1 .. i : acks'[j].ack <= acks'[i].ack
    <3>1. CASE i \in 1 .. n
      <4>1. /\ acks[i].time <= clock
            /\ acks[i].ack <= nxt \/ (tcp # "open" /\ acks[i].ack <= nxt + 1)
            /\ \A j \in 1 .. i : acks[j].ack <= acks[i].ack
        BY <3>1 DEF AckInv, AcksInOrder, n
      <4>2. acks'[i] = acks[i] /\ \A j \in 1 .. i : acks'[j] = acks[j]
        BY <1>3, <1>4, <3>1
      <4> QED
        BY <1>1, <1>2, <1>3, <3>1, <4>1, <4>2
    <3>2. CASE i = n + 1
      <4>1. acks'[i] = new
        BY <1>4, <3>2
      <4>2. a <= nxt \/ (tcp # "open" /\ a <= nxt + 1)
        BY <1>1 DEF SndNxt
      <4>3. \A j \in 1 .. i : acks'[j].ack <= a
        BY <1>1, <1>3, <1>4, <1>5, <3>2
      <4>4. acks'[i].ack = a /\ acks'[i].time = clock + 1 /\ clock + 1 <= clock'
        BY <1>1, <1>2, <1>5, <4>1
      <4> QED
        BY <4>2, <4>3, <4>4
    <3> QED
      BY <1>3, <3>1, <3>2
  <2>2. ackNo' <= Len(acks')
    BY <1>1, <1>3, <1>4, <1>7
  <2> QED
    BY <1>1, <1>4, <2>1, <2>2 DEF AcksInOrder
<1>11. SentBeforeAck'
  <2>1. \A x \in base .. nxt - 1 : \E k \in Keys : Covers(k, x)
    BY <1>6 DEF PartitionInv, Frontier
  <2>2. ASSUME NEW i \in 1 .. n + 1, NEW k \in Keys, (HasBytes(k) /\ k < acks'[i].ack) \/ k < base
        PROVE  getSendTime(ranges[k]) <= acks'[i].time
    <3>1. CASE i \in 1 .. n
      BY <1>4, <2>2, <3>1 DEF AckInv, SentBeforeAck, n
    <3>2. CASE i = n + 1
      <4>1. acks'[i].time = clock + 1 /\ getSendTime(ranges[k]) <= clock
        BY <1>4, <1>5, <3>2 DEF AckInv, EverySent
      <4> QED
        BY <1>2, <1>6, <4>1
    <3> QED
      BY <1>3, <3>1, <3>2
  <2> QED
    BY <1>1, <1>4, <1>6, <2>1, <2>2 DEF SentBeforeAck, HasBytes, Covers
<1>12. AckedByFirst'
  BY <1>1, <1>6, <1>7 DEF AckedByFirst
<1>13. \A i \in 1 .. ackNo' : Settled(i)'
  BY <1>1, <1>7
<1>14. AckLoop'
  BY <1>1 DEF AckLoop
<1> QED
  BY <1>8, <1>9, <1>10, <1>11, <1>12, <1>13, <1>14 DEF AckInv

\* The next pass begins.
LEMMA PassKeepsAcks ==
    ASSUME TypeOK, AckInv, StartAcks \/ StartRecv
    PROVE  AckInv'
<1>1. /\ UNCHANGED <<ranges, highestAcked, op, frame, seg, ack, clock, base, nxt, tcp, acks, ackNo>>
      /\ op = "idle" /\ Keys # {}
      /\ \/ phase = "sent" /\ phase' = "acks"
         \/ phase = "acks" /\ phase' = "recv"
  BY DEF StartAcks, StartRecv, rmVars, AckInv, PassesInOrder
<1>2. clock \in Nat /\ nxt \in Nat /\ op \notin Failures
  BY <1>1 DEF TypeOK, Failures
<1>3. /\ Keys' = Keys
      /\ AcksInOrder' /\ SentBeforeAck' /\ AckedByFirst'
      /\ \A i \in 1 .. ackNo' : Settled(i)'
  BY <1>1, <1>2, SameMapSameAcks
<1>4. EverySent' /\ PassesInOrder'
  BY <1>1, <1>3 DEF AckInv, EverySent, PassesInOrder
<1>5. AckLoop'
  BY <1>1 DEF AckInv, PassesInOrder, AckLoop
<1> QED
  BY <1>3, <1>4, <1>5 DEF AckInv

\* A segment of the receiver's trace is read.
LEMMA RecvKeepsAcks ==
    ASSUME TypeOK, AckInv, NEW s \in Nat, NEW e \in Nat, NEW flag, NEW ts,
           processRecvd(s, e, flag, ts)
    PROVE  AckInv'
<1> DEFINE g == [seq |-> s, endSeq |-> e, flag |-> flag, retrans |-> FALSE,
                 is_rdb |-> FALSE, rdb_end_seq |-> 0,
                 time |-> clock + 1, tstamp_tcp |-> ts]
<1>1. g.time = clock + 1
  OBVIOUS
<1>2. /\ Call(g, "INSERT_RECV") /\ phase = "recv" /\ clock' = clock + 1
      /\ UNCHANGED <<ranges, highestAcked, ack, phase, base, nxt, tcp, acks, ackNo>>
  BY DEF processRecvd, insertReceivedRange
<1> HIDE DEF g
<1>3. op = "idle" /\ op' = "insert" /\ seg'.time = clock + 1
  BY <1>1, <1>2 DEF Call
<1>4. /\ clock \in Nat /\ clock' \in Nat /\ clock <= clock' /\ nxt \in Nat
      /\ op \notin Failures /\ op' \notin Failures
  BY <1>2, <1>3 DEF TypeOK, Failures
<1>5. /\ Keys' = Keys
      /\ \A k \in Keys : ranges[k].sent_tstamp_pcap # <<>> /\ getSendTime(ranges[k]) <= clock'
      /\ AcksInOrder' /\ SentBeforeAck' /\ AckedByFirst'
      /\ \A i \in 1 .. ackNo' : Settled(i)'
  BY <1>2, <1>3, <1>4, SameMapSameAcks
<1>6. EverySent'
  BY <1>2, <1>3, <1>4, <1>5 DEF EverySent
<1>7. PassesInOrder'
  BY <1>2, <1>3, <1>5 DEF AckInv, PassesInOrder
<1>8. AckLoop'
  BY <1>2 DEF AckLoop
<1> QED
  BY <1>5, <1>6, <1>7, <1>8 DEF AckInv

\* processAck is called for the next ack.
LEMMA CallAckKeepsAcks ==
    ASSUME TypeOK, PartitionInv, AckInv, processAcks
    PROVE  AckInv'
<1> DEFINE n == ackNo + 1
           a == acks[n].ack
<1>1. PICK first \in Keys : CallAck(acks[n].ack, acks[n].time, acks[n].echo, first)
  BY DEF processAcks
<1> DEFINE it == IF highestAcked = NoKey THEN first ELSE highestAcked
<1>2. /\ phase = "acks" /\ ackNo < Len(acks) /\ ackNo' = n
      /\ UNCHANGED <<phase, clock, base, nxt, tcp, acks, ranges, highestAcked, frame, seg>>
      /\ op = "idle" /\ IsFirst(first)
      /\ IF a < it THEN UNCHANGED <<op, ack>>
         ELSE op' = "ack" /\ ack' = [ack |-> a, time |-> acks[n].time, echo |-> acks[n].echo, it |-> it]
  BY <1>1 DEF processAcks, CallAck
<1>3. /\ Len(acks) \in Nat /\ ackNo \in Nat /\ n \in 1 .. Len(acks) /\ a \in Nat
      /\ \A i \in 1 .. Len(acks) : acks[i].ack \in Nat
  BY <1>2, AckTypes
<1>4. /\ Keys' = Keys /\ op \notin Failures /\ op' \notin Failures /\ op' # "insert"
      /\ \A k \in Keys : k \in Nat /\ ranges[k].endSeq \in Nat
  BY <1>2 DEF TypeOK, rmTypeOK, Keys, ByteRanges, Failures
<1>5. it \in Keys /\ it \in Nat
  BY <1>4 DEF TypeOK, rmTypeOK, Keys
<1>6. \A i \in 1 .. ackNo : Settled(i) /\ acks[i].ack <= a
  BY <1>2, <1>3 DEF AckInv, AcksInOrder
<1>7. \A k \in Keys : HasBytes(k) /\ ranges[k].acked => ranges[k].endSeq <= a
  BY <1>3, <1>4, <1>6 DEF AckInv, AckedByFirst
<1>8. \A k \in Keys : HasBytes(k) /\ k < it => ranges[k].acked /\ ranges[k].endSeq <= a
  <2>1. \A k \in Keys : HasBytes(k) /\ k < it => ranges[k].acked
    BY <1>2, <1>4, <1>5 DEF IsFirst, AckInv, AckLoop
  <2> QED
    BY <1>7, <2>1
<1>9. EverySent'
  BY <1>2, <1>4 DEF AckInv, EverySent
<1>10. PassesInOrder'
  BY <1>2, <1>4 DEF AckInv, PassesInOrder
<1>11. AcksInOrder'
  <2>1. op' = "ack" => ackNo' >= 1 /\ ack'.ack = acks[n].ack /\ ack'.time = acks[n].time
    BY <1>2, <1>3
  <2>2. ackNo' <= Len(acks)
    BY <1>2, <1>3
  <2> HIDE DEF n, it
  <2> QED
    BY <1>2, <2>1, <2>2 DEF AckInv, AcksInOrder
<1>12. SentBeforeAck'
  BY <1>2, <1>4 DEF AckInv, SentBeforeAck, HasBytes, Covers
<1>13. \A i \in 1 .. ackNo' : Settled(i)' \/ (op' = "ack" /\ i = ackNo')
  <2>1. ASSUME NEW i \in 1 .. ackNo PROVE Settled(i)'
    BY <1>2, <1>4, <1>6 DEF Settled, HasBytes
  <2>2. CASE a < it
    <3>1. ASSUME NEW k \in Keys, HasBytes(k)
          PROVE  k >= acks[n].ack \/ (ranges[k].endSeq <= acks[n].ack /\ ranges[k].acked)
      BY <1>3, <1>4, <1>5, <1>8, <2>2, <3>1
    <3>2. ASSUME NEW i, i = n PROVE Settled(i)'
      BY <1>2, <1>4, <3>1, <3>2 DEF Settled, HasBytes
    <3> QED
      BY <1>2, <1>3, <2>1, <3>2
  <2>3. CASE ~(a < it)
    <3>1. op' = "ack"
      BY <1>2, <2>3
    <3>2. \A i \in 1 .. ackNo' : i \in 1 .. ackNo \/ i = ackNo'
      BY <1>2, <1>3
    <3> QED
      BY <2>1, <3>1, <3>2
  <2> QED
    BY <2>2, <2>3
<1>14. AckedByFirst'
  <2> SUFFICES ASSUME NEW k \in Keys, HasBytes(k), ranges[k].acked
               PROVE  \E i \in 1 .. ackNo' :
                         /\ ranges[k].endSeq <= acks[i].ack
                         /\ ranges[k].ackTime = acks[i].time
                         /\ \A j \in 1 .. i - 1 : acks[j].ack < ranges[k].endSeq
    BY <1>2, <1>4 DEF AckedByFirst, HasBytes
  <2>1. 1 .. ackNo \subseteq 1 .. ackNo'
    BY <1>2, <1>3
  <2> QED
    BY <2>1 DEF AckInv, AckedByFirst
<1>15. AckLoop'
  <2>1. highestAcked # NoKey =>
          /\ \A k \in Keys : HasBytes(k) /\ k < highestAcked => ranges[k].acked
          /\ HasBytes(highestAcked) =>
               \/ ranges[highestAcked].acked
               \/ \E p \in Keys : HasBytes(p) /\ ranges[p].endSeq = highestAcked
    BY <1>2 DEF AckInv, AckLoop
  <2>2. ASSUME op' = "ack"
        PROVE  /\ ack'.it = it /\ ack'.ack = a /\ it <= a
               /\ it = a /\ HasBytes(it) =>
                    IsFirst(it) \/ \E p \in Keys : HasBytes(p) /\ ranges[p].endSeq = it
    <3>1. ~(a < it)
      BY <1>2, <2>2
    <3>2. ack'.it = it /\ ack'.ack = a
      BY <1>2, <3>1
    <3>3. it = a /\ HasBytes(it) => ~ranges[it].acked
      BY <1>3, <1>4, <1>5, <1>7 DEF HasBytes
    <3>4. it = a /\ HasBytes(it) => IsFirst(it) \/ \E p \in Keys : HasBytes(p) /\ ranges[p].endSeq = it
      BY <1>2, <2>1, <3>3
    <3> QED
      BY <1>3, <1>5, <3>1, <3>2, <3>4
  <2> HIDE DEF a, it, n
  <2> QED
    BY <1>2, <1>4, <1>8, <2>1, <2>2 DEF AckLoop, HasBytes, IsFirst
<1> QED
  BY <1>9, <1>10, <1>11, <1>12, <1>13, <1>14, <1>15 DEF AckInv

\* Nothing happens.
LEMMA StutterKeepsAcks ==
    ASSUME AckInv, UNCHANGED vars
    PROVE  AckInv'
<1>1. UNCHANGED <<ranges, highestAcked, op, frame, seg, ack, phase, clock, base, nxt, tcp, acks, ackNo>>
  BY DEF vars, rmVars, envVars
<1>2. Keys' = Keys /\ ZeroLength' = ZeroLength
  BY <1>1 DEF Keys, ZeroLength
<1>3. EverySent' /\ PassesInOrder' /\ AcksInOrder'
  BY <1>1, <1>2 DEF AckInv, EverySent, PassesInOrder, AcksInOrder
<1>4. SentBeforeAck' /\ AckedByFirst'
  BY <1>1, <1>2 DEF AckInv, SentBeforeAck, AckedByFirst, HasBytes, Covers
<1>5. \A i \in 1 .. ackNo' : Settled(i)' \/ (op' = "ack" /\ i = ackNo')
  BY <1>1, <1>2 DEF AckInv, Settled, HasBytes
<1>6. AckLoop'
  BY <1>1, <1>2 DEF AckInv, AckLoop, HasBytes, IsFirst
<1> QED
  BY <1>3, <1>4, <1>5, <1>6 DEF AckInv

\* A turn of processAck's loop keeps the times of every byte.
LEMMA MarksKeepTimes ==
    ASSUME Typed, Typed', Disjoint, Marks
    PROVE  TimesKept
<1> SUFFICES ASSUME NEW k \in Keys, NEW x \in Nat, Covers(k, x)
             PROVE  \E j \in Keys' : Covers(j, x)' /\ AckPart(j, k)
  BY DEF TimesKept, AckPart
<1>1. PICK j \in Keys' : Covers(j, x)'
  BY DEF Marks, Holds
<1>2. PICK h \in Keys : AckPart(j, h)
  BY DEF Marks
<1>3. /\ j <= x /\ x < ranges'[j].endSeq /\ k <= x /\ x < ranges[k].endSeq
      /\ j \in Nat /\ k \in Nat /\ h \in Nat
      /\ ranges'[j].endSeq \in Nat /\ ranges[k].endSeq \in Nat /\ ranges[h].endSeq \in Nat
  BY <1>1 DEF Covers, Typed
<1>4. h <= x /\ x < ranges[h].endSeq
  BY <1>2, <1>3 DEF AckPart
<1>5. h = k
  BY <1>3, <1>4 DEF Disjoint
<1> QED
  BY <1>1, <1>2, <1>5

\* A step that leaves the map alone keeps the times of every byte.
LEMMA SameMapKeepsTimes ==
    ASSUME UNCHANGED ranges
    PROVE  TimesKept
BY DEF TimesKept, Keys, Covers

-----------------------------------------------------------------------------
(* The theorems. *)

\* It holds before the first packet.
LEMMA InitAcks == Init => AckInv
<1> SUFFICES ASSUME Init PROVE AckInv
  OBVIOUS
<1>1. /\ Keys = {} /\ op = "idle" /\ phase = "sent" /\ acks = <<>> /\ ackNo = 0
      /\ highestAcked = NoKey
  BY DEF Init, rmInit, Keys
<1>2. Len(acks) = 0
  BY <1>1
<1>3. EverySent /\ PassesInOrder /\ AcksInOrder /\ SentBeforeAck /\ AckedByFirst /\ AckLoop
  BY <1>1, <1>2 DEF EverySent, PassesInOrder, AcksInOrder, SentBeforeAck, AckedByFirst, AckLoop
<1> QED
  BY <1>1, <1>3 DEF AckInv

\* Every step keeps it, and the times of every byte.
LEMMA NextAcks ==
    ASSUME InOrderCapture, CountersInv, PartitionInv, AckInv, [Next]_vars, CountersInv'
    PROVE  AckInv' /\ TimesKept
<1>1. Typed /\ Typed' /\ TypeOK /\ TypeOK' /\ StepInv /\ Disjoint
  <2>1. TypeOK /\ TypeOK'
    BY DEF CountersInv
  <2>2. Typed /\ Typed'
    BY <2>1, TypedFrom, TypedNext
  <2> QED
    BY <2>1, <2>2 DEF StepInv, PartitionInv
<1>2. CompleteCapture /\ ~AllowReorder
  BY DEF InOrderCapture
<1>3. CASE UNCHANGED vars
  <2>1. UNCHANGED ranges
    BY <1>3 DEF vars, rmVars
  <2> QED
    BY <1>3, <2>1, StutterKeepsAcks, SameMapKeepsTimes
<1>4. CASE RangeManagerStep
  <2>1. Fixed
    BY <1>4 DEF RangeManagerStep, Fixed
  <2>2. CASE insertByteRange
    BY <1>1, <2>1, <2>2, InsertStepKeepsAcks
  <2>3. CASE processAck
    BY <1>1, <2>1, <2>3, AckStepKeepsAcks, MarksKeepTimes
  <2> QED
    BY <1>4, <2>2, <2>3 DEF RangeManagerStep
<1>5. CASE SendStep
  <2>1. Sends
    BY <1>2, <1>5, SendStepSends
  <2>2. UNCHANGED ranges
    BY <2>1 DEF Sends
  <2> QED
    BY <1>1, <2>1, <2>2, SendsKeepsAcks, SameMapKeepsTimes
<1>6. ASSUME NEW n \in 1 .. MaxPayload, DropNew(n) PROVE FALSE
  BY <1>2, <1>6 DEF DropNew, CompleteCapture
<1>7. ASSUME NEW a \in 0 .. MaxSeq + 2, NEW echo \in BOOLEAN, AckArrives(a, echo)
      PROVE  AckInv' /\ TimesKept
  <2>1. a \in Nat /\ UNCHANGED ranges
    BY <1>7, BoundsAssumption DEF AckArrives, rmVars
  <2> QED
    BY <1>1, <1>2, <1>7, <2>1, AckArrivesKeepsAcks, SameMapKeepsTimes
<1>8. ASSUME NEW s \in 0 .. MaxSeq + 1, NEW n \in 0 .. MaxPayload,
             NEW flag \in {"none", "syn", "fin"},
             NEW ts \in {0} \cup {p.ts : p \in wire \cup arrived}, processRecvd(s, s + n, flag, ts)
      PROVE  AckInv' /\ TimesKept
  <2>1. s \in Nat /\ s + n \in Nat
    BY BoundsAssumption
  <2>2. UNCHANGED ranges
    BY <1>8 DEF processRecvd
  <2> QED
    BY <1>1, <1>8, <2>1, <2>2, RecvKeepsAcks, SameMapKeepsTimes
<1>9. CASE StartAcks \/ StartRecv
  <2>1. UNCHANGED ranges
    BY <1>9 DEF StartAcks, StartRecv, rmVars
  <2> QED
    BY <1>1, <1>9, <2>1, PassKeepsAcks, SameMapKeepsTimes
<1>10. CASE processAcks
  <2>1. UNCHANGED ranges
    BY <1>10 DEF processAcks, CallAck
  <2> QED
    BY <1>1, <1>10, <2>1, CallAckKeepsAcks, SameMapKeepsTimes
<1> QED
  BY <1>3, <1>4, <1>5, <1>6, <1>7, <1>8, <1>9, <1>10, NextCases

\* The invariants of the state and of the map, and the one of the acks.
InOrderInv == CountersInv /\ PartitionInv /\ AckInv

\* Together they are inductive.
LEMMA NextInOrder ==
    ASSUME InOrderCapture, InOrderInv, [Next]_vars
    PROVE  InOrderInv' /\ TimesKept
<1>1. CountersInv'
  BY NextCounters DEF InOrderInv
<1>2. PartitionInv'
  BY <1>1, NextPartition DEF InOrderInv, InOrderCapture
<1>3. AckInv' /\ TimesKept
  BY <1>1, NextAcks DEF InOrderInv
<1> QED
  BY <1>1, <1>2, <1>3 DEF InOrderInv

\* They hold of a capture that misses nothing, with the acks in order.
LEMMA InOrderHolds ==
    ASSUME InOrderCapture
    PROVE  Spec => []InOrderInv
<1>1. Init => InOrderInv
  BY InitCounters, InitPartition, InitAcks DEF InOrderInv
<1>2. InOrderInv /\ [Next]_vars => InOrderInv'
  BY NextInOrder
<1> QED
  BY <1>1, <1>2, PTL DEF Spec

\* The inductive invariant of processAck: acks settle the ranges in front of
\* them, the walk that starts at highestAckedByteRangeIt leaves none out, and what
\* an ack covers was sent and registered before the ack was captured.
THEOREM AcksHold ==
    ASSUME InOrderCapture
    PROVE  Spec => []AckInv
<1>1. InOrderInv => AckInv
  BY DEF InOrderInv
<1> QED
  BY <1>1, InOrderHolds, PTL

\* "Register first ack time for all bytes": for a capture that misses nothing,
\* with the acks in order, a range holds the time of the first ack that covers
\* it, and none if no ack does.
THEOREM FirstAckAlwaysRegistered ==
    ASSUME InOrderCapture
    PROVE  Spec => []FirstAckTime
<1>1. InOrderInv => FirstAckTime
  <2> SUFFICES ASSUME InOrderInv, op = "idle", NEW k \in Keys, byte_count(k) # 0
               PROVE  LET covering == {i \in 1 .. ackNo : acks[i].ack >= ranges[k].endSeq}
                      IN IF covering = {} THEN ~ranges[k].acked
                         ELSE /\ ranges[k].acked
                              /\ \E i \in covering : /\ \A j \in covering : i <= j
                                                     /\ ranges[k].ackTime = acks[i].time
    BY DEF FirstAckTime
  <2> DEFINE covering == {i \in 1 .. ackNo : acks[i].ack >= ranges[k].endSeq}
  <2>1. TypeOK /\ PartitionInv /\ AckInv
    BY DEF InOrderInv, CountersInv
  <2>2. k \in Nat /\ ranges[k].endSeq \in Nat /\ ranges[k].acked \in BOOLEAN
    BY <2>1 DEF TypeOK, rmTypeOK, Keys, ByteRanges
  <2>3. HasBytes(k)
    <3>1. k <= ranges[k].endSeq
      BY <2>1 DEF PartitionInv, RangesInStream
    <3> QED
      BY <2>2, <3>1 DEF HasBytes, byte_count
  <2>4. /\ ackNo \in Nat /\ \A i \in 1 .. ackNo : acks[i].ack \in Nat /\ Settled(i)
    BY <2>1, AckTypes DEF AckInv, AcksInOrder
  <2>5. covering # {} => ranges[k].acked
    <3> SUFFICES ASSUME NEW i \in covering PROVE ranges[k].acked
      OBVIOUS
    <3>1. Settled(i) /\ acks[i].ack >= ranges[k].endSeq /\ acks[i].ack \in Nat
      BY <2>4
    <3> QED
      BY <2>2, <2>3, <3>1 DEF Settled, HasBytes
  <2>6. ASSUME ranges[k].acked
        PROVE  \E i \in covering : (\A j \in covering : i <= j) /\ ranges[k].ackTime = acks[i].time
    <3>1. PICK i \in 1 .. ackNo :
            /\ ranges[k].endSeq <= acks[i].ack
            /\ ranges[k].ackTime = acks[i].time
            /\ \A j \in 1 .. i - 1 : acks[j].ack < ranges[k].endSeq
      BY <2>1, <2>3, <2>6 DEF AckInv, AckedByFirst
    <3>2. i \in covering
      BY <2>2, <2>4, <3>1
    <3>3. ASSUME NEW j \in covering PROVE i <= j
      <4>1. j \in 1 .. ackNo /\ acks[j].ack >= ranges[k].endSeq /\ acks[j].ack \in Nat
        BY <2>4
      <4>2. j \notin 1 .. i - 1
        BY <2>2, <3>1, <4>1
      <4> QED
        BY <2>4, <4>1, <4>2
    <3> QED
      BY <3>1, <3>2, <3>3
  <2> QED
    BY <2>5, <2>6
<1> QED
  BY <1>1, InOrderHolds, PTL

\* For such a capture, the time of a byte's first transmission and the time of
\* its acknowledgement never change again, however often the range that holds it
\* is split: the latencies computed from them do not depend on the splits.
THEOREM HistoryAlwaysStable ==
    ASSUME InOrderCapture
    PROVE  Spec => HistoryStable
<1>1. InOrderInv /\ [Next]_vars =>
        [\A k \in Keys, x \in 0 .. MaxSeq : Covers(k, x) =>
           \E j \in Keys' :
              /\ j <= x /\ x < ranges'[j].endSeq
              /\ getSendTime(ranges'[j]) = getSendTime(ranges[k])
              /\ ranges[k].acked =>
                   ranges'[j].acked /\ ranges'[j].ackTime = ranges[k].ackTime]_vars
  <2> SUFFICES ASSUME InOrderInv, [Next]_vars, NEW k \in Keys, NEW x \in 0 .. MaxSeq, Covers(k, x)
               PROVE  \E j \in Keys' :
                        /\ j <= x /\ x < ranges'[j].endSeq
                        /\ getSendTime(ranges'[j]) = getSendTime(ranges[k])
                        /\ ranges[k].acked =>
                             ranges'[j].acked /\ ranges'[j].ackTime = ranges[k].ackTime
    OBVIOUS
  <2>1. TimesKept /\ x \in Nat
    BY NextInOrder, BoundsAssumption
  <2> QED
    BY <2>1 DEF TimesKept, Covers
<1> QED
  BY <1>1, InOrderHolds, PTL DEF Spec, HistoryStable


-----------------------------------------------------------------------------
(* No call fails, and the map implements ByteLedger. *)

\* What CallInv says of one range.
SoundRange(k) ==
    /\ ranges[k].data_received_count # 0 => ranges[k].received_tstamp_tcp # 0
    /\ HasBytes(k) => base <= k
    /\ ~HasBytes(k) /\ base <= k /\ (tcp = "open" \/ k < nxt) => ranges[k].data_sent_count = 0
    /\ phase = "sent" => ranges[k].data_received_count = 0

\* CallInv, with its parts about the ranges, the call and the network apart.
LEMMA CallParts ==
    CallInv <=>
      /\ op \notin Failures
      /\ CallProgress
      /\ \A k \in Keys : SoundRange(k)
      /\ \A p \in wire : p.ts # 0
      /\ \A p \in arrived : p.seq < nxt => p.ts # 0
      /\ phase # "recv" => arrived = {}
      /\ op = "insert" =>
           /\ ~SENT /\ (~ZeroLength \/ seg.flag # "none") => seg.tstamp_tcp # 0
           /\ ZeroLength /\ tcp = "open" => seg.flag = "none" \/ (base = 1 /\ frame.start = 0)
BY DEF CallInv, Timestamped, EmptyUncounted, SoundRange

-----------------------------------------------------------------------------
(* Steps of the range manager. *)

\* A step of the range manager keeps CallInv if it does not fail, gets on with
\* the segment, and leaves every range sound.
LEMMA StepKeepsCalls ==
    ASSUME CallInv, Fixed, UNCHANGED firstSeq, Keys' = {} => lastSeq' = 0,
           \A j \in Keys' : SoundRange(j)',
           \/ op' \in {"idle", "ack"}
           \/ /\ op = "insert" /\ ~ZeroLength /\ op' = "insert" /\ ~ZeroLength' /\ UNCHANGED seg
              /\ frame'.level <= frame'.start - seg.seq /\ frame'.itype = frame.itype
    PROVE  CallInv'
<1>1. UNCHANGED <<phase, base, nxt, tcp, wire, arrived>>
  BY DEF Fixed, envVars
<1>2. op' \notin Failures
  BY DEF Failures
<1>3. CallProgress'
  BY <1>1 DEF CallInv, CallProgress
<1>4. /\ \A p \in wire' : p.ts # 0
      /\ \A p \in arrived' : p.seq < nxt' => p.ts # 0
      /\ phase' # "recv" => arrived' = {}
  BY <1>1, CallParts
<1>5. op' = "insert" =>
        /\ ~SENT' /\ (~ZeroLength' \/ seg'.flag # "none") => seg'.tstamp_tcp # 0
        /\ ZeroLength' /\ tcp' = "open" => seg'.flag = "none" \/ (base' = 1 /\ frame'.start = 0)
  BY CallParts DEF SENT
<1>6. Timestamped'
  BY <1>4, <1>5 DEF Timestamped, SoundRange
<1>7. EmptyUncounted'
  BY <1>5 DEF EmptyUncounted, SoundRange
<1> QED
  BY <1>2, <1>3, <1>6, <1>7 DEF CallInv

\* A range that passes its counts on, or adds the segment in hand to them, is
\* sound, if it does not add a byte to an empty range.
LEMMA CountsSound ==
    ASSUME TypeOK, Typed', StepInv, Fixed, NEW k \in Keys, SoundRange(k), NEW j \in Keys',
           NEW c \in BOOLEAN, Counts(ranges'[j], ranges[k], c),
           j = k \/ (k < j /\ HasBytes(k)),
           HasBytes(k) <=> j < ranges'[j].endSeq,
           c => /\ op = "insert"
                /\ ~SENT => seg.tstamp_tcp # 0
                /\ ~HasBytes(k) /\ base <= k => ~(tcp = "open" \/ k < nxt)
    PROVE  SoundRange(j)'
<1>1. /\ UNCHANGED <<phase, base, nxt, tcp>> /\ j \in Nat /\ k \in Nat /\ base \in Nat
      /\ HasBytes(j)' <=> HasBytes(k)
  BY DEF Fixed, envVars, StepInv, Typed, HasBytes
<1>2. base <= k => base <= j
  BY <1>1
<1>3. ~HasBytes(k) => j = k
  OBVIOUS
<1>4. c => (SENT <=> phase = "sent")
  BY DEF StepInv, CallInStream
<1>5. ranges'[j].data_received_count # 0 => ranges'[j].received_tstamp_tcp # 0
  BY <1>4 DEF SoundRange, Counts, Add
<1>6. phase = "sent" => ranges'[j].data_received_count = 0
  BY <1>4 DEF SoundRange, Counts, Add
<1>7. ~HasBytes(k) /\ base <= k /\ (tcp = "open" \/ k < nxt) => ranges'[j].data_sent_count = 0
  <2> SUFFICES ASSUME ~HasBytes(k), base <= k, tcp = "open" \/ k < nxt
               PROVE  ranges'[j].data_sent_count = 0
    OBVIOUS
  <2>1. ~c
    OBVIOUS
  <2> QED
    BY <2>1 DEF SoundRange, Counts, Add
<1> QED
  BY <1>1, <1>2, <1>3, <1>5, <1>6, <1>7 DEF SoundRange

\* Registering bytes of a segment keeps CallInv.
LEMMA RegistersKeepsCalls ==
    ASSUME TypeOK, Typed', StepInv, CallInv, Fixed, UNCHANGED firstSeq,
           NEW upTo \in Nat, Registers(upTo),
           Return \/ (upTo < frame.end /\ Recurse(upTo))
    PROVE  CallInv'
<1>1. /\ op = "insert" /\ ~ZeroLength /\ frame.start < upTo /\ upTo <= frame.end
      /\ frame.start \in Keys' /\ ranges'[frame.start].endSeq = upTo
      /\ \A j \in Keys' : \E k \in Keys :
           PartOf(j, k) /\ Counts(ranges'[j], ranges[k], j = frame.start)
  BY DEF Registers
<1>2. ~SENT => seg.tstamp_tcp # 0
  BY <1>1, CallParts
<1>3. ASSUME NEW j \in Keys' PROVE SoundRange(j)'
  <2>1. PICK k \in Keys : PartOf(j, k) /\ Counts(ranges'[j], ranges[k], j = frame.start)
    BY <1>1
  <2>2. /\ SoundRange(k) /\ k \in Nat /\ ranges[k].endSeq \in Nat /\ j \in Nat
        /\ (j = frame.start) \in BOOLEAN
    BY CallParts DEF StepInv, Typed
  <2>3. /\ j = k \/ (k < j /\ HasBytes(k))
        /\ HasBytes(k) <=> j < ranges'[j].endSeq
    BY <2>1, <2>2 DEF PartOf, HasBytes
  <2>4. j = frame.start => HasBytes(k)
    BY <1>1, <2>3
  <2>5. ASSUME NEW c \in BOOLEAN, c = (j = frame.start) PROVE SoundRange(j)'
    <3>1. Counts(ranges'[j], ranges[k], c)
      BY <2>1, <2>5
    <3> QED
      BY <1>1, <1>2, <2>2, <2>3, <2>4, <2>5, <3>1, CountsSound
  <2> QED
    BY <2>2, <2>5
<1>4. \/ op' = "idle"
      \/ /\ op' = "insert" /\ ~ZeroLength' /\ UNCHANGED seg
         /\ frame'.level <= frame'.start - seg.seq /\ frame'.itype = frame.itype
  <2>1. CASE Return
    BY <2>1 DEF Return
  <2>2. CASE upTo < frame.end /\ Recurse(upTo)
    <3>1. frame \in Frames /\ seg.seq \in Nat /\ frame.start \in Nat /\ frame.end \in Nat
      BY DEF TypeOK, rmTypeOK, StepInv, Typed
    <3>2. frame.level \in Nat /\ frame.level <= frame.start - seg.seq
      BY <1>1, <3>1 DEF CallInv, CallProgress, Frames
    <3>3. /\ frame'.start = upTo /\ frame'.level = frame.level + 1
          /\ frame'.end = frame.end /\ frame'.itype = frame.itype
      BY <2>2, <3>1 DEF Recurse, Frames
    <3>4. frame'.level <= frame'.start - seg.seq /\ ~ZeroLength'
      BY <1>1, <2>2, <3>1, <3>2, <3>3 DEF ZeroLength
    <3> QED
      BY <1>1, <2>2, <3>3, <3>4 DEF Recurse
  <2> QED
    BY <2>1, <2>2
<1> QED
  BY <1>1, <1>3, <1>4, StepKeepsCalls

\* Opening a range keeps CallInv.
LEMMA OpensKeepsCalls ==
    ASSUME TypeOK, Typed', StepInv, CallInv, Opens, Fixed, UNCHANGED firstSeq
    PROVE  CallInv'
<1> DEFINE a == frame.start
           r == ranges'[a]
<1>1. /\ op = "insert" /\ ~ZeroLength /\ SENT /\ Return /\ Keys' = Keys \cup {a}
      /\ \A k \in Keys : k # a => ranges'[k] = ranges[k]
      /\ r.endSeq = frame.end
      /\ r.data_received_count = 0 \/ (a \in Keys /\ r.data_received_count = ranges[a].data_received_count)
  BY DEF Opens
<1>2. /\ phase = "sent" /\ base <= a /\ a < frame.end /\ base \in Nat /\ a \in Nat
  BY <1>1 DEF StepInv, CallInStream, Typed
<1>3. UNCHANGED <<phase, base, nxt, tcp>>
  BY DEF Fixed, envVars
<1>4. r.data_received_count = 0
  BY <1>1, <1>2, CallParts DEF SoundRange
<1>5. ASSUME NEW j \in Keys' PROVE SoundRange(j)'
  <2>1. CASE j = a
    BY <1>1, <1>2, <1>3, <1>4, <2>1 DEF SoundRange, HasBytes
  <2>2. CASE j # a
    <3>1. j \in Keys /\ ranges'[j] = ranges[j] /\ SoundRange(j)
      BY <1>1, <2>2, CallParts
    <3> QED
      BY <1>3, <3>1 DEF SoundRange, HasBytes
  <2> QED
    BY <2>1, <2>2
<1>6. op' = "idle" /\ Keys' # {}
  BY <1>1 DEF Return
<1> QED
  BY <1>5, <1>6, StepKeepsCalls

\* A SYN, FIN or RST is never counted on an empty range that may be filled.
LEMMA FlagsUncounted ==
    ASSUME TypeOK, StepInv, CallInv, op = "insert", ZeroLength, seg.flag # "none",
           base <= frame.start
    PROVE  ~(tcp = "open" \/ frame.start < nxt)
<1>1. base \in Nat /\ nxt \in Nat /\ frame.start \in Nat /\ seg.seq = frame.start
  BY DEF StepInv, Typed, CallInStream
<1>2. tcp # "open"
  BY <1>1, CallParts
<1>3. frame.start = nxt \/ frame.start = nxt + 1
  BY <1>1 DEF StepInv, CallInStream
<1> QED
  BY <1>1, <1>2, <1>3

\* A segment without payload keeps CallInv.
LEMMA EmptyKeepsCalls ==
    ASSUME TypeOK, Typed', StepInv, EverySent, CallInv, Fixed, UNCHANGED firstSeq,
           InsertZeroLength \/ UpdateZeroLength
    PROVE  CallInv'
<1>1. UNCHANGED <<phase, base, nxt, tcp>>
  BY DEF Fixed, envVars
<1>2. CASE InsertZeroLength
  <2> DEFINE z == frame.start
             r == ranges'[z]
  <2>1. /\ op = "insert" /\ ZeroLength /\ Return /\ z \notin Keys /\ Keys' = Keys \cup {z}
        /\ \A k \in Keys : ranges'[k] = ranges[k]
        /\ r.endSeq = z
        /\ r.data_sent_count = Add(0, seg.flag # "none")
        /\ r.data_received_count = 0
    BY <1>2, InsertZeroLengthHistory
  <2>2. base <= z /\ (tcp = "open" \/ z < nxt) => r.data_sent_count = 0
    BY <2>1, FlagsUncounted DEF Add
  <2>3. ASSUME NEW j \in Keys' PROVE SoundRange(j)'
    <3>1. CASE j = z
      <4>1. ~(z < r.endSeq)
        BY <2>1 DEF StepInv, Typed
      <4> QED
        BY <1>1, <2>1, <2>2, <3>1, <4>1 DEF SoundRange, HasBytes
    <3>2. CASE j # z
      <4>1. j \in Keys /\ ranges'[j] = ranges[j] /\ SoundRange(j)
        BY <2>1, <3>2, CallParts
      <4> QED
        BY <1>1, <4>1 DEF SoundRange, HasBytes
    <3> QED
      BY <3>1, <3>2
  <2>4. op' = "idle" /\ Keys' # {}
    BY <2>1 DEF Return
  <2> QED
    BY <2>3, <2>4, StepKeepsCalls
<1>3. CASE UpdateZeroLength
  <2> DEFINE z == start_seq
  <2>1. /\ op = "insert" /\ ZeroLength /\ Return /\ z \in Keys /\ Keys' = Keys
        /\ \A k \in Keys : k # z => ranges'[k] = ranges[k]
        /\ ranges'[z].endSeq = ranges[z].endSeq
        /\ Counts(ranges'[z], ranges[z], seg.flag \in {"syn", "fin"})
    BY <1>3, UpdateZeroLengthHistory
  <2>2. ASSUME NEW j \in Keys' PROVE SoundRange(j)'
    <3>1. j \in Keys /\ SoundRange(j)
      BY <2>1, CallParts
    <3>2. CASE j # z
      BY <1>1, <2>1, <3>1, <3>2 DEF SoundRange, HasBytes
    <3>3. CASE j = z
      <4>1. ASSUME NEW c \in BOOLEAN, c = (seg.flag \in {"syn", "fin"}) PROVE SoundRange(j)'
        <5>1. Counts(ranges'[j], ranges[j], c) /\ (HasBytes(j) <=> j < ranges'[j].endSeq)
          BY <2>1, <3>3, <4>1 DEF HasBytes
        <5>2. c => seg.flag # "none" /\ j = frame.start
          BY <2>1, <3>3, <4>1 DEF start_seq
        <5>3. c /\ ~SENT => seg.tstamp_tcp # 0
          BY <2>1, <5>2, CallParts
        <5>4. c /\ ~HasBytes(j) /\ base <= j => ~(tcp = "open" \/ j < nxt)
          BY <2>1, <5>2, FlagsUncounted
        <5> QED
          BY <2>1, <3>1, <5>1, <5>3, <5>4, CountsSound
      <4>2. (seg.flag \in {"syn", "fin"}) \in BOOLEAN
        OBVIOUS
      <4> QED
        BY <4>1, <4>2
    <3> QED
      BY <3>2, <3>3
  <2>3. op' = "idle" /\ Keys' # {}
    BY <2>1 DEF Return
  <2> QED
    BY <2>2, <2>3, StepKeepsCalls
<1> QED
  BY <1>2, <1>3

-----------------------------------------------------------------------------
(* No failure. *)

\* The start of a segment is a byte that some range holds, or data sent for the
\* first time at the end of the stream.
LEMMA StartInStream ==
    ASSUME TypeOK, StepInv, op = "insert", ~ZeroLength
    PROVE  \/ \E k \in Keys : Covers(k, frame.start)
           \/ SENT /\ \A k \in Keys : k <= frame.start
<1>1. frame.start \in base .. nxt - 1 /\ op \notin Failures
  BY DEF StepInv, CallInStream, Typed, Failures
<1> QED
  BY <1>1 DEF StepInv, Frontier, Inserting

\* assert(it != begin): the search for the range that holds the start of a
\* segment does not run off the front of the map.
LEMMA SearchSucceeds ==
    ASSUME TypeOK, StepInv, CallInv, op = "insert", ~ZeroLength,
           frame.start < lastSeq, \A k \in Keys : k > frame.end
    PROVE  FALSE
<1>1. /\ Keys \subseteq Nat /\ frame.start \in Nat /\ frame.end \in Nat /\ lastSeq \in Nat
      /\ frame.start < frame.end
  BY DEF StepInv, Typed, CallInStream
<1>2. Keys # {}
  BY <1>1 DEF CallInv, CallProgress
<1>3. PICK k \in Keys : k <= frame.start
  BY <1>2, StartInStream DEF Covers
<1> QED
  BY <1>1, <1>3

\* Received data is never taken for data that was not sent.
LEMMA ReceivedIsFound ==
    ASSUME TypeOK, StepInv, InsertNew
    PROVE  SENT
<1>1. op = "insert" /\ ~ZeroLength /\ frame.start \notin Keys
  BY DEF InsertNew
<1>2. /\ Keys \subseteq Nat /\ frame.start \in Nat /\ lastSeq \in Nat
      /\ \A k \in Keys : ranges[k].endSeq \in Nat
  BY DEF StepInv, Typed
<1>3. ASSUME NEW k \in Keys, Covers(k, frame.start) PROVE FALSE
  <2>1. Host(k)
    BY <1>1, <1>3, CoverIsHost
  <2>2. frame.start < lastSeq
    BY <1>2, <1>3 DEF Covers, StepInv, LastSeqBound
  <2> QED
    BY <1>2, <2>1, <2>2 DEF InsertNew
<1> QED
  BY <1>1, <1>3, StartInStream

\* The asserts in the branch that finds the start of the segment in the map hold,
\* and the recursion is never too deep.
LEMMA CoverSucceeds ==
    ASSUME RegularTrace, TypeOK, StepInv, CallInv, op = "insert", ~ZeroLength
    PROVE  ~FailSynAck /\ frame.level <= RecursionLevel
<1>1. /\ base \in {0, 1} /\ nxt \in Nat /\ firstSeq \in Nat /\ frame \in Frames /\ MaxSeq \in Nat
      /\ MaxPayload \in Nat /\ RecursionLevel \in Nat
      /\ seg.seq \in Nat /\ seg.endSeq \in Nat
  BY BoundsAssumption, RecursionLevelAssumption DEF TypeOK, rmTypeOK, StepInv, Typed
<1>2. frame.level \in Nat /\ frame.start \in Nat /\ frame.end \in Nat
  BY <1>1 DEF Frames
<1>3. frame.end <= nxt /\ frame.start < frame.end /\ frame.end = seg.endSeq
  BY DEF StepInv, CallInStream
<1>4. /\ nxt <= base + MaxSeq /\ firstSeq > MaxSeq
      /\ frame.level <= frame.start - seg.seq /\ seg.endSeq - seg.seq <= MaxPayload
  BY DEF CallInv, CallProgress
<1>5. RecursionLevel >= MaxPayload
  BY DEF RegularTrace
<1>6. frame.end # firstSeq + 1
  BY <1>1, <1>2, <1>3, <1>4
<1> QED
  BY <1>1, <1>2, <1>3, <1>4, <1>5, <1>6 DEF FailSynAck, SynAckAssert

\* "assert(received_tstamp_tcp)": a range that counts a segment received has its
\* timestamp.
LEMMA TimestampSucceeds ==
    ASSUME TypeOK, StepInv, EverySent, CallInv, SpanRange, ~SENT
    PROVE  Credit(ranges[frame.start]).received_tstamp_tcp # 0
<1> DEFINE r == ranges[frame.start]
<1>1. frame.start \in Keys /\ op = "insert" /\ ~ZeroLength
  BY DEF SpanRange, StartFound
<1>2. r \in ByteRanges /\ r.sent_tstamp_pcap # <<>> /\ rmTypeOK
  BY <1>1 DEF TypeOK, rmTypeOK, Keys, EverySent
<1>3. Counts(Credit(r), r, TRUE)
  BY <1>2, CreditHistory
<1>4. seg.tstamp_tcp # 0 /\ SoundRange(frame.start)
  BY <1>1, CallParts
<1> QED
  BY <1>3, <1>4 DEF Counts, SoundRange

\* Every step of insertByteRange keeps CallInv: it registers the next bytes,
\* opens a range, or is about a segment without payload.
LEMMA InsertStepKeepsCalls ==
    ASSUME RegularTrace, TypeOK, Typed', StepInv, EverySent, CallInv, insertByteRange, Fixed
    PROVE  /\ CallInv'
           /\ \/ InsertZeroLength \/ UpdateZeroLength
              \/ Opens
              \/ \E upTo \in Nat :
                   Registers(upTo) /\ ((upTo = frame.end /\ Return) \/ (upTo < frame.end /\ Recurse(upTo)))
<1>1. UNCHANGED firstSeq
  BY DEF insertByteRange, InsertZeroLength, UpdateZeroLength, SplitHost, InsertNew,
         FailSynAck, FillEmpty, SpanRange, SplitTail, UpdateRange
<1>2. CASE InsertZeroLength \/ UpdateZeroLength
  BY <1>1, <1>2, EmptyKeepsCalls
<1>3. CASE SplitHost
  BY <1>1, <1>3, SplitHostRegisters, RegistersKeepsCalls
<1>4. CASE SpanRange \/ SplitTail \/ UpdateRange
  <2>1. PICK upTo \in Nat :
             /\ Registers(upTo)
             /\ \/ upTo = frame.end /\ Return
                \/ /\ upTo < frame.end
                   /\ \/ Recurse(upTo)
                      \/ SpanRange /\ (Fail("assert_tstamp") \/ Fail("recursion_level"))
    BY <1>4, CoverRegisters
  <2>2. ASSUME SpanRange, Fail("assert_tstamp") \/ Fail("recursion_level") PROVE FALSE
    <3>1. op = "insert" /\ ~ZeroLength
      BY <2>2 DEF SpanRange, StartFound
    <3>2. ~(~SENT /\ Credit(ranges[frame.start]).received_tstamp_tcp = 0)
      BY <2>2, TimestampSucceeds
    <3>3. ~(frame.level > RecursionLevel)
      <4>1. frame.level <= RecursionLevel /\ frame.level \in Nat /\ RecursionLevel \in Nat
        BY <3>1, CoverSucceeds, RecursionLevelAssumption DEF TypeOK, rmTypeOK, Frames
      <4> QED
        BY <4>1
    <3>4. Recurse(ranges[frame.start].endSeq)
      BY <2>2, <3>2, <3>3 DEF SpanRange
    <3> QED
      BY <2>2, <3>1, <3>4 DEF Recurse, Fail
  <2>3. (upTo = frame.end /\ Return) \/ (upTo < frame.end /\ Recurse(upTo))
    BY <2>1, <2>2
  <2> QED
    BY <1>1, <2>1, <2>3, RegistersKeepsCalls
<1>5. CASE FillEmpty
  BY <1>1, <1>5, FillEmptyOpens, OpensKeepsCalls
<1>6. CASE InsertNew
  <2>1. op = "insert" /\ ~ZeroLength /\ SENT
    BY <1>6, ReceivedIsFound DEF InsertNew
  <2>2. Opens
    BY <1>6, <2>1, InsertNewOpens, SearchSucceeds
  <2> QED
    BY <1>1, <2>2, OpensKeepsCalls
<1>7. CASE FailSynAck
  <2>1. op = "insert" /\ ~ZeroLength
    BY <1>7 DEF FailSynAck, StartFound
  <2> QED
    BY <1>7, <2>1, CoverSucceeds
<1> QED
  BY <1>2, <1>3, <1>4, <1>5, <1>6, <1>7 DEF insertByteRange

\* A turn of processAck's loop keeps CallInv.
LEMMA AckStepKeepsCalls ==
    ASSUME TypeOK, Typed', StepInv, AckInv, CallInv, processAck, Fixed
    PROVE  CallInv'
<1>1. Marks /\ op = "ack" /\ op' \in {"idle", "ack"}
  BY AckStepKeepsAcks
<1>2. UNCHANGED firstSeq
  BY DEF processAck, AckLast, AckBeforeSent, AckMore, AckSplit, AckOld, AckReturn, IgnoreOld
<1>3. Keys # {} /\ Keys \subseteq Keys'
  BY <1>1 DEF AckInv, PassesInOrder, Marks
<1>4. ASSUME NEW j \in Keys' PROVE SoundRange(j)'
  <2>1. PICK k \in Keys : AckPart(j, k)
    BY <1>1 DEF Marks
  <2>2. SoundRange(k) /\ k \in Nat /\ ranges[k].endSeq \in Nat /\ j \in Nat
    BY CallParts DEF StepInv, Typed
  <2>3. /\ j = k \/ (k < j /\ HasBytes(k))
        /\ HasBytes(k) <=> j < ranges'[j].endSeq
        /\ Counts(ranges'[j], ranges[k], FALSE)
    <3>1. /\ j = k \/ (k < j /\ j < ranges[k].endSeq)
          /\ HasBytes(k) <=> j < ranges'[j].endSeq
          /\ Counts(ranges'[j], ranges[k], FALSE)
      BY <2>1 DEF AckPart
    <3>2. j = k \/ (k < j /\ k < ranges[k].endSeq)
      BY <2>2, <3>1
    <3> QED
      BY <3>1, <3>2 DEF HasBytes
  <2> QED
    BY <2>2, <2>3, CountsSound
<1> QED
  BY <1>1, <1>2, <1>3, <1>4, StepKeepsCalls

-----------------------------------------------------------------------------
(* Steps of the environment. *)

\* Sending keeps CallInv.
LEMMA SendsKeepsCalls ==
    ASSUME RegularTrace, TypeOK, TypeOK', CallInv, Sends
    PROVE  CallInv'
<1>1. /\ op' = "insert" /\ phase = "sent" /\ SENT'
      /\ frame'.start = seg'.seq /\ frame'.end = seg'.endSeq /\ frame'.level = 0
      /\ UNCHANGED <<ranges, lastSeq, phase, base, arrived>>
      /\ firstSeq' >= firstSeq
      /\ \A p \in wire' \ wire : p.ts # 0
      /\ seg'.endSeq - seg'.seq <= MaxPayload
      /\ nxt <= nxt'
      /\ nxt' # nxt => tcp = "open" /\ nxt' <= base + MaxSeq
      /\ tcp' = "open" => tcp = "open"
      /\ seg'.seq = seg'.endSeq /\ tcp' = "open" =>
            seg'.flag = "none" \/ (base = 1 /\ seg'.seq = 0)
  BY DEF Sends, RegularTrace, SENT
<1>2. /\ firstSeq \in Nat /\ firstSeq' \in Nat /\ MaxSeq \in Nat /\ seg'.seq \in Nat
      /\ nxt \in Nat /\ nxt' \in Nat /\ Keys \subseteq Nat
  BY BoundsAssumption DEF TypeOK, rmTypeOK, Keys, Segments
<1>3. CallProgress'
  <2>1. /\ nxt <= base + MaxSeq /\ firstSeq > MaxSeq /\ (Keys = {} => lastSeq = 0)
    BY DEF CallInv, CallProgress
  <2>2. nxt' <= base' + MaxSeq /\ firstSeq' > MaxSeq /\ (Keys' = {} => lastSeq' = 0)
    BY <1>1, <1>2, <2>1 DEF Keys
  <2>3. frame'.level <= frame'.start - seg'.seq
    BY <1>1, <1>2
  <2> QED
    BY <1>1, <2>2, <2>3 DEF CallProgress
<1>4. ASSUME NEW k \in Keys PROVE SoundRange(k)'
  <2>1. SoundRange(k) /\ k \in Nat
    BY <1>2, CallParts
  <2>2. tcp' = "open" \/ k < nxt' => tcp = "open" \/ k < nxt
    BY <1>1
  <2> QED
    BY <1>1, <2>1, <2>2 DEF SoundRange, HasBytes
<1>5. Timestamped'
  <2>1. (\A p \in wire' : p.ts # 0) /\ arrived' = {}
    BY <1>1, CallParts
  <2> QED
    BY <1>1, <1>4, <2>1 DEF Timestamped, SoundRange, Keys
<1>6. EmptyUncounted'
  BY <1>1, <1>4 DEF EmptyUncounted, SoundRange, Keys, ZeroLength
<1> QED
  BY <1>1, <1>3, <1>5, <1>6 DEF CallInv, Failures

\* So does a segment of the receiver's trace: what arrives was sent.
LEMMA RecvKeepsCalls ==
    ASSUME TypeOK, CallInv, NEW s \in Nat, NEW n \in 0 .. MaxPayload,
           NEW flag \in {"none", "syn", "fin"}, NEW ts, processRecvd(s, s + n, flag, ts)
    PROVE  CallInv'
<1> DEFINE e == s + n
           last == IF s = e THEN e + 1 ELSE e
           g == [seq |-> s, endSeq |-> e, flag |-> flag, retrans |-> FALSE,
                 is_rdb |-> FALSE, rdb_end_seq |-> 0,
                 time |-> clock + 1, tstamp_tcp |-> ts]
<1>1. g.seq = s /\ g.endSeq = e /\ g.flag = flag /\ g.tstamp_tcp = ts
  OBVIOUS
<1>2. /\ insertReceivedRange(g)
      /\ phase = "recv"
      /\ wire' \subseteq wire
      /\ arrived' \subseteq arrived \cup Piece(s, last, ts)
      /\ UNCHANGED <<ranges, lastSeq, firstSeq, phase, base, nxt, tcp>>
  BY DEF processRecvd
<1>3. \/ base <= s /\ s < e /\ e <= nxt /\ flag = "none" /\ (Delivers(s, e, ts) \/ Again(s, e, ts))
      \/ s = e /\ s \in {nxt, SndNxt} /\ flag = "none" /\ ts = 0
      \/ s = e /\ s \in {nxt, SndNxt} /\ flag = "fin" /\ tcp = "fin" /\ Delivers(s, s + 1, ts)
      \/ s = e /\ s = 0 /\ base = 1 /\ flag = "syn" /\ Delivers(s, s + 1, ts)
  BY DEF processRecvd
<1> HIDE DEF g
<1>4. /\ op' = "insert" /\ seg'.seq = s /\ seg'.endSeq = e /\ seg'.flag = flag /\ seg'.tstamp_tcp = ts
      /\ frame'.start = s /\ frame'.end = e /\ frame'.level = 0 /\ frame'.itype = "INSERT_RECV"
  BY <1>1, <1>2 DEF insertReceivedRange, Call
<1>5. /\ nxt \in Nat /\ n \in Nat /\ e \in Nat /\ e - s = n /\ MaxPayload \in Nat /\ n <= MaxPayload
      /\ s - s = 0 /\ (SndNxt = nxt \/ SndNxt = nxt + 1)
  BY BoundsAssumption DEF TypeOK, SndNxt
<1>6. Keys' = Keys /\ ~SENT' /\ (ZeroLength' <=> s = e)
  BY <1>2, <1>4 DEF Keys, SENT, ZeroLength
<1>7. \A x, y \in Nat : x < y => [seq |-> x, ts |-> ts] \in Piece(x, y, ts)
  BY DEF Piece
<1>8. s < e \/ flag # "none" => ts # 0
  <2>1. /\ \A p \in wire : p.ts # 0
        /\ \A p \in arrived : p.seq < nxt => p.ts # 0
    BY CallParts
  <2>2. CASE s < e
    <3>1. [seq |-> s, ts |-> ts] \in Piece(s, e, ts) /\ s < nxt
      BY <1>3, <1>5, <1>7, <2>2
    <3>2. Piece(s, e, ts) \subseteq wire \/ Piece(s, e, ts) \subseteq arrived
      BY <1>3, <1>5, <2>2 DEF Delivers, Again
    <3> QED
      BY <2>1, <3>1, <3>2
  <2>3. CASE s = e /\ flag # "none"
    <3>1. Delivers(s, s + 1, ts) /\ s < s + 1 /\ s + 1 \in Nat
      BY <1>3, <1>5, <2>3
    <3> QED
      BY <1>7, <2>1, <3>1 DEF Delivers
  <2> QED
    BY <1>3, <2>2, <2>3
<1>9. \A p \in arrived' : p.seq < nxt => p.ts # 0
  <2>1. \A p \in arrived : p.seq < nxt => p.ts # 0
    BY CallParts
  <2>2. ASSUME NEW p \in Piece(s, last, ts), p.seq < nxt PROVE p.ts # 0
    <3>1. p.ts = ts /\ p.seq \in Int /\ s <= p.seq
      <4>1. PICK x \in s .. last - 1 : p = [seq |-> x, ts |-> ts]
        BY DEF Piece
      <4>2. p.ts = ts /\ p.seq = x
        BY <4>1
      <4> QED
        BY <1>5, <4>1, <4>2
    <3>2. s < e \/ flag # "none"
      BY <1>3, <1>5, <2>2, <3>1
    <3> QED
      BY <1>8, <3>1, <3>2
  <2> QED
    BY <1>2, <2>1, <2>2
<1>10. CallProgress'
  BY <1>2, <1>4, <1>5, <1>6 DEF CallInv, CallProgress
<1>11. Timestamped'
  <2>1. \A p \in wire' : p.ts # 0
    BY <1>2, CallParts
  <2>2. \A k \in Keys : ranges[k].data_received_count # 0 => ranges[k].received_tstamp_tcp # 0
    BY DEF CallInv, Timestamped
  <2>3. ~ZeroLength' \/ seg'.flag # "none" => seg'.tstamp_tcp # 0
    BY <1>3, <1>4, <1>6, <1>8
  <2> QED
    BY <1>2, <1>6, <1>9, <2>1, <2>2, <2>3 DEF Timestamped
<1>12. EmptyUncounted'
  <2>1. s = e /\ tcp = "open" => flag = "none" \/ (base = 1 /\ s = 0)
    BY <1>3, <1>5
  <2> QED
    BY <1>2, <1>4, <1>6, <2>1 DEF CallInv, EmptyUncounted, HasBytes
<1> QED
  BY <1>4, <1>10, <1>11, <1>12 DEF CallInv, Failures

\* Every other step leaves the map and the network alone and calls nothing but
\* processAck.
LEMMA OtherKeepsCalls ==
    ASSUME CallInv,
           UNCHANGED <<ranges, lastSeq, firstSeq, base, nxt, tcp, wire, arrived>>,
           \/ UNCHANGED <<op, frame, seg, phase>>
           \/ /\ op = "idle" /\ op' \in {"idle", "ack"}
              /\ phase' = phase \/ (phase = "sent" /\ phase' = "acks") \/ (phase = "acks" /\ phase' = "recv")
    PROVE  CallInv'
<1>1. Keys' = Keys /\ (phase' = "sent" => phase = "sent" \/ phase' = phase)
  BY DEF Keys
<1>2. UNCHANGED <<op, frame, seg, phase>> => CallInv'
  BY <1>1 DEF CallInv, CallProgress, Timestamped, EmptyUncounted, HasBytes, SENT, ZeroLength
<1>3. ASSUME op = "idle", op' \in {"idle", "ack"},
             phase' = phase \/ (phase = "sent" /\ phase' = "acks") \/ (phase = "acks" /\ phase' = "recv")
      PROVE  CallInv'
  <2>1. op' # "insert" /\ op' \notin Failures
    BY <1>3 DEF Failures
  <2>2. phase' # "recv" => arrived = {}
    BY <1>3 DEF CallInv, Timestamped
  <2> QED
    BY <1>1, <1>3, <2>1, <2>2 DEF CallInv, CallProgress, Timestamped, EmptyUncounted, HasBytes
<1> QED
  BY <1>2, <1>3

-----------------------------------------------------------------------------
(* The theorems. *)

\* It holds before the first packet.
LEMMA InitCalls ==
    ASSUME RegularTrace, Init
    PROVE  CallInv
<1>1. /\ Keys = {} /\ op = "idle" /\ phase = "sent" /\ wire = {} /\ arrived = {} /\ nxt = base
      /\ lastSeq = 0 /\ firstSeq > MaxSeq /\ base \in {0, 1} /\ MaxSeq \in Nat
  BY BoundsAssumption DEF Init, rmInit, Keys, RegularTrace
<1>2. nxt <= base + MaxSeq
  BY <1>1
<1> QED
  BY <1>1, <1>2 DEF CallInv, CallProgress, Timestamped, EmptyUncounted, Failures

\* Every step keeps it.
LEMMA NextCalls ==
    ASSUME RegularTrace, InOrderInv, CallInv, [Next]_vars, CountersInv'
    PROVE  CallInv'
<1>1. /\ TypeOK /\ TypeOK' /\ Typed /\ Typed' /\ StepInv /\ AckInv /\ EverySent
      /\ CountersInv /\ PartitionInv
  <2>1. TypeOK /\ TypeOK' /\ CountersInv /\ PartitionInv /\ AckInv
    BY DEF CountersInv, InOrderInv
  <2>2. Typed /\ Typed'
    BY <2>1, TypedFrom, TypedNext
  <2> QED
    BY <2>1, <2>2 DEF StepInv, PartitionInv, AckInv
<1>2. CompleteCapture
  BY DEF RegularTrace, InOrderCapture
<1>3. CASE UNCHANGED vars
  BY <1>3, OtherKeepsCalls DEF vars, rmVars, envVars
<1>4. CASE RangeManagerStep
  <2>1. Fixed
    BY <1>4 DEF RangeManagerStep, Fixed
  <2>2. CASE insertByteRange
    BY <1>1, <2>1, <2>2, InsertStepKeepsCalls
  <2>3. CASE processAck
    BY <1>1, <2>1, <2>3, AckStepKeepsCalls
  <2> QED
    BY <1>4, <2>2, <2>3 DEF RangeManagerStep
<1>5. CASE SendStep
  BY <1>1, <1>2, <1>5, SendStepSends, SendsKeepsCalls
<1>6. ASSUME NEW n \in 1 .. MaxPayload, DropNew(n) PROVE FALSE
  BY <1>2, <1>6 DEF DropNew, CompleteCapture
<1>7. ASSUME NEW a \in 0 .. MaxSeq + 2, NEW echo \in BOOLEAN, AckArrives(a, echo)
      PROVE  CallInv'
  BY <1>7, OtherKeepsCalls DEF AckArrives, rmVars
<1>8. ASSUME NEW s \in 0 .. MaxSeq + 1, NEW n \in 0 .. MaxPayload,
             NEW flag \in {"none", "syn", "fin"},
             NEW ts \in {0} \cup {p.ts : p \in wire \cup arrived}, processRecvd(s, s + n, flag, ts)
      PROVE  CallInv'
  <2>1. s \in Nat
    BY BoundsAssumption
  <2> QED
    BY <1>1, <1>8, <2>1, RecvKeepsCalls
<1>9. CASE StartAcks \/ StartRecv
  <2>1. /\ UNCHANGED <<ranges, lastSeq, firstSeq, base, nxt, tcp, wire, arrived>>
        /\ op = "idle" /\ op' = "idle"
        /\ (phase = "sent" /\ phase' = "acks") \/ (phase = "acks" /\ phase' = "recv")
    BY <1>9 DEF StartAcks, StartRecv, rmVars
  <2> QED
    BY <2>1, OtherKeepsCalls
<1>10. CASE processAcks
  <2>1. /\ UNCHANGED <<ranges, lastSeq, firstSeq, base, nxt, tcp, wire, arrived, phase>>
        /\ op = "idle" /\ op' \in {"idle", "ack"}
    BY <1>10 DEF processAcks, CallAck
  <2> QED
    BY <2>1, OtherKeepsCalls
<1> QED
  BY <1>3, <1>4, <1>5, <1>6, <1>7, <1>8, <1>9, <1>10, NextCases

\* All of the invariants.
RegularInv == InOrderInv /\ CallInv

\* Together they hold of a regular trace.
LEMMA RegularHolds ==
    ASSUME RegularTrace
    PROVE  Spec => []RegularInv
<1>1. InOrderCapture
  BY DEF RegularTrace
<1>2. Init => RegularInv
  BY InitCounters, InitPartition, InitAcks, InitCalls DEF RegularInv, InOrderInv
<1>3. RegularInv /\ [Next]_vars => RegularInv'
  <2> SUFFICES ASSUME RegularInv, [Next]_vars PROVE RegularInv'
    OBVIOUS
  <2>1. InOrderInv'
    BY <1>1, NextInOrder DEF RegularInv
  <2>2. CallInv'
    BY <2>1, NextCalls DEF RegularInv, InOrderInv
  <2> QED
    BY <2>1, <2>2 DEF RegularInv
<1> QED
  BY <1>2, <1>3, PTL DEF Spec

\* The inductive invariant of the calls: the recursion of insertByteRange gets
\* on by at least a byte each time, a range that was received has a timestamp,
\* and an empty range that data may still fill has counted none.
THEOREM CallsHold ==
    ASSUME RegularTrace
    PROVE  Spec => []CallInv
<1>1. RegularInv => CallInv
  BY DEF RegularInv
<1> QED
  BY <1>1, RegularHolds, PTL

\* The program gets through every regular trace: none of the asserts in
\* insertByteRange fails, its recursion never reaches RECURSION_LEVEL, and the
\* backwards search of processAck does not step in front of the first range.
THEOREM RegularTraceSucceeds ==
    ASSUME RegularTrace
    PROVE  Spec => []NoFailure
<1>1. RegularInv => NoFailure
  BY DEF RegularInv, CallInv, NoFailure
<1> QED
  BY <1>1, RegularHolds, PTL

-----------------------------------------------------------------------------
(* The ledger. *)

\* The only range that can hold a byte is the one that does.
LEMMA HolderIs ==
    ASSUME Typed, Disjoint, NEW k \in Keys, NEW x \in Nat, Covers(k, x)
    PROVE  Held(x) /\ Holder(x) = k
<1>1. Holder(x) \in Keys /\ Covers(Holder(x), x) /\ Held(x)
  BY DEF Held, Holder
<1>2. ASSUME NEW h \in Keys, Covers(h, x) PROVE h = k
  <2>1. h \in Nat /\ k \in Nat /\ ranges[h].endSeq \in Nat /\ ranges[k].endSeq \in Nat
    BY DEF Typed
  <2> QED
    BY <1>2, <2>1 DEF Covers, Disjoint
<1> QED
  BY <1>1, <1>2

\* The same of the next state.
LEMMA HolderIsNext ==
    ASSUME Typed', Disjoint', NEW k \in Keys', NEW x \in Nat, k <= x, x < ranges'[k].endSeq
    PROVE  Held(x)' /\ Holder(x)' = k
<1>1. Holder(x)' \in Keys' /\ Covers(Holder(x), x)' /\ Held(x)'
  BY DEF Held, Holder, Covers
<1>2. ASSUME NEW h \in Keys', h <= x, x < ranges'[h].endSeq PROVE h = k
  <2>1. h \in Nat /\ k \in Nat /\ ranges'[h].endSeq \in Nat /\ ranges'[k].endSeq \in Nat
    BY DEF Typed
  <2> QED
    BY <1>2, <2>1 DEF Disjoint
<1> QED
  BY <1>1, <1>2 DEF Covers

\* A byte of a range whose record is made from another one's, and that the other
\* one held, has that record's counts, plus one if it is to be counted.
LEMMA ByteCounts ==
    ASSUME Typed, Typed', Disjoint, Disjoint', NEW x \in Nat,
           NEW k \in Keys, Covers(k, x),
           NEW j \in Keys', j <= x, x < ranges'[j].endSeq,
           NEW c \in BOOLEAN, Counts(ranges'[j], ranges[k], c)
    PROVE  /\ SentCount(x)' = Add(SentCount(x), c /\ SENT)
           /\ RecvdCount(x)' = Add(RecvdCount(x), c /\ ~SENT)
<1>1. Held(x) /\ Holder(x) = k
  BY HolderIs
<1>2. Held(x)' /\ Holder(x)' = j
  BY HolderIsNext
<1> QED
  BY <1>1, <1>2 DEF SentCount, RecvdCount, Counts

\* A byte that no range holds has no counts.
LEMMA NoCounts ==
    ASSUME NEW x \in Nat
    PROVE  /\ ~Held(x) => SentCount(x) = 0 /\ RecvdCount(x) = 0
           /\ ~Held(x)' => SentCount(x)' = 0 /\ RecvdCount(x)' = 0
BY DEF SentCount, RecvdCount

\* The counts of all bytes stay the same.
SameCounts ==
    \A x \in Nat : SentCount(x)' = SentCount(x) /\ RecvdCount(x)' = RecvdCount(x)

\* The bytes of the segment up to upTo are counted, and no others.
CountsUpTo(upTo) ==
    \A x \in Nat :
        LET c == frame.start <= x /\ x < upTo
        IN /\ SentCount(x)' = Add(SentCount(x), c /\ SENT)
           /\ RecvdCount(x)' = Add(RecvdCount(x), c /\ ~SENT)

\* The map does not change.
LEMMA SameMapSameCounts ==
    ASSUME UNCHANGED ranges
    PROVE  SameCounts
<1>1. ASSUME NEW x \in Nat PROVE Held(x)' = Held(x) /\ Holder(x)' = Holder(x)
  BY DEF Held, Holder, Keys, Covers
<1> QED
  BY <1>1 DEF SameCounts, SentCount, RecvdCount

\* Every byte of the segment up to upTo is counted once, and no other byte is.
LEMMA RegistersCounts ==
    ASSUME Typed, Typed', Disjoint, Disjoint', NEW upTo \in Nat, Registers(upTo)
    PROVE  CountsUpTo(upTo)
<1> DEFINE a == frame.start
<1>1. /\ a \in Keys' /\ ranges'[a].endSeq = upTo /\ Holds
      /\ \A j \in Keys' : \E k \in Keys : PartOf(j, k) /\ Counts(ranges'[j], ranges[k], j = a)
  BY DEF Registers
<1> SUFFICES ASSUME NEW x \in Nat, NEW c \in BOOLEAN, c = (a <= x /\ x < upTo)
             PROVE  /\ SentCount(x)' = Add(SentCount(x), c /\ SENT)
                    /\ RecvdCount(x)' = Add(RecvdCount(x), c /\ ~SENT)
  <2>1. \A x \in Nat : (a <= x /\ x < upTo) \in BOOLEAN
    OBVIOUS
  <2> QED
    BY <2>1 DEF CountsUpTo
<1>2. ASSUME NEW j \in Keys', j <= x, x < ranges'[j].endSeq
      PROVE  /\ SentCount(x)' = Add(SentCount(x), c /\ SENT)
             /\ RecvdCount(x)' = Add(RecvdCount(x), c /\ ~SENT)
  <2>1. PICK k \in Keys : PartOf(j, k) /\ Counts(ranges'[j], ranges[k], j = a)
    BY <1>1
  <2>2. /\ j \in Nat /\ k \in Nat /\ a \in Nat
        /\ ranges'[j].endSeq \in Nat /\ ranges[k].endSeq \in Nat
    BY DEF Typed
  <2>3. k <= j /\ ranges'[j].endSeq <= ranges[k].endSeq
    BY <2>1, <2>2 DEF PartOf
  <2>4. Covers(k, x)
    BY <1>2, <2>2, <2>3 DEF Covers
  <2>5. c = (j = a)
    <3>1. j = a => c
      BY <1>1, <1>2
    <3>2. c => j = a
      <4>1. c => a <= x /\ x < ranges'[a].endSeq
        BY <1>1
      <4>2. c => Holder(x)' = a
        BY <1>1, <4>1, HolderIsNext
      <4>3. Holder(x)' = j
        BY <1>2, HolderIsNext
      <4> QED
        BY <4>2, <4>3
    <3> QED
      BY <3>1, <3>2
  <2>6. Counts(ranges'[j], ranges[k], c)
    BY <2>1, <2>5
  <2> QED
    BY <1>2, <2>4, <2>6, ByteCounts
<1>3. CASE ~Held(x)'
  <2>1. ~Held(x)
    BY <1>1, <1>3 DEF Holds, Held
  <2>2. ~c
    BY <1>1, <1>3 DEF Held, Covers
  <2> QED
    BY <1>3, <2>1, <2>2, NoCounts DEF Add
<1> QED
  BY <1>2, <1>3 DEF Held, Covers

\* The bytes of a range that is opened are counted for the first time.
LEMMA OpensCounts ==
    ASSUME TypeOK, StepInv, Typed', Disjoint', CallInv, Opens
    PROVE  CountsUpTo(frame.end)
<1> DEFINE a == frame.start
           b == frame.end
           r == ranges'[a]
<1>1. /\ op = "insert" /\ ~ZeroLength /\ SENT
      /\ Keys' = Keys \cup {a}
      /\ \A k \in Keys : k <= a /\ ranges[k].endSeq <= a /\ (k # a => ranges'[k] = ranges[k])
      /\ r.endSeq = b
      /\ IF a \in Keys
         THEN /\ r.data_sent_count = Add(ranges[a].data_sent_count, TRUE)
              /\ r.data_received_count = ranges[a].data_received_count
         ELSE /\ r.data_sent_count = Add(0, TRUE)
              /\ r.data_received_count = 0
  BY DEF Opens
<1>2. /\ Typed /\ Disjoint /\ a \in Nat /\ b \in Nat /\ a < b /\ base <= a /\ a < nxt /\ phase = "sent"
      /\ Keys \subseteq Nat /\ \A k \in Keys : ranges[k].endSeq \in Nat
  BY <1>1 DEF StepInv, Typed, CallInStream
<1>3. r.data_sent_count = Add(0, TRUE) /\ r.data_received_count = 0
  <2>1. CASE a \in Keys
    <3>1. SoundRange(a) /\ ~HasBytes(a)
      BY <1>1, <1>2, <2>1, CallParts DEF HasBytes
    <3> QED
      BY <1>1, <1>2, <2>1, <3>1 DEF SoundRange
  <2> QED
    BY <1>1, <2>1
<1> SUFFICES ASSUME NEW x \in Nat, NEW c \in BOOLEAN, c = (a <= x /\ x < b)
             PROVE  /\ SentCount(x)' = Add(SentCount(x), c)
                    /\ RecvdCount(x)' = RecvdCount(x)
  <2>1. \A x \in Nat : (a <= x /\ x < b) \in BOOLEAN
    OBVIOUS
  <2>2. SENT = TRUE
    BY <1>1
  <2> QED
    BY <2>1, <2>2 DEF CountsUpTo, Add
<1>4. CASE c
  <2>0. a <= x /\ x < b
    BY <1>4
  <2>1. ~Held(x)
    BY <1>1, <1>2, <2>0 DEF Held, Covers
  <2>2. Held(x)' /\ Holder(x)' = a
    BY <1>1, <1>2, <2>0, HolderIsNext
  <2> QED
    BY <1>3, <1>4, <2>1, <2>2 DEF SentCount, RecvdCount, Add
<1>5. CASE ~c
  <2>1. ASSUME NEW k \in Keys, Covers(k, x)
        PROVE  SentCount(x)' = SentCount(x) /\ RecvdCount(x)' = RecvdCount(x)
    <3>1. k # a /\ k \in Keys' /\ ranges'[k] = ranges[k] /\ k <= x /\ x < ranges'[k].endSeq
      BY <1>1, <1>2, <2>1 DEF Covers
    <3>2. Held(x)' /\ Holder(x)' = k /\ Held(x) /\ Holder(x) = k
      BY <1>2, <2>1, <3>1, HolderIsNext, HolderIs
    <3> QED
      BY <3>1, <3>2 DEF SentCount, RecvdCount
  <2>2. CASE ~Held(x)
    <3>1. ~Held(x)'
      BY <1>1, <1>2, <1>5, <2>2 DEF Held, Covers
    <3> QED
      BY <1>5, <2>2, <3>1, NoCounts DEF Add
  <2> QED
    BY <1>5, <2>1, <2>2 DEF Held, Add
<1> QED
  BY <1>4, <1>5

\* A segment without payload counts no byte: a SYN or FIN is counted on a range
\* that holds none.
LEMMA EmptySameCounts ==
    ASSUME TypeOK, StepInv, Typed', Disjoint', EverySent, CallInv,
           InsertZeroLength \/ UpdateZeroLength
    PROVE  SameCounts
<1>1. Typed /\ Disjoint /\ Keys \subseteq Nat /\ frame.start \in Nat /\ nxt \in Nat
  BY DEF StepInv, Typed
<1>2. SUFFICES ASSUME NEW x \in Nat
               PROVE  SentCount(x)' = SentCount(x) /\ RecvdCount(x)' = RecvdCount(x)
  BY DEF SameCounts
<1>3. ASSUME NEW k \in Keys, Covers(k, x), k \in Keys', ranges'[k].endSeq = ranges[k].endSeq,
             Counts(ranges'[k], ranges[k], FALSE)
      PROVE  SentCount(x)' = SentCount(x) /\ RecvdCount(x)' = RecvdCount(x)
  <2>1. k <= x /\ x < ranges'[k].endSeq
    BY <1>3 DEF Covers
  <2>2. Held(x)' /\ Holder(x)' = k /\ Held(x) /\ Holder(x) = k
    BY <1>1, <1>3, <2>1, HolderIsNext, HolderIs
  <2> QED
    BY <1>3, <2>2 DEF SentCount, RecvdCount, Counts, Add
<1>4. CASE InsertZeroLength
  <2> DEFINE z == frame.start
  <2>1. /\ Keys' = Keys \cup {z} /\ ranges'[z].endSeq = z
        /\ \A k \in Keys : ranges'[k] = ranges[k]
    BY <1>4, InsertZeroLengthHistory
  <2>2. CASE ~Held(x)
    <3>1. ~Held(x)'
      BY <1>1, <2>1, <2>2 DEF Held, Covers
    <3> QED
      BY <2>2, <3>1, NoCounts
  <2>3. ASSUME NEW k \in Keys, Covers(k, x)
        PROVE  SentCount(x)' = SentCount(x) /\ RecvdCount(x)' = RecvdCount(x)
    <3>1. k \in Keys' /\ ranges'[k].endSeq = ranges[k].endSeq /\ Counts(ranges'[k], ranges[k], FALSE)
      BY <2>1 DEF Counts, Add, PacketsFrom, OnlyPackets, SendingsFrom
    <3> QED
      BY <1>3, <2>3, <3>1
  <2> QED
    BY <2>2, <2>3 DEF Held
<1>5. CASE UpdateZeroLength
  <2> DEFINE z == start_seq
  <2>1. /\ op = "insert" /\ ZeroLength /\ z \in Keys /\ Keys' = Keys
        /\ \A k \in Keys : k # z => ranges'[k] = ranges[k]
        /\ ranges'[z].endSeq = ranges[z].endSeq
        /\ Counts(ranges'[z], ranges[z], seg.flag \in {"syn", "fin"})
    BY <1>5, UpdateZeroLengthHistory
  <2>2. CASE ~Held(x)
    <3>1. ~Held(x)'
      BY <2>1, <2>2 DEF Held, Covers
    <3> QED
      BY <2>2, <3>1, NoCounts
  <2>3. HasBytes(z) => ~(seg.flag \in {"syn", "fin"})
    <3> SUFFICES ASSUME HasBytes(z), seg.flag # "none" PROVE FALSE
      OBVIOUS
    <3>1. z = frame.start /\ seg.seq = frame.start
      BY <2>1 DEF start_seq, StepInv, CallInStream
    <3>2. base <= z /\ ranges[z].endSeq <= nxt /\ ranges[z].endSeq \in Nat /\ z \in Nat /\ base \in Nat
      BY <1>1, <2>1, CallParts DEF SoundRange, StepInv, RangesInStream, HasBytes, Typed
    <3>3. z = nxt \/ z = nxt + 1
      BY <2>1, <3>1, <3>2 DEF StepInv, CallInStream
    <3> QED
      BY <1>1, <3>2, <3>3 DEF HasBytes
  <2>4. ASSUME NEW k \in Keys, Covers(k, x)
        PROVE  SentCount(x)' = SentCount(x) /\ RecvdCount(x)' = RecvdCount(x)
    <3>1. k \in Nat /\ ranges[k].endSeq \in Nat
      BY <1>1 DEF Typed
    <3>2. HasBytes(k)
      BY <2>4, <3>1 DEF Covers, HasBytes
    <3>3. CASE k # z
      <4>1. ranges'[k].endSeq = ranges[k].endSeq /\ Counts(ranges'[k], ranges[k], FALSE)
        BY <2>1, <3>3 DEF Counts, Add, PacketsFrom, OnlyPackets, SendingsFrom
      <4> QED
        BY <1>3, <2>1, <2>4, <4>1
    <3>4. CASE k = z
      <4>1. (seg.flag \in {"syn", "fin"}) = FALSE
        BY <2>3, <3>2, <3>4
      <4>2. ranges'[k].endSeq = ranges[k].endSeq /\ Counts(ranges'[k], ranges[k], FALSE)
        BY <2>1, <3>4, <4>1
      <4> QED
        BY <1>3, <2>1, <2>4, <4>2
    <3> QED
      BY <3>3, <3>4
  <2> QED
    BY <2>2, <2>4 DEF Held
<1> QED
  BY <1>4, <1>5

\* An acknowledgement counts no byte.
LEMMA MarksSameCounts ==
    ASSUME Typed, Typed', Disjoint, Disjoint', Marks
    PROVE  SameCounts
<1> SUFFICES ASSUME NEW x \in Nat
             PROVE  SentCount(x)' = SentCount(x) /\ RecvdCount(x)' = RecvdCount(x)
  BY DEF SameCounts
<1>1. CASE ~Held(x)'
  <2>1. ~Held(x)
    BY <1>1 DEF Marks, Holds, Held
  <2> QED
    BY <1>1, <2>1, NoCounts
<1>2. ASSUME NEW j \in Keys', j <= x, x < ranges'[j].endSeq
      PROVE  SentCount(x)' = SentCount(x) /\ RecvdCount(x)' = RecvdCount(x)
  <2>1. PICK k \in Keys : AckPart(j, k)
    BY DEF Marks
  <2>2. j \in Nat /\ k \in Nat /\ ranges'[j].endSeq \in Nat /\ ranges[k].endSeq \in Nat
    BY DEF Typed
  <2>3. k <= j /\ ranges'[j].endSeq <= ranges[k].endSeq /\ Counts(ranges'[j], ranges[k], FALSE)
    <3>1. ranges'[j].endSeq <= ranges[k].endSeq /\ Counts(ranges'[j], ranges[k], FALSE)
      BY <2>1 DEF AckPart
    <3>2. j = k \/ k < j
      BY <2>1 DEF AckPart
    <3>3. k <= j
      BY <2>2, <3>2
    <3> QED
      BY <3>1, <3>3
  <2>4. Covers(k, x)
    BY <1>2, <2>2, <2>3 DEF Covers
  <2>5. /\ SentCount(x)' = Add(SentCount(x), FALSE /\ SENT)
        /\ RecvdCount(x)' = Add(RecvdCount(x), FALSE /\ ~SENT)
    BY <1>2, <2>3, <2>4, ByteCounts
  <2> QED
    BY <2>5 DEF Add
<1> QED
  BY <1>1, <1>2 DEF Held, Covers

\* A step that counts nothing and leaves no segment, or the same one, to
\* register is no step of the ledger.
LEMMA LedgerStutters ==
    ASSUME SameCounts, Unregistered' = Unregistered, MaxSeq \in Nat
    PROVE  UNCHANGED Ledger!ledgerVars
<1>1. \A x \in 0 .. MaxSeq : SentCount(x)' = SentCount(x) /\ RecvdCount(x)' = RecvdCount(x)
  BY DEF SameCounts
<1> QED
  BY <1>1 DEF Ledger!ledgerVars

\* A call for a segment with payload begins an entry of the ledger.
LEMMA LedgerBegins ==
    ASSUME TypeOK', MaxSeq \in Nat, SameCounts, op # "insert", op' = "insert", ~ZeroLength',
           frame'.start < frame'.end, frame'.end <= MaxSeq + 1
    PROVE  Ledger!LedgerNext
<1> DEFINE side == IF SENT' THEN "sent" ELSE "recvd"
           from == frame'.start
           to == frame'.end
<1>1. from \in Nat /\ to \in Nat
  BY DEF TypeOK, rmTypeOK, Frames
<1>2. from \in 0 .. MaxSeq /\ to \in (0 .. MaxSeq) \cup {b + 1 : b \in 0 .. MaxSeq}
  <2>1. to - 1 \in 0 .. MaxSeq /\ to = (to - 1) + 1
    BY <1>1
  <2> QED
    BY <1>1, <2>1
<1>3. Unregistered = Ledger!Nothing /\ Unregistered' = [side |-> side, from |-> from, to |-> to]
  BY DEF Unregistered, Ledger!Nothing
<1>4. \A x \in 0 .. MaxSeq : SentCount(x)' = SentCount(x) /\ RecvdCount(x)' = RecvdCount(x)
  BY DEF SameCounts
<1>5. Ledger!Begin(side, from, to)
  BY <1>3, <1>4 DEF Ledger!Begin
<1>6. side \in {"sent", "recvd"}
  OBVIOUS
<1> HIDE DEF side, from, to
<1> QED
  BY <1>2, <1>5, <1>6 DEF Ledger!LedgerNext

\* Registering bytes of a segment credits them.
LEMMA LedgerCredits ==
    ASSUME TypeOK, MaxSeq \in Nat, op = "insert", ~ZeroLength, frame.end <= MaxSeq + 1,
           NEW upTo \in Nat, frame.start < upTo, upTo <= frame.end, CountsUpTo(upTo),
           \/ upTo = frame.end /\ Return
           \/ upTo < frame.end /\ Recurse(upTo)
    PROVE  Ledger!LedgerNext
<1>1. frame \in Frames /\ frame.start \in Nat /\ frame.end \in Nat
  BY DEF TypeOK, rmTypeOK, Frames
<1>2. upTo \in (0 .. MaxSeq) \cup {b + 1 : b \in 0 .. MaxSeq}
  <2>1. upTo - 1 \in 0 .. MaxSeq /\ upTo = (upTo - 1) + 1
    BY <1>1
  <2> QED
    BY <2>1
<1>3. Unregistered = [side |-> IF SENT THEN "sent" ELSE "recvd",
                      from |-> frame.start, to |-> frame.end]
  BY DEF Unregistered
<1>4. Unregistered' = IF upTo = frame.end THEN Ledger!Nothing
                      ELSE [Unregistered EXCEPT !.from = upTo]
  <2>1. CASE upTo = frame.end /\ Return
    BY <2>1 DEF Unregistered, Return, Ledger!Nothing
  <2>2. CASE upTo < frame.end /\ Recurse(upTo)
    <3>1. /\ op' = "insert" /\ frame'.start = upTo /\ frame'.end = frame.end
          /\ frame'.itype = frame.itype
      BY <1>1, <2>2 DEF Recurse, Frames
    <3>2. ~ZeroLength' /\ SENT' = SENT /\ upTo # frame.end
      BY <1>1, <2>2, <3>1 DEF ZeroLength, SENT
    <3> QED
      BY <1>3, <3>1, <3>2 DEF Unregistered
  <2> QED
    BY <2>1, <2>2
<1>5. \A x \in 0 .. MaxSeq :
        LET c == frame.start <= x /\ x < upTo
        IN /\ SentCount(x)' = Add(SentCount(x), c /\ SENT)
           /\ RecvdCount(x)' = Add(RecvdCount(x), c /\ ~SENT)
  BY DEF CountsUpTo
<1>6. Ledger!Credit(upTo)
  <2>1. CASE SENT
    BY <1>3, <1>4, <1>5, <2>1 DEF Ledger!Credit, Ledger!Count, Add
  <2>2. CASE ~SENT
    BY <1>3, <1>4, <1>5, <2>2 DEF Ledger!Credit, Ledger!Count, Add
  <2> QED
    BY <2>1, <2>2
<1> QED
  BY <1>2, <1>6 DEF Ledger!LedgerNext

\* Every step of a regular trace is a step of the ledger, or none.
LEMMA NextLedger ==
    ASSUME RegularTrace, RegularInv, RegularInv', [Next]_vars
    PROVE  [Ledger!LedgerNext]_(Ledger!ledgerVars)
<1>1. /\ TypeOK /\ TypeOK' /\ Typed /\ Typed' /\ StepInv /\ AckInv /\ EverySent /\ CallInv
      /\ CountersInv /\ PartitionInv /\ Disjoint /\ Disjoint' /\ CallInStream /\ CallInStream'
  <2>1. TypeOK /\ TypeOK' /\ CountersInv /\ PartitionInv /\ PartitionInv' /\ AckInv /\ CallInv
    BY DEF CountersInv, InOrderInv, RegularInv
  <2>2. Typed /\ Typed'
    BY <2>1, TypedFrom, TypedNext
  <2> QED
    BY <2>1, <2>2 DEF StepInv, PartitionInv, AckInv
<1>2. /\ MaxSeq \in Nat /\ nxt \in Nat /\ nxt' \in Nat
      /\ nxt <= MaxSeq + 1 /\ nxt' <= MaxSeq + 1
  <2>1. /\ MaxSeq \in Nat /\ nxt \in Nat /\ nxt' \in Nat
        /\ base \in Nat /\ base <= 1 /\ base' \in Nat /\ base' <= 1
    BY <1>1, BoundsAssumption DEF TypeOK
  <2>2. nxt <= base + MaxSeq /\ nxt' <= base' + MaxSeq
    BY DEF RegularInv, CallInv, CallProgress
  <2>3. \A m, b, n \in Nat : b <= 1 /\ n <= b + m => n <= m + 1
    OBVIOUS
  <2>4. nxt <= MaxSeq + 1
    BY <2>1, <2>2, <2>3
  <2>5. nxt' <= MaxSeq + 1
    BY <2>1, <2>2, <2>3
  <2> QED
    BY <2>1, <2>4, <2>5
<1>3. CompleteCapture
  BY DEF RegularTrace, InOrderCapture
<1>4. op # "insert" /\ op' # "insert" => Unregistered' = Unregistered
  BY DEF Unregistered
<1>5. ASSUME UNCHANGED ranges, op # "insert"
      PROVE  [Ledger!LedgerNext]_(Ledger!ledgerVars)
  <2>1. SameCounts
    BY <1>5, SameMapSameCounts
  <2>2. CASE op' = "insert" /\ ~ZeroLength'
    <3>1. frame'.start < frame'.end /\ frame'.end <= nxt' /\ frame'.end \in Nat
      BY <1>1, <2>2 DEF CallInStream, Typed
    <3>2. frame'.end <= MaxSeq + 1
      BY <1>2, <3>1
    <3> QED
      BY <1>1, <1>2, <1>5, <2>1, <2>2, <3>1, <3>2, LedgerBegins
  <2>3. CASE ~(op' = "insert" /\ ~ZeroLength')
    <3>1. Unregistered' = Unregistered
      BY <1>5, <2>3 DEF Unregistered
    <3> QED
      BY <1>2, <2>1, <3>1, LedgerStutters
  <2> QED
    BY <2>2, <2>3
<1>6. CASE UNCHANGED vars
  <2>1. UNCHANGED <<ranges, op, frame>>
    BY <1>6 DEF vars, rmVars
  <2>2. Unregistered' = Unregistered
    BY <2>1 DEF Unregistered, SENT, ZeroLength
  <2> QED
    BY <1>2, <2>1, <2>2, SameMapSameCounts, LedgerStutters
<1>7. CASE RangeManagerStep /\ insertByteRange
  <2>1. Fixed
    BY <1>7 DEF RangeManagerStep, Fixed
  <2>2. \/ InsertZeroLength \/ UpdateZeroLength
        \/ Opens
        \/ \E upTo \in Nat :
             Registers(upTo) /\ ((upTo = frame.end /\ Return) \/ (upTo < frame.end /\ Recurse(upTo)))
    BY <1>1, <1>7, <2>1, InsertStepKeepsCalls
  <2>3. op = "insert" /\ ~ZeroLength =>
          frame.start < frame.end /\ frame.end <= MaxSeq + 1 /\ frame.end \in Nat
    <3>1. op = "insert" /\ ~ZeroLength => frame.start < frame.end /\ frame.end <= nxt
      BY <1>1 DEF CallInStream
    <3>2. frame.end \in Nat
      BY <1>1 DEF Typed
    <3> QED
      BY <1>2, <3>1, <3>2
  <2>4. CASE InsertZeroLength \/ UpdateZeroLength
    <3>1. ZeroLength /\ Return
      BY <2>4 DEF InsertZeroLength, UpdateZeroLength
    <3>2. Unregistered' = Unregistered
      BY <3>1 DEF Unregistered, Return
    <3>3. SameCounts
      BY <1>1, <2>4, EmptySameCounts
    <3> QED
      BY <1>2, <3>2, <3>3, LedgerStutters
  <2>5. CASE Opens
    <3>1. op = "insert" /\ ~ZeroLength /\ Return
      BY <2>5 DEF Opens
    <3>2. CountsUpTo(frame.end)
      BY <1>1, <2>5, OpensCounts
    <3>3. frame.end <= frame.end
      BY <2>3, <3>1
    <3> QED
      BY <1>1, <1>2, <2>3, <3>1, <3>2, <3>3, LedgerCredits
  <2>6. ASSUME NEW upTo \in Nat, Registers(upTo),
               (upTo = frame.end /\ Return) \/ (upTo < frame.end /\ Recurse(upTo))
        PROVE  Ledger!LedgerNext
    <3>1. op = "insert" /\ ~ZeroLength /\ frame.start < upTo /\ upTo <= frame.end
      BY <2>6 DEF Registers
    <3>2. CountsUpTo(upTo)
      BY <1>1, <2>6, RegistersCounts
    <3> QED
      BY <1>1, <1>2, <2>3, <2>6, <3>1, <3>2, LedgerCredits
  <2> QED
    BY <2>2, <2>4, <2>5, <2>6
<1>8. CASE RangeManagerStep /\ processAck
  <2>1. Fixed
    BY <1>8 DEF RangeManagerStep, Fixed
  <2>2. Marks /\ op = "ack" /\ op' \in {"idle", "ack"}
    BY <1>1, <1>8, <2>1, AckStepKeepsAcks
  <2> QED
    BY <1>1, <1>2, <1>4, <2>2, MarksSameCounts, LedgerStutters
<1>9. CASE SendStep
  <2>1. Sends
    BY <1>1, <1>3, <1>9, SendStepSends
  <2> QED
    BY <1>5, <2>1 DEF Sends
<1>10. ASSUME NEW n \in 1 .. MaxPayload, DropNew(n) PROVE FALSE
  BY <1>3, <1>10 DEF DropNew, CompleteCapture
<1>11. ASSUME NEW a \in 0 .. MaxSeq + 2, NEW echo \in BOOLEAN, AckArrives(a, echo)
       PROVE  [Ledger!LedgerNext]_(Ledger!ledgerVars)
  BY <1>5, <1>11 DEF AckArrives, rmVars
<1>12. ASSUME NEW s \in 0 .. MaxSeq + 1, NEW n \in 0 .. MaxPayload,
              NEW flag \in {"none", "syn", "fin"},
              NEW ts \in {0} \cup {p.ts : p \in wire \cup arrived}, processRecvd(s, s + n, flag, ts)
       PROVE  [Ledger!LedgerNext]_(Ledger!ledgerVars)
  <2>1. UNCHANGED ranges /\ op = "idle"
    BY <1>12 DEF processRecvd, insertReceivedRange, Call
  <2> QED
    BY <1>5, <2>1
<1>13. CASE StartAcks \/ StartRecv
  BY <1>5, <1>13 DEF StartAcks, StartRecv, rmVars
<1>14. CASE processAcks
  <2>1. UNCHANGED ranges /\ op = "idle"
    BY <1>14 DEF processAcks, CallAck
  <2> QED
    BY <1>5, <2>1
<1> QED
  BY <1>6, <1>7, <1>8, <1>9, <1>10, <1>11, <1>12, <1>13, <1>14, NextCases DEF RangeManagerStep

\* For a regular trace the map implements the ledger: insertByteRange, with all
\* its splits and recursive calls, counts every byte of a segment exactly once
\* as sent or as received, and nothing else changes a count.
THEOREM RegularTraceRefinesLedger ==
    ASSUME RegularTrace
    PROVE  Spec => RefinesLedger
<1>1. Init => Ledger!LedgerInit
  <2> SUFFICES ASSUME Init PROVE Ledger!LedgerInit
    OBVIOUS
  <2>1. Keys = {} /\ op = "idle"
    BY DEF Init, rmInit, Keys
  <2>2. \A x \in 0 .. MaxSeq : SentCount(x) = 0 /\ RecvdCount(x) = 0
    BY <2>1 DEF SentCount, RecvdCount, Held
  <2>3. Unregistered = Ledger!Nothing
    BY <2>1 DEF Unregistered, Ledger!Nothing
  <2> QED
    BY <2>2, <2>3 DEF Ledger!LedgerInit
<1>2. RegularInv /\ RegularInv' /\ [Next]_vars => [Ledger!LedgerNext]_(Ledger!ledgerVars)
  BY NextLedger
<1> QED
  BY <1>1, <1>2, RegularHolds, PTL DEF Spec, RefinesLedger, Ledger!LedgerSpec

=============================================================================
