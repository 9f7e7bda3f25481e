----------------------------- MODULE LossProofs -----------------------------
(***************************************************************************)
(* What is made of the receiver's trace, for every regular trace that is   *)
(* short enough for the counters of a range: the timestamp that a range    *)
(* keeps is the one with which its bytes arrived first, the sender's lists *)
(* have it, and without bundles the delay is measured from that            *)
(* transmission.                                                           *)
(***************************************************************************)
EXTENDS StatsProofs, LossStats

-----------------------------------------------------------------------------
(* Ranges and the ones they were made from. *)

\* The range at j of the new map is the one at k of the old map, or was cut
\* from it, and counts the segment in hand if c holds, which it only does if the
\* call registers bytes at its start.
Derived(j, k, c) ==
    /\ j = k \/ (k < j /\ j < ranges[k].endSeq)
    /\ ranges'[j].endSeq <= ranges[k].endSeq
    /\ HasBytes(k) <=> j < ranges'[j].endSeq
    /\ Counts(ranges'[j], ranges[k], c)
    /\ HasBytes(k) => (c <=> op = "insert" /\ ~ZeroLength /\ j = frame.start)

\* Every range of the new map is made from one of the old map.
AllDerived == \A j \in Keys' : \E k \in Keys, c \in BOOLEAN : Derived(j, k, c)

\* The call has registered its bytes up to upTo, and goes on there if there are
\* more.
Moves(upTo) ==
    /\ op = "insert" /\ ~ZeroLength =>
         /\ frame.start < upTo /\ upTo <= frame.end
         /\ frame.start \in Keys' /\ ranges'[frame.start].endSeq = upTo
         /\ upTo # frame.end => op' = "insert"
    /\ op' = "insert" =>
         /\ op = "insert" /\ ~ZeroLength /\ upTo < frame.end
         /\ UNCHANGED seg /\ frame'.itype = frame.itype
         /\ frame'.start = upTo /\ frame'.end = frame.end

\* The ends and counts of a range are numbers.
LEMMA RangeNumbers ==
    ASSUME TypeOK, NEW k \in Keys
    PROVE  /\ k \in Nat /\ ranges[k].endSeq \in Nat
           /\ ranges[k].data_received_count \in Nat
<1>1. Counters \subseteq Nat
  BY CounterModAssumption DEF Counters
<1> QED
  BY <1>1 DEF TypeOK, rmTypeOK, RangeMap, Keys, ByteRanges

\* Two ranges do not have a byte in common.
LEMMA OneHolder ==
    ASSUME StepInv, NEW j \in Keys, NEW k \in Keys, NEW x \in Nat, Covers(j, x), Covers(k, x)
    PROVE  j = k
<1>1. /\ j \in Nat /\ k \in Nat /\ ranges[j].endSeq \in Nat /\ ranges[k].endSeq \in Nat
      /\ (j < k => ranges[j].endSeq <= k) /\ (k < j => ranges[k].endSeq <= j)
  BY DEF StepInv, Typed, Disjoint
<1> QED
  BY <1>1 DEF Covers

\* The range that has a byte of k after the step was made from k.
LEMMA MadeFrom ==
    ASSUME StepInv, Typed', Holds, AllDerived, NEW k \in Keys, NEW x \in Nat, Covers(k, x)
    PROVE  \E j \in Keys', c \in BOOLEAN : Covers(j, x)' /\ Derived(j, k, c)
<1>1. PICK j \in Keys' : Covers(j, x)'
  BY DEF Holds
<1>2. PICK i \in Keys, c \in BOOLEAN : Derived(j, i, c)
  BY DEF AllDerived
<1>3. Covers(i, x)
  <2>1. /\ i \in Nat /\ j \in Nat /\ ranges[i].endSeq \in Nat /\ ranges'[j].endSeq \in Nat
        /\ i <= j /\ ranges'[j].endSeq <= ranges[i].endSeq
    BY <1>2 DEF StepInv, Typed, Derived
  <2>2. j <= x /\ x < ranges'[j].endSeq
    BY <1>1 DEF Covers
  <2> QED
    BY <2>1, <2>2 DEF Covers
<1>4. i = k
  BY <1>3, OneHolder
<1> QED
  BY <1>1, <1>2, <1>4

\* A byte keeps the transmissions of its range.
LEMMA SentWithPasses ==
    ASSUME StepInv, Typed', Holds, AllDerived, NEW k \in Keys, NEW x \in Nat, Covers(k, x),
           NEW ts, SentWith(k, ts)
    PROVE  \E j \in Keys' : Covers(j, x)' /\ SentWith(j, ts)'
<1>1. PICK j \in Keys', c \in BOOLEAN : Covers(j, x)' /\ Derived(j, k, c)
  BY MadeFrom
<1>2. \A t \in Sendings(ranges[k].sent_tstamp_pcap) : t \in Sendings(ranges'[j].sent_tstamp_pcap)
  BY <1>1 DEF Derived, Counts, SendingsFrom
<1>3. SentWith(j, ts)'
  BY <1>2 DEF SentWith
<1> QED
  BY <1>1, <1>3

\* The counter of the receptions of a range does not wrap.
LEMMA ReceptionsExact ==
    ASSUME ShortTrace, TypeOK, StepInv, LargestSeen, NEW k \in Keys, RangeArrived(k), HasBytes(k),
           NEW j \in Keys', NEW c \in BOOLEAN, Derived(j, k, c), Typed'
    PROVE  /\ c /\ ~SENT => /\ ranges'[j].data_received_count = ranges[k].data_received_count + 1
                            /\ ranges[k].data_received_count + 1 <= recvNo
           /\ ~(c /\ ~SENT) => ranges'[j].data_received_count = ranges[k].data_received_count
<1>1. /\ ranges'[j].data_received_count = Add(ranges[k].data_received_count, c /\ ~SENT)
      /\ c => op = "insert" /\ j = frame.start
      /\ ranges'[j].endSeq <= ranges[k].endSeq /\ j < ranges'[j].endSeq
  BY DEF Derived, Counts
<1>2. CASE c /\ ~SENT
  <2>5. /\ j = frame.start /\ frame.start \in Nat
        /\ ranges'[j].endSeq \in Nat /\ ranges[k].endSeq \in Nat
    BY <1>1, <1>2 DEF StepInv, Typed
  <2>1. ranges[k].endSeq > frame.start
    BY <1>1, <2>5
  <2>2. ranges[k].data_received_count + 1 <= recvNo
    BY <1>1, <1>2, <2>1 DEF RangeArrived
  <2>3. /\ recvNo <= MaxRecv /\ MaxRecv < CounterMod /\ recvNo \in Nat /\ MaxRecv \in Nat
        /\ CounterMod \in Nat /\ ranges[k].data_received_count \in Nat
    BY RangeNumbers, BoundsAssumption, CounterModAssumption DEF ShortTrace, LargestSeen, TypeOK
  <2>6. ranges[k].data_received_count + 1 < CounterMod
    BY <2>2, <2>3
  <2>4. Add(ranges[k].data_received_count, TRUE) = ranges[k].data_received_count + 1
    BY <2>3, <2>6, AddExact
  <2> QED
    BY <1>1, <1>2, <2>2, <2>4
<1>3. CASE ~(c /\ ~SENT)
  BY <1>1, <1>3 DEF Add
<1> QED
  BY <1>2, <1>3

\* A byte that was received stays received.
LEMMA ReceivedPasses ==
    ASSUME ShortTrace, TypeOK, StepInv, Typed', LargestSeen, Holds, AllDerived,
           \A k \in Keys : RangeArrived(k), NEW x \in Nat, ByteReceived(x)
    PROVE  ByteReceived(x)'
<1>1. PICK k \in Keys : Covers(k, x) /\ ranges[k].data_received_count # 0
  BY DEF ByteReceived
<1>2. PICK j \in Keys', c \in BOOLEAN : Covers(j, x)' /\ Derived(j, k, c)
  BY <1>1, MadeFrom
<1>3. HasBytes(k)
  BY <1>1 DEF StepInv, Typed, Covers, HasBytes
<1>4. \/ ranges'[j].data_received_count = ranges[k].data_received_count + 1
      \/ ranges'[j].data_received_count = ranges[k].data_received_count
  BY <1>2, <1>3, ReceptionsExact
<1>5. ranges'[j].data_received_count # 0
  BY <1>1, <1>4, RangeNumbers
<1> QED
  BY <1>2, <1>5 DEF ByteReceived

-----------------------------------------------------------------------------
(* The steps of insertByteRange and processAck. *)

\* The byte at which a call starts is registered with the segment in hand.
LEMMA StartRegistered ==
    ASSUME TypeOK, StepInv, Typed', AllDerived, NEW upTo \in Nat, Moves(upTo),
           op = "insert", ~ZeroLength, NEW a, a = frame.start,
           NEW x \in Nat, a <= x, x < upTo
    PROVE  \E k \in Keys : /\ Covers(a, x)' /\ Covers(k, x) /\ HasBytes(k)
                           /\ a \in Keys' /\ Derived(a, k, TRUE)
<1>1. a \in Keys' /\ ranges'[a].endSeq = upTo /\ a < upTo
  BY DEF Moves
<1>2. PICK k \in Keys, c \in BOOLEAN : Derived(a, k, c)
  BY <1>1 DEF AllDerived
<1>3. HasBytes(k)
  BY <1>1, <1>2 DEF Derived
<1>4. c
  BY <1>2, <1>3 DEF Derived
<1>5. Covers(a, x)'
  BY <1>1 DEF Covers
<1>6. Covers(k, x)
  <2>1. k \in Nat /\ ranges[k].endSeq \in Nat /\ a \in Nat
    BY DEF StepInv, Typed
  <2>2. k <= a /\ upTo <= ranges[k].endSeq
    BY <1>1, <1>2, <2>1 DEF Derived
  <2> QED
    BY <2>1, <2>2 DEF Covers
<1>7. c = TRUE
  BY <1>4
<1> QED
  BY <1>1, <1>2, <1>3, <1>5, <1>6, <1>7

\* What is known of a byte in the network stays known.
LEMMA KnownPasses ==
    ASSUME TypeOK, StepInv, Typed', Holds, AllDerived, NEW upTo \in Nat, Moves(upTo),
           NEW p, p.seq \in Nat, TransmissionKnown(p)
    PROVE  TransmissionKnown(p)'
<1>1. ASSUME NEW k \in Keys, Covers(k, p.seq), SentWith(k, p.ts) PROVE TransmissionKnown(p)'
  BY <1>1, SentWithPasses DEF TransmissionKnown
<1>2. ASSUME Sending(p.seq), p.ts = tstamp_tcp(seg.time) PROVE TransmissionKnown(p)'
  <2>1. /\ op = "insert" /\ SENT /\ ~ZeroLength /\ frame.start <= p.seq /\ p.seq < frame.end
    BY <1>2 DEF Sending, Inserting
  <2>2. CASE p.seq < upTo
    <3>1. PICK a : a = frame.start
      OBVIOUS
    <3>2. PICK k \in Keys : Covers(a, p.seq)' /\ a \in Keys' /\ Derived(a, k, TRUE)
      BY <2>1, <2>2, <3>1, StartRegistered
    <3>3. SendingsFrom(ranges'[a].sent_tstamp_pcap, ranges[k].sent_tstamp_pcap, TRUE /\ SENT)
      BY <3>2 DEF Derived, Counts
    <3>4. \E t \in Sendings(ranges'[a].sent_tstamp_pcap) : t.time = seg.time
      BY <2>1, <3>3 DEF SendingsFrom
    <3>5. SentWith(a, p.ts)'
      BY <1>2, <3>4 DEF SentWith
    <3> QED
      BY <3>2, <3>5 DEF TransmissionKnown
  <2>3. CASE upTo <= p.seq
    <3>1. frame.end \in Nat /\ upTo # frame.end
      BY <2>1, <2>3 DEF StepInv, Typed
    <3>2. /\ op' = "insert" /\ UNCHANGED seg /\ frame'.itype = frame.itype
          /\ frame'.start = upTo /\ frame'.end = frame.end /\ upTo < frame.end
      BY <2>1, <3>1 DEF Moves
    <3>3. Sending(p.seq)'
      BY <2>1, <2>3, <3>1, <3>2 DEF Sending, Inserting, SENT, ZeroLength
    <3> QED
      BY <1>2, <3>2, <3>3 DEF TransmissionKnown
  <2> QED
    BY <2>2, <2>3
<1> QED
  BY <1>1, <1>2 DEF TransmissionKnown

\* What is known of a byte that has arrived stays known.
LEMMA ArrivalPasses ==
    ASSUME ShortTrace, TypeOK, StepInv, Typed', LargestSeen, Holds, AllDerived,
           NEW upTo \in Nat, Moves(upTo),
           \A k \in Keys : RangeArrived(k), NEW p, p.seq \in Nat, ArrivalKnown(p)
    PROVE  ArrivalKnown(p)'
<1>1. CASE ByteReceived(p.seq)
  BY <1>1, ReceivedPasses DEF ArrivalKnown
<1>2. ASSUME Receiving(p.seq), p.ts = seg.tstamp_tcp PROVE ArrivalKnown(p)'
  <2>1. /\ op = "insert" /\ ~SENT /\ frame.start <= p.seq /\ p.seq < frame.end /\ ~ZeroLength
    BY <1>2 DEF Receiving, StepInv, Typed, ZeroLength
  <2>2. CASE p.seq < upTo
    <3>1. PICK a : a = frame.start
      OBVIOUS
    <3>2. PICK k \in Keys : Covers(a, p.seq)' /\ a \in Keys' /\ HasBytes(k) /\ Derived(a, k, TRUE)
      BY <2>1, <2>2, <3>1, StartRegistered
    <3>3. ranges'[a].data_received_count = ranges[k].data_received_count + 1
      BY <2>1, <3>2, ReceptionsExact
    <3>4. ranges'[a].data_received_count # 0
      BY <3>3, RangeNumbers
    <3> QED
      BY <3>2, <3>4 DEF ArrivalKnown, ByteReceived
  <2>3. CASE upTo <= p.seq
    <3>1. frame.end \in Nat /\ upTo # frame.end
      BY <2>1, <2>3 DEF StepInv, Typed
    <3>2. /\ op' = "insert" /\ UNCHANGED seg /\ frame'.itype = frame.itype
          /\ frame'.start = upTo /\ frame'.end = frame.end /\ upTo < frame.end
      BY <2>1, <3>1 DEF Moves
    <3> QED
      BY <1>2, <2>1, <2>3, <3>2 DEF ArrivalKnown, Receiving, SENT
  <2> QED
    BY <2>2, <2>3
<1> QED
  BY <1>1, <1>2 DEF ArrivalKnown

\* A range received has the timestamp with which its bytes arrived, if the one
\* it was made from has, and if the segment in hand brought its bytes first.
LEMMA StampPasses ==
    ASSUME ShortTrace, TypeOK, StepInv, Typed', LargestSeen, SegmentArrived,
           NEW upTo \in Nat, Moves(upTo),
           NEW j \in Keys', NEW k \in Keys, NEW c \in BOOLEAN, Derived(j, k, c), HasBytes(k),
           RangeArrived(k),
           ranges'[j].data_received_count # 0,
           NEW x \in Nat, j <= x, x < ranges'[j].endSeq
    PROVE  [seq |-> x, ts |-> ranges'[j].received_tstamp_tcp] \in arrived
<1>1. /\ k <= j /\ ranges'[j].endSeq <= ranges[k].endSeq
      /\ k \in Nat /\ j \in Nat /\ ranges[k].endSeq \in Nat /\ ranges'[j].endSeq \in Nat
  <2>1. (j = k \/ k < j) /\ ranges'[j].endSeq <= ranges[k].endSeq
    BY DEF Derived
  <2>2. k \in Nat /\ ranges[k].endSeq \in Nat
    BY DEF StepInv, Typed
  <2>3. j \in Nat /\ ranges'[j].endSeq \in Nat
    BY DEF Typed
  <2> QED
    BY <2>1, <2>2, <2>3
<1>2. Covers(k, x) /\ x \in k .. ranges[k].endSeq - 1
  BY <1>1 DEF Covers
<1>3. ranges'[j].received_tstamp_tcp =
        IF c /\ ~SENT /\ ranges[k].data_received_count = 0
        THEN seg.tstamp_tcp ELSE ranges[k].received_tstamp_tcp
  BY DEF Derived, Counts
<1>4. CASE c /\ ~SENT /\ ranges[k].data_received_count = 0
  <2>1. /\ op = "insert" /\ ~ZeroLength /\ j = frame.start /\ ranges'[j].endSeq = upTo
        /\ upTo <= frame.end
    BY <1>4 DEF Derived, Moves
  <2>2. base <= frame.start /\ frame.end <= nxt /\ base \in Nat /\ nxt \in Nat /\ frame.end \in Nat
    BY <2>1 DEF StepInv, CallInStream, Typed
  <2>3. x \in base .. nxt - 1 /\ frame.start <= x /\ x < frame.end
    BY <1>1, <2>1, <2>2
  <2>4. Receiving(x)
    BY <1>4, <2>1, <2>3 DEF Receiving
  <2>5. ~ByteReceived(x)
    BY <1>2, <1>4, OneHolder DEF ByteReceived
  <2> QED
    BY <1>3, <1>4, <2>3, <2>4, <2>5 DEF SegmentArrived
<1>5. CASE ~(c /\ ~SENT /\ ranges[k].data_received_count = 0)
  <2>1. ranges[k].data_received_count # 0
    BY <1>5, ReceptionsExact
  <2> QED
    BY <1>2, <1>3, <1>5, <2>1 DEF RangeArrived
<1> QED
  BY <1>4, <1>5

\* Neither does a range count more segments than there were.
LEMMA BoundPasses ==
    ASSUME ShortTrace, TypeOK, StepInv, Typed', LargestSeen, Fixed,
           NEW upTo \in Nat, Moves(upTo),
           NEW j \in Keys', NEW k \in Keys, NEW c \in BOOLEAN, Derived(j, k, c), HasBytes(k),
           RangeArrived(k)
    PROVE  ranges'[j].data_received_count
             + (IF op' = "insert" /\ ~SENT' /\ ranges'[j].endSeq > frame'.start THEN 1 ELSE 0)
               <= recvNo'
<1>1. /\ k <= j /\ ranges'[j].endSeq <= ranges[k].endSeq
      /\ k \in Nat /\ j \in Nat /\ ranges[k].endSeq \in Nat /\ ranges'[j].endSeq \in Nat
      /\ frame.start \in Nat /\ recvNo' = recvNo /\ recvNo \in Nat
      /\ ranges[k].data_received_count \in Nat
  BY RangeNumbers DEF Derived, StepInv, Typed, Fixed, envVars, TypeOK
<1>2. CASE c /\ ~SENT
  <2>1. /\ op = "insert" /\ ~ZeroLength /\ j = frame.start /\ ranges'[j].endSeq = upTo
    BY <1>2 DEF Derived, Moves
  <2>2. ~(op' = "insert" /\ ranges'[j].endSeq > frame'.start)
    BY <1>1, <2>1 DEF Moves
  <2>3. /\ ranges'[j].data_received_count = ranges[k].data_received_count + 1
        /\ ranges[k].data_received_count + 1 <= recvNo
    BY <1>2, ReceptionsExact
  <2> QED
    BY <1>1, <2>2, <2>3
<1>3. CASE ~(c /\ ~SENT)
  <2>1. ranges'[j].data_received_count = ranges[k].data_received_count
    BY <1>3, ReceptionsExact
  <2>2. ASSUME op' = "insert", ~SENT', ranges'[j].endSeq > frame'.start
        PROVE  op = "insert" /\ ~SENT /\ ranges[k].endSeq > frame.start
    <3>1. /\ op = "insert" /\ frame'.itype = frame.itype /\ frame'.start = upTo
          /\ frame.start < upTo
      BY <2>2 DEF Moves
    <3>2. ranges[k].endSeq > frame.start
      BY <1>1, <2>2, <3>1
    <3> QED
      BY <2>2, <3>1, <3>2 DEF SENT
  <2>3. ranges[k].data_received_count
          + (IF op = "insert" /\ ~SENT /\ ranges[k].endSeq > frame.start THEN 1 ELSE 0) <= recvNo
    BY DEF RangeArrived
  <2> QED
    BY <1>1, <2>1, <2>2, <2>3
<1> QED
  BY <1>2, <1>3

\* Only a bundle adds bundled transmissions.
LEMMA RegularPasses ==
    ASSUME Fixed, SegmentClassified, NEW k \in Keys, Regular(k), NEW j \in Keys',
           NEW c \in BOOLEAN, Counts(ranges'[j], ranges[k], c), conn.bundleCount \in Nat
    PROVE  Regular(j)'
<1>1. conn' = conn
  BY DEF Fixed
<1> SUFFICES ASSUME conn.bundleCount = 0, NEW t \in Sendings(ranges'[j].sent_tstamp_pcap)
             PROVE  ~t.rdb
  BY <1>1 DEF Regular
<1>2. ~seg.is_rdb
  BY DEF SegmentClassified
<1>3. t \in Sendings(ranges[k].sent_tstamp_pcap) \/ ~t.rdb
  BY <1>2 DEF Counts, SendingsFrom
<1> QED
  BY <1>3 DEF Regular

\* A step that makes every range from another one keeps ArrivalInv.
LEMMA DerivedKeepsArrival ==
    ASSUME ShortTrace, TypeOK, StepInv, Typed', TallyInv, ArrivalInv, Fixed, Holds, AllDerived,
           NEW upTo \in Nat, Moves(upTo)
    PROVE  ArrivalInv'
<1>1. /\ UNCHANGED <<base, nxt, tcp, recvNo, wire, arrived>>
      /\ wire \subseteq StampedBytes /\ arrived \subseteq StampedBytes
      /\ conn.bundleCount \in Nat /\ LargestSeen /\ SegmentClassified
  BY DEF Fixed, envVars, TypeOK, TallyInv, ConnCounters
<1>2. /\ \A p \in wire \cup arrived : InStream(p) => TransmissionKnown(p)
      /\ \A p \in arrived : InStream(p) => ArrivalKnown(p)
      /\ SegmentArrived
      /\ \A k \in Keys : RangeArrived(k)
      /\ \A k \in Keys : Regular(k)
      /\ tcp = "open" => \A p \in wire : p.seq < nxt
  BY DEF ArrivalInv
<1>3. ASSUME NEW p \in wire' \cup arrived', InStream(p)' PROVE TransmissionKnown(p)'
  <2>1. p \in wire \cup arrived /\ InStream(p) /\ p.seq \in Nat
    BY <1>1, <1>3 DEF InStream, StampedBytes
  <2> QED
    BY <1>2, <2>1, KnownPasses
<1>4. ASSUME NEW p \in arrived', InStream(p)' PROVE ArrivalKnown(p)'
  <2>1. p \in arrived /\ InStream(p) /\ p.seq \in Nat
    BY <1>1, <1>4 DEF InStream, StampedBytes
  <2>2. ArrivalKnown(p)
    BY <1>2, <2>1
  <2> QED
    BY <1>1, <1>2, <2>1, <2>2, ArrivalPasses
<1>5. SegmentArrived'
  <2> SUFFICES ASSUME NEW x \in base .. nxt - 1, Receiving(x)'
               PROVE  [seq |-> x, ts |-> seg'.tstamp_tcp] \in arrived' \/ ByteReceived(x)'
    BY <1>1 DEF SegmentArrived
  <2>1. /\ op' = "insert" /\ ~SENT' /\ frame'.start <= x /\ x < frame'.end
    BY DEF Receiving
  <2>2. /\ op = "insert" /\ ~ZeroLength /\ UNCHANGED seg /\ frame'.itype = frame.itype
        /\ frame'.start = upTo /\ frame'.end = frame.end /\ frame.start < upTo
    BY <2>1 DEF Moves
  <2>3. x \in Nat /\ frame.start \in Nat
    BY DEF StepInv, Typed
  <2>4. Receiving(x)
    BY <2>1, <2>2, <2>3 DEF Receiving, SENT
  <2>5. [seq |-> x, ts |-> seg.tstamp_tcp] \in arrived \/ ByteReceived(x)
    BY <1>2, <2>4 DEF SegmentArrived
  <2> QED
    BY <1>1, <1>2, <2>2, <2>3, <2>5, ReceivedPasses
<1>6. ASSUME NEW j \in Keys' PROVE RangeArrived(j)' /\ Regular(j)'
  <2>1. PICK k \in Keys, c \in BOOLEAN : Derived(j, k, c)
    BY DEF AllDerived
  <2>2. RangeArrived(k) /\ Regular(k)
    BY <1>2
  <2>3. Regular(j)'
    BY <1>1, <2>1, <2>2, RegularPasses DEF Derived
  <2>4. ASSUME HasBytes(j)'
        PROVE  /\ ranges'[j].data_received_count # 0 =>
                    \A x \in j .. ranges'[j].endSeq - 1 :
                      [seq |-> x, ts |-> ranges'[j].received_tstamp_tcp] \in arrived'
               /\ ranges'[j].data_received_count
                    + (IF op' = "insert" /\ ~SENT' /\ ranges'[j].endSeq > frame'.start THEN 1 ELSE 0)
                      <= recvNo'
    <3>1. HasBytes(k) /\ j \in Nat /\ ranges'[j].endSeq \in Nat
      BY <2>1, <2>4 DEF Derived, HasBytes, Typed
    <3>2. ASSUME ranges'[j].data_received_count # 0, NEW x \in j .. ranges'[j].endSeq - 1
          PROVE  [seq |-> x, ts |-> ranges'[j].received_tstamp_tcp] \in arrived'
      <4>1. x \in Nat /\ j <= x /\ x < ranges'[j].endSeq
        BY <3>1
      <4> QED
        BY <1>1, <1>2, <2>1, <2>2, <3>1, <3>2, <4>1, StampPasses
    <3> QED
      BY <1>1, <2>1, <2>2, <3>1, <3>2, BoundPasses
  <2>5. RangeArrived(j)'
    BY <2>4 DEF RangeArrived
  <2> QED
    BY <2>3, <2>5
<1> QED
  BY <1>1, <1>2, <1>3, <1>4, <1>5, <1>6 DEF ArrivalInv

\* Registering bytes of a segment makes every range from another one.
LEMMA RegistersKeepsArrival ==
    ASSUME ShortTrace, TypeOK, StepInv, Typed', TallyInv, ArrivalInv, Fixed,
           NEW upTo \in Nat, Registers(upTo),
           (upTo = frame.end /\ Return) \/ (upTo < frame.end /\ Recurse(upTo))
    PROVE  ArrivalInv'
<1>1. /\ op = "insert" /\ ~ZeroLength /\ frame.start < upTo /\ upTo <= frame.end
      /\ Holds /\ frame.start \in Keys' /\ ranges'[frame.start].endSeq = upTo
      /\ \A j \in Keys' : \E k \in Keys :
           PartOf(j, k) /\ Counts(ranges'[j], ranges[k], j = frame.start)
  BY DEF Registers
<1>2. AllDerived
  <2> SUFFICES ASSUME NEW j \in Keys' PROVE \E k \in Keys, c \in BOOLEAN : Derived(j, k, c)
    BY DEF AllDerived
  <2>1. PICK k \in Keys : PartOf(j, k) /\ Counts(ranges'[j], ranges[k], j = frame.start)
    BY <1>1
  <2>2. ASSUME NEW c \in BOOLEAN, c = (j = frame.start) PROVE Derived(j, k, c)
    BY <1>1, <2>1, <2>2 DEF Derived, PartOf
  <2>3. (j = frame.start) \in BOOLEAN
    OBVIOUS
  <2> QED
    BY <2>2, <2>3
<1>3. Moves(upTo)
  <2>1. CASE upTo = frame.end /\ Return
    BY <1>1, <2>1 DEF Moves, Return
  <2>2. CASE upTo < frame.end /\ Recurse(upTo)
    <3>1. frame \in Frames
      BY DEF TypeOK, rmTypeOK
    <3>2. /\ frame'.start = upTo /\ frame'.end = frame.end /\ frame'.itype = frame.itype
          /\ UNCHANGED <<op, seg>>
      BY <2>2, <3>1 DEF Recurse, Frames
    <3> QED
      BY <1>1, <2>2, <3>2 DEF Moves
  <2> QED
    BY <2>1, <2>2
<1> QED
  BY <1>1, <1>2, <1>3, DerivedKeepsArrival

\* So does a turn of processAck's loop.
LEMMA AckKeepsArrival ==
    ASSUME ShortTrace, TypeOK, StepInv, Typed', AckInv, TallyInv, ArrivalInv, Fixed, processAck
    PROVE  ArrivalInv'
<1>1. Marks /\ op = "ack" /\ op' # "insert"
  BY AckStepKeepsAcks
<1>2. AllDerived
  <2> SUFFICES ASSUME NEW j \in Keys' PROVE \E k \in Keys, c \in BOOLEAN : Derived(j, k, c)
    BY DEF AllDerived
  <2>1. PICK k \in Keys : AckPart(j, k)
    BY <1>1 DEF Marks
  <2>2. Derived(j, k, FALSE)
    BY <1>1, <2>1 DEF Derived, AckPart
  <2> QED
    BY <2>2
<1>3. Moves(0)
  BY <1>1 DEF Moves
<1>4. Holds
  BY <1>1 DEF Marks
<1> QED
  BY <1>2, <1>3, <1>4, DerivedKeepsArrival

\* A SYN, FIN or RST has a sequence number of its own, not that of a byte.
LEMMA FlagsHaveNoBytes ==
    ASSUME TypeOK, StepInv, op = "insert", ZeroLength, seg.flag # "none", CallInv,
           frame.start \in Keys
    PROVE  ~HasBytes(frame.start)
<1>1. /\ base \in Nat /\ nxt \in Nat /\ frame.start \in Nat
      /\ ranges[frame.start].endSeq \in Nat
  BY DEF StepInv, Typed
<1>2. SUFFICES ASSUME HasBytes(frame.start) PROVE FALSE
  OBVIOUS
<1>3. base <= frame.start
  BY <1>2, CallParts DEF SoundRange
<1>4. ranges[frame.start].endSeq <= nxt
  BY <1>2 DEF StepInv, RangesInStream, HasBytes
<1>5. ~(frame.start < nxt)
  BY <1>3, FlagsUncounted
<1> QED
  BY <1>1, <1>2, <1>4, <1>5 DEF HasBytes

\* A segment without payload at a range is not counted for its bytes.
LEMMA UpdateKeepsArrival ==
    ASSUME ShortTrace, TypeOK, StepInv, Typed', EverySent, CallInv, TallyInv, ArrivalInv, Fixed,
           UpdateZeroLength
    PROVE  ArrivalInv'
<1> DEFINE z == start_seq
<1>1. /\ op = "insert" /\ ZeroLength /\ Return /\ z \in Keys /\ Keys' = Keys
      /\ \A k \in Keys : k # z => ranges'[k] = ranges[k]
      /\ ranges'[z].endSeq = ranges[z].endSeq
      /\ Counts(ranges'[z], ranges[z], seg.flag \in {"syn", "fin"})
  BY UpdateZeroLengthHistory
<1>2. seg.flag \in {"syn", "fin"} => ~HasBytes(z)
  <2>1. seg.flag \in {"syn", "fin"} => z = frame.start /\ seg.flag # "none"
    BY DEF start_seq
  <2> QED
    BY <1>1, <2>1, FlagsHaveNoBytes
<1> HIDE DEF z
<1>3. AllDerived
  <2> SUFFICES ASSUME NEW j \in Keys PROVE \E c \in BOOLEAN : Derived(j, j, c)
    BY <1>1 DEF AllDerived
  <2>1. ranges[j].endSeq \in Nat /\ ranges[j].sent_tstamp_pcap # <<>>
    BY DEF StepInv, Typed, EverySent
  <2>2. CASE j # z
    <3>1. PartOf(j, j) /\ Counts(ranges'[j], ranges[j], FALSE)
      BY <1>1, <2>1, <2>2, PartOfItself
    <3>2. Derived(j, j, FALSE)
      BY <1>1, <3>1 DEF Derived, PartOf
    <3> QED
      BY <3>2
  <2>3. CASE j = z
    <3>1. ASSUME NEW c \in BOOLEAN, c = (seg.flag \in {"syn", "fin"}) PROVE Derived(j, j, c)
      <4>1. Counts(ranges'[j], ranges[j], c) /\ ranges'[j].endSeq = ranges[j].endSeq
        BY <1>1, <2>3, <3>1
      <4>2. HasBytes(j) => ~c
        BY <1>2, <2>3, <3>1
      <4> QED
        BY <1>1, <2>1, <4>1, <4>2 DEF Derived, HasBytes
    <3>2. (seg.flag \in {"syn", "fin"}) \in BOOLEAN
      OBVIOUS
    <3> QED
      BY <3>1, <3>2
  <2> QED
    BY <2>2, <2>3
<1>4. Holds
  BY <1>1 DEF Holds, Covers
<1>5. Moves(0)
  BY <1>1 DEF Moves, Return
<1> QED
  BY <1>3, <1>4, <1>5, DerivedKeepsArrival

\* A step that leaves the ranges with bytes alone, and has no byte in hand.
LEMMA SteadyKeepsArrival ==
    ASSUME TypeOK, Typed, Typed', ArrivalInv,
           UNCHANGED <<base, nxt, tcp, recvNo, wire, arrived>>,
           op = "insert" => ZeroLength, op' # "insert",
           \A k \in Keys : HasBytes(k) => k \in Keys' /\ ranges'[k] = ranges[k],
           \A j \in Keys' : Regular(j)' /\ (HasBytes(j)' => j \in Keys /\ HasBytes(j))
    PROVE  ArrivalInv'
<1>1. /\ \A p \in wire \cup arrived : InStream(p) => TransmissionKnown(p)
      /\ \A p \in arrived : InStream(p) => ArrivalKnown(p)
      /\ \A k \in Keys : RangeArrived(k)
      /\ tcp = "open" => \A p \in wire : p.seq < nxt
  BY DEF ArrivalInv
<1>2. wire \subseteq StampedBytes /\ arrived \subseteq StampedBytes
  BY DEF TypeOK
<1>3. ASSUME NEW x \in Nat, NEW k \in Keys, Covers(k, x)
      PROVE  k \in Keys' /\ ranges'[k] = ranges[k] /\ Covers(k, x)'
  <2>1. HasBytes(k)
    BY <1>3 DEF Typed, Covers, HasBytes
  <2> QED
    BY <1>3, <2>1 DEF Covers
<1>4. ASSUME NEW x \in Nat PROVE ~Sending(x) /\ ~Receiving(x)
  BY DEF Sending, Receiving, Inserting, ZeroLength, Typed
<1>5. ASSUME NEW p \in wire' \cup arrived', InStream(p)' PROVE TransmissionKnown(p)'
  <2>1. p \in wire \cup arrived /\ InStream(p) /\ p.seq \in Nat
    BY <1>2, <1>5 DEF InStream, StampedBytes
  <2>2. PICK k \in Keys : Covers(k, p.seq) /\ SentWith(k, p.ts)
    BY <1>1, <1>4, <2>1 DEF TransmissionKnown
  <2>3. k \in Keys' /\ ranges'[k] = ranges[k] /\ Covers(k, p.seq)'
    BY <1>3, <2>1, <2>2
  <2>4. SentWith(k, p.ts)'
    BY <2>2, <2>3 DEF SentWith
  <2> QED
    BY <2>3, <2>4 DEF TransmissionKnown
<1>6. ASSUME NEW p \in arrived', InStream(p)' PROVE ArrivalKnown(p)'
  <2>1. p \in arrived /\ InStream(p) /\ p.seq \in Nat
    BY <1>2, <1>6 DEF InStream, StampedBytes
  <2>2. PICK k \in Keys : Covers(k, p.seq) /\ ranges[k].data_received_count # 0
    BY <1>1, <1>4, <2>1 DEF ArrivalKnown, ByteReceived
  <2> QED
    BY <1>3, <2>1, <2>2 DEF ArrivalKnown, ByteReceived
<1>7. SegmentArrived'
  BY DEF SegmentArrived, Receiving
<1>8. ASSUME NEW j \in Keys' PROVE RangeArrived(j)'
  <2> SUFFICES ASSUME HasBytes(j)' PROVE RangeArrived(j)'
    BY DEF RangeArrived
  <2>1. j \in Keys /\ HasBytes(j) /\ ranges'[j] = ranges[j] /\ RangeArrived(j)
    BY <1>1
  <2>2. ranges[j].data_received_count \in Nat /\ recvNo \in Nat
    BY <2>1, RangeNumbers DEF TypeOK
  <2>3. ranges[j].data_received_count <= recvNo
    BY <2>1, <2>2 DEF RangeArrived
  <2>4. ranges[j].data_received_count + 0 <= recvNo
    BY <2>2, <2>3
  <2> QED
    BY <2>1, <2>4 DEF RangeArrived
<1> QED
  BY <1>1, <1>5, <1>6, <1>7, <1>8 DEF ArrivalInv

\* A segment without payload that opens a range leaves the bytes alone.
LEMMA InsertKeepsArrival ==
    ASSUME TypeOK, StepInv, Typed', EverySent, TallyInv, ArrivalInv, Fixed, InsertZeroLength
    PROVE  ArrivalInv'
<1> DEFINE z == frame.start
           r == ranges'[z]
<1>1. /\ op = "insert" /\ ZeroLength /\ Return /\ z \notin Keys /\ Keys' = Keys \cup {z}
      /\ \A k \in Keys : ranges'[k] = ranges[k]
      /\ r.endSeq = z
      /\ \A u \in Sendings(r.sent_tstamp_pcap) : ~u.rdb \/ seg.is_rdb
  BY InsertZeroLengthHistory
<1>2. /\ UNCHANGED <<base, nxt, tcp, recvNo, wire, arrived, conn>>
      /\ conn.bundleCount \in Nat /\ SegmentClassified
      /\ z \in Nat /\ op' # "insert" /\ Typed
  BY <1>1 DEF Fixed, envVars, TypeOK, ConnCounters, TallyInv, StepInv, Typed, Return
<1>3. conn.bundleCount = 0 => ~seg.is_rdb
  BY <1>2 DEF SegmentClassified
<1> HIDE DEF z
<1>4. ASSUME NEW j \in Keys' PROVE Regular(j)' /\ (HasBytes(j)' => j \in Keys /\ HasBytes(j))
  <2>1. CASE j = z
    BY <1>1, <1>2, <1>3, <2>1 DEF Regular, HasBytes
  <2>2. CASE j # z
    <3>1. j \in Keys /\ ranges'[j] = ranges[j] /\ Regular(j)
      BY <1>1, <2>2 DEF ArrivalInv
    <3> QED
      BY <1>2, <3>1 DEF Regular, HasBytes
  <2> QED
    BY <2>1, <2>2
<1> QED
  BY <1>1, <1>2, <1>4, SteadyKeepsArrival

\* A range that is opened holds the bytes of the segment in hand; nothing has
\* been received by then.
LEMMA OpensKeepsArrival ==
    ASSUME TypeOK, StepInv, Typed', CallInv, TallyInv, ArrivalInv, Fixed, Opens
    PROVE  ArrivalInv'
<1> SUFFICES ASSUME NEW a, a = frame.start PROVE ArrivalInv'
  OBVIOUS
<1> DEFINE r == ranges'[a]
<1>1. /\ op = "insert" /\ ~ZeroLength /\ SENT /\ Return /\ Keys' = Keys \cup {a}
      /\ \A k \in Keys : ranges[k].endSeq <= a /\ (k # a => ranges'[k] = ranges[k])
      /\ r.endSeq = frame.end
      /\ \E t \in Sendings(r.sent_tstamp_pcap) : t.time = seg.time
      /\ \A t \in Sendings(r.sent_tstamp_pcap) :
           ~t.rdb \/ seg.is_rdb \/ (a \in Keys /\ t \in Sendings(ranges[a].sent_tstamp_pcap))
      /\ r.data_received_count = 0 \/ (a \in Keys /\ r.data_received_count = ranges[a].data_received_count)
  BY DEF Opens
<1>2. /\ UNCHANGED <<base, nxt, tcp, recvNo, wire, arrived, conn>>
      /\ conn.bundleCount \in Nat /\ SegmentClassified
      /\ a \in Nat /\ frame.end \in Nat /\ op' = "idle" /\ recvNo \in Nat
      /\ wire \subseteq StampedBytes
  BY <1>1 DEF Fixed, envVars, TypeOK, ConnCounters, TallyInv, StepInv, Typed, Return
<1>3. phase = "sent" /\ arrived = {} /\ r.data_received_count = 0
      /\ \A k \in Keys : ranges[k].data_received_count = 0
  <2>1. phase = "sent"
    BY <1>1 DEF StepInv, CallInStream
  <2>2. arrived = {} /\ \A k \in Keys : ranges[k].data_received_count = 0
    BY <2>1 DEF CallInv, Timestamped, EmptyUncounted
  <2> QED
    BY <1>1, <2>1, <2>2
<1>4. /\ \A p \in wire : InStream(p) => TransmissionKnown(p)
      /\ \A k \in Keys : Regular(k)
      /\ tcp = "open" => \A p \in wire : p.seq < nxt
  BY DEF ArrivalInv
<1>5. ASSUME NEW p \in wire', InStream(p)' PROVE TransmissionKnown(p)'
  <2>1. p \in wire /\ InStream(p) /\ p.seq \in Nat
    BY <1>2, <1>5 DEF InStream, StampedBytes
  <2>2. CASE Sending(p.seq) /\ p.ts = tstamp_tcp(seg.time)
    <3>1. a <= p.seq /\ p.seq < r.endSeq
      BY <1>1, <2>2 DEF Sending
    <3>2. Covers(a, p.seq)' /\ SentWith(a, p.ts)' /\ a \in Keys'
      BY <1>1, <2>2, <3>1 DEF Covers, SentWith
    <3> QED
      BY <3>2 DEF TransmissionKnown
  <2>3. ASSUME NEW k \in Keys, Covers(k, p.seq), SentWith(k, p.ts) PROVE TransmissionKnown(p)'
    <3>1. k # a
      <4>1. ranges[k].endSeq <= a /\ k < ranges[k].endSeq /\ k \in Nat /\ ranges[k].endSeq \in Nat
        BY <1>1, <2>1, <2>3 DEF Covers, StepInv, Typed
      <4> QED
        BY <1>2, <4>1
    <3>2. k \in Keys' /\ ranges'[k] = ranges[k]
      BY <1>1, <3>1
    <3>3. Covers(k, p.seq)' /\ SentWith(k, p.ts)'
      BY <2>3, <3>2 DEF Covers, SentWith
    <3> QED
      BY <3>2, <3>3 DEF TransmissionKnown
  <2> QED
    BY <1>4, <2>1, <2>2, <2>3 DEF TransmissionKnown
<1>6. ASSUME NEW j \in Keys' PROVE RangeArrived(j)' /\ Regular(j)'
  <2>1. ranges'[j].data_received_count = 0
    BY <1>1, <1>3
  <2>2. 0 + 0 <= recvNo
    BY <1>2
  <2>3. RangeArrived(j)'
    BY <1>2, <2>1, <2>2 DEF RangeArrived
  <2>4. conn.bundleCount = 0 => ~seg.is_rdb
    BY <1>2 DEF SegmentClassified
  <2>5. ASSUME conn.bundleCount = 0, NEW t \in Sendings(ranges'[j].sent_tstamp_pcap) PROVE ~t.rdb
    BY <1>1, <1>4, <2>4, <2>5 DEF Regular
  <2> QED
    BY <1>2, <2>3, <2>5 DEF Regular
<1> QED
  BY <1>2, <1>3, <1>4, <1>5, <1>6 DEF ArrivalInv, SegmentArrived, Receiving

\* Bundles are counted, and never forgotten.
LEMMA BundlesStay ==
    ASSUME CountersInv, ~conn.closed, op = "idle", SendStep, conn'.bundleCount = 0
    PROVE  conn.bundleCount = 0
<1>1. PICK seq, endSeq \in Nat, flag \in Flags : seq <= endSeq /\ processSent(seq, endSeq, flag)
  BY SendStepCalls
<1>2. conn.bundleCount \in Nat
  BY DEF CountersInv, TypeOK, ConnCounters
<1>3. CASE seq = endSeq
  <2>1. conn'.bundleCount = conn.bundleCount
    BY <1>1, <1>3, EmptyCounted
  <2> QED
    BY <2>1
<1>4. CASE seq # endSeq
  <2>1. seq < endSeq
    BY <1>1, <1>4
  <2>2. conn'.bundleCount \in {conn.bundleCount, conn.bundleCount + 1}
    BY <1>1, <2>1, DataCounted
  <2> QED
    BY <1>2, <2>2
<1> QED
  BY <1>3, <1>4

\* Sending: what is new in the network is the segment in hand.
LEMMA SendsKeepsArrival ==
    ASSUME TypeOK, TypeOK', PartitionInv, PartitionInv', CallInv, ArrivalInv, Sends,
           conn'.bundleCount = 0 => conn.bundleCount = 0
    PROVE  ArrivalInv'
<1> SUFFICES ASSUME NEW m \in Nat, nxt' = m PROVE ArrivalInv'
  BY DEF TypeOK
<1>1. /\ op = "idle" /\ op' = "insert" /\ phase = "sent" /\ frame'.itype = "INSERT_SENT"
      /\ frame'.start = seg'.seq /\ frame'.end = seg'.endSeq
      /\ UNCHANGED <<ranges, base, arrived, recvNo>> /\ seg'.time = clock + 1
      /\ nxt <= m /\ (m # nxt => tcp = "open") /\ (tcp' = "open" => tcp = "open")
      /\ seg'.seq = seg'.endSeq /\ tcp' = "open" =>
            seg'.flag = "none" \/ (base = 1 /\ seg'.seq = 0)
  BY DEF Sends
<1>2. /\ nxt \in Nat /\ base \in Nat /\ base <= nxt /\ recvNo \in Nat
      /\ seg'.seq \in Nat /\ seg'.endSeq \in Nat /\ Keys' = Keys /\ wire' \subseteq StampedBytes
  BY <1>1 DEF TypeOK, rmTypeOK, Segments, PartitionInv, Keys
<1>3. arrived = {} /\ \A k \in Keys : ranges[k].data_received_count = 0
  BY <1>1 DEF CallInv, Timestamped, EmptyUncounted
<1>4. /\ \A p \in wire : InStream(p) => TransmissionKnown(p)
      /\ \A k \in Keys : Regular(k)
      /\ tcp = "open" => \A p \in wire : p.seq < nxt
  BY DEF ArrivalInv
<1>5. \A p \in wire' \ wire :
        /\ p.ts = tstamp_tcp(clock + 1)
        /\ \/ seg'.seq <= p.seq /\ p.seq < seg'.endSeq
           \/ p.seq = seg'.seq /\ seg'.seq = seg'.endSeq /\ seg'.flag \in {"syn", "fin"}
  BY DEF Sends, Transmits
<1>6. ASSUME seg'.seq = seg'.endSeq, base <= seg'.seq, seg'.seq < m PROVE FALSE
  <2>1. ZeroLength'
    BY <1>1, <1>6 DEF ZeroLength
  <2>2. CallInStream'
    BY DEF PartitionInv
  <2>3. \/ seg'.seq = m
        \/ seg'.seq = m + 1
        \/ seg'.seq = 0 /\ base = 1
    BY <1>1, <2>1, <2>2 DEF CallInStream
  <2> QED
    BY <1>2, <1>6, <2>3
<1>7. seg'.seq # seg'.endSeq => seg'.endSeq <= m
  BY <1>1 DEF PartitionInv, CallInStream, ZeroLength
<1>8. ASSUME NEW p \in wire', InStream(p)' PROVE TransmissionKnown(p)'
  <2>1. p.seq \in Nat /\ base <= p.seq /\ p.seq < m
    BY <1>1, <1>2, <1>8 DEF StampedBytes, InStream
  <2>2. CASE p \in wire
    <3>1. p.seq < nxt
      BY <1>1, <1>4, <2>1, <2>2
    <3>2. PICK k \in Keys : Covers(k, p.seq) /\ SentWith(k, p.ts)
      BY <1>1, <1>4, <2>1, <2>2, <3>1 DEF InStream, TransmissionKnown, Sending, Inserting
    <3>3. k \in Keys' /\ Covers(k, p.seq)' /\ SentWith(k, p.ts)'
      BY <1>1, <1>2, <3>2 DEF Covers, SentWith
    <3> QED
      BY <3>3 DEF TransmissionKnown
  <2>3. CASE p \notin wire
    <3>1. seg'.seq <= p.seq /\ p.seq < seg'.endSeq
      BY <1>5, <1>6, <2>1, <2>3
    <3>2. seg'.seq # seg'.endSeq
      BY <1>2, <2>1, <3>1
    <3>3. Sending(p.seq)'
      BY <1>1, <3>1, <3>2 DEF Sending, Inserting, SENT, ZeroLength
    <3>4. p.ts = tstamp_tcp(seg'.time)
      BY <1>1, <1>5, <2>3
    <3> QED
      BY <3>3, <3>4 DEF TransmissionKnown
  <2> QED
    BY <2>2, <2>3
<1>9. ASSUME NEW k \in Keys PROVE RangeArrived(k)' /\ Regular(k)'
  <2>1. SENT' /\ 0 + 0 <= recvNo
    BY <1>1, <1>2 DEF SENT
  <2>2. RangeArrived(k)'
    BY <1>1, <1>3, <2>1 DEF RangeArrived
  <2> QED
    BY <1>1, <1>4, <2>2 DEF Regular
<1>10. ASSUME tcp' = "open", NEW p \in wire' PROVE p.seq < m
  <2>1. p.seq \in Nat
    BY <1>2 DEF StampedBytes
  <2>2. CASE p \in wire
    BY <1>1, <1>2, <1>4, <1>10, <2>1, <2>2
  <2>3. CASE p \notin wire
    <3>1. CASE seg'.seq = seg'.endSeq
      <4>1. p.seq = seg'.seq /\ seg'.flag \in {"syn", "fin"}
        BY <1>2, <1>5, <2>1, <2>3, <3>1
      <4>2. base = 1 /\ p.seq = 0
        BY <1>1, <1>10, <3>1, <4>1
      <4> QED
        BY <1>1, <1>2, <4>2
    <3>2. CASE seg'.seq # seg'.endSeq
      BY <1>2, <1>5, <1>7, <2>1, <2>3, <3>2
    <3> QED
      BY <3>1, <3>2
  <2> QED
    BY <2>2, <2>3
<1>11. SegmentArrived'
  BY <1>1 DEF SegmentArrived, Receiving, SENT
<1> QED
  BY <1>1, <1>2, <1>3, <1>8, <1>9, <1>10, <1>11 DEF ArrivalInv

\* A segment of the receiver's trace: what arrives was sent, and is the first
\* arrival of its bytes unless their ranges have been received.
LEMMA RecvKeepsArrival ==
    ASSUME TypeOK, PartitionInv, ArrivalInv, NEW s \in Nat, NEW n \in Nat,
           NEW flag \in {"none", "syn", "fin"}, NEW ts, processRecvd(s, s + n, flag, ts)
    PROVE  ArrivalInv'
<1> DEFINE e == s + n
           last == IF s = e THEN e + 1 ELSE e
           g == [seq |-> s, endSeq |-> e, flag |-> flag, retrans |-> FALSE,
                 is_rdb |-> FALSE, rdb_end_seq |-> 0,
                 time |-> clock + 1, tstamp_tcp |-> ts]
<1>1. /\ insertReceivedRange(g) /\ wire' \subseteq wire /\ recvNo' = recvNo + 1
      /\ arrived' = arrived \cup {p \in Piece(s, last, ts) : \A a \in arrived : a.seq # p.seq}
      /\ UNCHANGED <<ranges, conn, base, nxt, tcp>>
  BY DEF processRecvd
<1>2. \/ base <= s /\ s < e /\ e <= nxt /\ (Delivers(s, e, ts) \/ Again(s, e, ts))
      \/ s = e /\ s \in {nxt, SndNxt}
      \/ s = e /\ s = 0 /\ base = 1
  BY DEF processRecvd
<1>3. g.seq = s /\ g.endSeq = e /\ g.tstamp_tcp = ts
  OBVIOUS
<1> HIDE DEF g
<1>4. /\ op = "idle" /\ op' = "insert" /\ seg'.tstamp_tcp = ts
      /\ frame'.start = s /\ frame'.end = e /\ frame'.itype = "INSERT_RECV"
  BY <1>1, <1>3 DEF insertReceivedRange, Call
<1>5. /\ nxt \in Nat /\ base \in Nat /\ e \in Nat /\ recvNo \in Nat
      /\ SndNxt = nxt \/ SndNxt = nxt + 1
      /\ wire \subseteq StampedBytes /\ arrived \subseteq StampedBytes /\ base <= nxt
      /\ Keys' = Keys /\ ~SENT'
  BY <1>1, <1>4 DEF TypeOK, PartitionInv, SndNxt, Keys, SENT
<1>6. /\ \A p \in wire \cup arrived : InStream(p) => TransmissionKnown(p)
      /\ \A p \in arrived : InStream(p) => ArrivalKnown(p)
      /\ \A k \in Keys : RangeArrived(k) /\ Regular(k)
      /\ tcp = "open" => \A p \in wire : p.seq < nxt
  BY DEF ArrivalInv
<1>7. ASSUME NEW p \in Piece(s, last, ts), InStream(p)
      PROVE  /\ p.seq \in Nat /\ p.ts = ts /\ s <= p.seq /\ p.seq < e
             /\ p \in wire \cup arrived
  <2>1. PICK x \in s .. last - 1 : p = [seq |-> x, ts |-> ts]
    BY DEF Piece
  <2>2. p.seq = x /\ p.ts = ts /\ x \in Nat /\ base <= x /\ x < nxt
    BY <1>7, <2>1 DEF InStream
  <2>3. s < e
    BY <1>2, <1>5, <2>1, <2>2
  <2>4. last = e /\ x < e /\ s <= x
    BY <1>5, <2>1, <2>3
  <2>5. Piece(s, e, ts) \subseteq wire \/ Piece(s, e, ts) \subseteq arrived
    BY <1>2, <1>5, <2>3 DEF Delivers, Again
  <2> QED
    BY <2>2, <2>4, <2>5
<1>8. ASSUME NEW x \in Nat, ByteReceived(x) PROVE ByteReceived(x)'
  BY <1>1, <1>5, <1>8 DEF ByteReceived, Covers
<1>9. ASSUME NEW p \in arrived, InStream(p) PROVE ByteReceived(p.seq)
  BY <1>4, <1>6, <1>9 DEF ArrivalKnown, Receiving
<1>10. ASSUME NEW p \in wire' \cup arrived', InStream(p)' PROVE TransmissionKnown(p)'
  <2>1. InStream(p)
    BY <1>1, <1>10 DEF InStream
  <2>2. p \in wire \cup arrived
    BY <1>1, <1>7, <1>10, <2>1
  <2>3. PICK k \in Keys : Covers(k, p.seq) /\ SentWith(k, p.ts)
    BY <1>4, <1>6, <2>1, <2>2 DEF TransmissionKnown, Sending, Inserting
  <2>4. k \in Keys' /\ Covers(k, p.seq)' /\ SentWith(k, p.ts)'
    BY <1>1, <1>5, <2>3 DEF Covers, SentWith
  <2> QED
    BY <2>4 DEF TransmissionKnown
<1>11. ASSUME NEW p \in arrived', InStream(p)' PROVE ArrivalKnown(p)'
  <2>1. InStream(p)
    BY <1>1, <1>11 DEF InStream
  <2>2. CASE p \in arrived
    <3>1. p.seq \in Nat
      BY <1>5, <2>2 DEF StampedBytes
    <3> QED
      BY <1>8, <1>9, <2>1, <2>2, <3>1 DEF ArrivalKnown
  <2>3. CASE p \in Piece(s, last, ts)
    BY <1>4, <1>5, <1>7, <2>1, <2>3 DEF ArrivalKnown, Receiving
  <2> QED
    BY <1>1, <1>11, <2>2, <2>3
<1>12. SegmentArrived'
  <2> SUFFICES ASSUME NEW x \in base .. nxt - 1, Receiving(x)'
               PROVE  [seq |-> x, ts |-> ts] \in arrived' \/ ByteReceived(x)'
    BY <1>1, <1>4 DEF SegmentArrived
  <2>1. x \in Nat /\ base <= x /\ x < nxt /\ s <= x /\ x < e /\ last = e
    BY <1>4, <1>5 DEF Receiving
  <2>2. CASE \E a \in arrived : a.seq = x
    <3>1. PICK a \in arrived : a.seq = x
      BY <2>2
    <3>2. InStream(a)
      BY <2>1, <3>1 DEF InStream
    <3> QED
      BY <1>8, <1>9, <2>1, <3>1, <3>2
  <2>3. CASE \A a \in arrived : a.seq # x
    <3>1. [seq |-> x, ts |-> ts] \in Piece(s, last, ts)
      BY <1>5, <2>1 DEF Piece
    <3> QED
      BY <1>1, <2>3, <3>1
  <2> QED
    BY <2>2, <2>3
<1>13. ASSUME NEW k \in Keys PROVE RangeArrived(k)' /\ Regular(k)'
  <2>1. Regular(k)'
    BY <1>1, <1>6 DEF Regular
  <2> SUFFICES ASSUME HasBytes(k) PROVE RangeArrived(k)'
    BY <1>1, <2>1 DEF RangeArrived, HasBytes
  <2>2. RangeArrived(k) /\ ranges[k].data_received_count \in Nat
    BY <1>6, RangeNumbers
  <2>3. ranges[k].data_received_count <= recvNo
    BY <1>4, <1>5, <2>2 DEF RangeArrived
  <2>4. /\ ranges[k].data_received_count + 0 <= recvNo'
        /\ ranges[k].data_received_count + 1 <= recvNo'
    BY <1>1, <1>5, <2>2, <2>3
  <2>5. ranges[k].data_received_count # 0 =>
          \A x \in k .. ranges[k].endSeq - 1 :
            [seq |-> x, ts |-> ranges[k].received_tstamp_tcp] \in arrived'
    BY <1>1, <2>2 DEF RangeArrived
  <2> QED
    BY <1>1, <2>4, <2>5 DEF RangeArrived
<1>14. tcp' = "open" => \A p \in wire' : p.seq < nxt'
  BY <1>1, <1>6
<1> QED
  BY <1>5, <1>10, <1>11, <1>12, <1>13, <1>14 DEF ArrivalInv

\* A step between two calls.
LEMMA IdleKeepsArrival ==
    ASSUME TypeOK, Typed, Typed', ArrivalInv,
           UNCHANGED <<ranges, conn, base, nxt, tcp, recvNo, wire, arrived>>,
           op = "idle", op' # "insert"
    PROVE  ArrivalInv'
<1>1. Keys' = Keys
  BY DEF Keys
<1>2. \A k \in Keys : HasBytes(k) => k \in Keys' /\ ranges'[k] = ranges[k]
  BY <1>1
<1>3. \A j \in Keys' : Regular(j)' /\ (HasBytes(j)' => j \in Keys /\ HasBytes(j))
  BY <1>1 DEF ArrivalInv, Regular, HasBytes
<1> QED
  BY <1>2, <1>3, SteadyKeepsArrival

\* Every step keeps ArrivalInv.
LEMMA NextArrival ==
    ASSUME RegularTrace, ShortTrace, CountedInv, CountedInv', ArrivalInv, [Next]_vars
    PROVE  ArrivalInv'
<1>1. /\ TypeOK /\ TypeOK' /\ Typed /\ Typed' /\ StepInv /\ AckInv /\ EverySent
      /\ CountersInv /\ PartitionInv /\ PartitionInv' /\ CallInv /\ TallyInv
  <2>1. /\ TypeOK /\ TypeOK' /\ CountersInv /\ PartitionInv /\ AckInv /\ CallInv
        /\ PartitionInv' /\ TallyInv
    BY DEF CountedInv, CountersInv, InOrderInv, RegularInv
  <2>2. Typed /\ Typed'
    BY <2>1, TypedFrom, TypedNext
  <2> QED
    BY <2>1, <2>2 DEF StepInv, PartitionInv, AckInv
<1>2. CompleteCapture
  BY DEF RegularTrace, InOrderCapture
<1>3. CASE UNCHANGED vars
  <2>1. UNCHANGED <<ranges, op, frame, seg, conn, base, nxt, tcp, recvNo, wire, arrived>>
    BY <1>3 DEF vars, rmVars, envVars
  <2>2. UNCHANGED <<Keys, SENT, ZeroLength, Inserting>>
    BY <2>1 DEF Keys, SENT, ZeroLength, Inserting
  <2> QED
    BY <2>1, <2>2 DEF ArrivalInv, InStream, TransmissionKnown, ArrivalKnown, SegmentArrived,
                      RangeArrived, Regular, Sending, Receiving, SentWith, ByteReceived,
                      Covers, HasBytes
<1>4. CASE RangeManagerStep
  <2>1. Fixed
    BY <1>4 DEF RangeManagerStep, Fixed
  <2>2. CASE insertByteRange
    <3>1. \/ InsertZeroLength \/ UpdateZeroLength
          \/ Opens
          \/ \E upTo \in Nat :
               Registers(upTo) /\ ((upTo = frame.end /\ Return) \/ (upTo < frame.end /\ Recurse(upTo)))
      BY <1>1, <2>1, <2>2, InsertStepKeepsCalls
    <3> QED
      BY <1>1, <2>1, <3>1, InsertKeepsArrival, UpdateKeepsArrival, OpensKeepsArrival,
         RegistersKeepsArrival
  <2>3. CASE processAck
    BY <1>1, <2>1, <2>3, AckKeepsArrival
  <2> QED
    BY <1>4, <2>2, <2>3 DEF RangeManagerStep
<1>5. CASE SendStep
  <2>1. Sends
    BY <1>1, <1>2, <1>5, SendStepSends
  <2>2. ~conn.closed /\ op = "idle"
    BY <1>1, <2>1 DEF PartitionInv, Sends
  <2>3. conn'.bundleCount = 0 => conn.bundleCount = 0
    BY <1>1, <1>5, <2>2, BundlesStay
  <2> QED
    BY <1>1, <2>1, <2>3, SendsKeepsArrival
<1>6. ASSUME NEW n \in 1 .. MaxPayload, DropNew(n) PROVE FALSE
  BY <1>2, <1>6 DEF DropNew, CompleteCapture
<1>7. ASSUME NEW a \in 0 .. MaxSeq + 2, NEW echo \in BOOLEAN, AckArrives(a, echo)
      PROVE  ArrivalInv'
  <2>1. /\ UNCHANGED <<ranges, conn, base, nxt, tcp, recvNo, wire, arrived>>
        /\ op = "idle" /\ op' # "insert"
    BY <1>7 DEF AckArrives, rmVars
  <2> QED
    BY <1>1, <2>1, IdleKeepsArrival
<1>8. ASSUME NEW s \in 0 .. MaxSeq + 1, NEW n \in 0 .. MaxPayload,
             NEW flag \in {"none", "syn", "fin"},
             NEW ts \in {0} \cup {p.ts : p \in wire \cup arrived}, processRecvd(s, s + n, flag, ts)
      PROVE  ArrivalInv'
  <2>1. s \in Nat /\ n \in Nat
    BY BoundsAssumption
  <2> QED
    BY <1>1, <1>8, <2>1, RecvKeepsArrival
<1>9. CASE StartAcks \/ StartRecv \/ processAcks
  <2>1. /\ UNCHANGED <<ranges, conn, base, nxt, tcp, recvNo, wire, arrived>>
        /\ op = "idle" /\ op' # "insert"
    BY <1>9 DEF StartAcks, StartRecv, rmVars, processAcks, CallAck
  <2> QED
    BY <1>1, <2>1, IdleKeepsArrival
<1> QED
  BY <1>3, <1>4, <1>5, <1>6, <1>7, <1>8, <1>9, NextCases

-----------------------------------------------------------------------------
(* Which transmission arrived first. *)

\* Nothing has been sent or received in the beginning.
LEMMA InitArrival == Init => ArrivalInv
<1> SUFFICES ASSUME Init PROVE ArrivalInv
  OBVIOUS
<1>1. Keys = {} /\ op = "idle" /\ wire = {} /\ arrived = {}
  BY DEF Init, rmInit, Keys
<1> QED
  BY <1>1 DEF ArrivalInv, SegmentArrived, Receiving

\* The inductive invariant of the receiver's trace: what the network holds or has
\* delivered of a byte is a transmission of its range, and a range received has
\* the timestamp with which its bytes arrived first.
THEOREM ArrivalsHold ==
    ASSUME RegularTrace, ShortTrace
    PROVE  Spec => []ArrivalInv
<1>1. CountedInv /\ CountedInv' /\ ArrivalInv /\ [Next]_vars => ArrivalInv'
  BY NextArrival
<1> QED
  BY <1>1, InitArrival, CountedHolds, PTL DEF Spec

\* What is known of a range that has been received, between two calls.
LEMMA ReceivedRange ==
    ASSUME CountedInv, ArrivalInv, op = "idle", NEW k \in ReceivedRanges
    PROVE  LET r == ranges[k]
               list == r.sent_tstamp_pcap
           IN /\ k \in Keys /\ list \in Seq(Transmissions)
              /\ Piece(k, r.endSeq, r.received_tstamp_tcp) \subseteq arrived
              /\ \E i \in DOMAIN list : tstamp_tcp(list[i].time) = r.received_tstamp_tcp
<1> DEFINE r == ranges[k]
           list == r.sent_tstamp_pcap
           ts == r.received_tstamp_tcp
<1>1. /\ TypeOK /\ Typed /\ StepInv /\ EmptyUncounted
  <2>1. TypeOK /\ PartitionInv /\ CallInv
    BY DEF CountedInv, RegularInv, InOrderInv, CountersInv
  <2> QED
    BY <2>1, TypedFrom DEF StepInv, PartitionInv, CallInv
<1>2. k \in Keys /\ r.data_received_count > 0 /\ byte_count(k) # 0
  BY DEF ReceivedRanges, WithData
<1>3. k \in Nat /\ r.endSeq \in Nat /\ nxt \in Nat /\ base \in Nat /\ r \in ByteRanges
  BY <1>1, <1>2 DEF Typed, TypeOK, rmTypeOK, Keys
<1>4. HasBytes(k) /\ base <= k /\ r.endSeq <= nxt
  <2>1. k <= r.endSeq /\ r.endSeq # k
    BY <1>1, <1>2, <1>3 DEF StepInv, RangesInStream, byte_count
  <2>2. HasBytes(k)
    BY <1>3, <2>1 DEF HasBytes
  <2> QED
    BY <1>1, <1>2, <2>2 DEF EmptyUncounted, StepInv, RangesInStream, HasBytes
<1>5. \A x \in k .. r.endSeq - 1 : [seq |-> x, ts |-> ts] \in arrived
  BY <1>2, <1>4, RangeNumbers, <1>1 DEF ArrivalInv, RangeArrived
<1>6. Piece(k, r.endSeq, ts) \subseteq arrived
  BY <1>5 DEF Piece
<1>7. PICK p \in arrived : p.seq = k /\ p.ts = ts
  <2>1. k \in k .. r.endSeq - 1
    BY <1>3, <1>4 DEF HasBytes
  <2> QED
    BY <1>5, <2>1
<1>8. InStream(p)
  BY <1>3, <1>4, <1>7 DEF InStream, HasBytes
<1>9. PICK j \in Keys : Covers(j, k) /\ SentWith(j, ts)
  BY <1>7, <1>8 DEF ArrivalInv, TransmissionKnown, Sending, Inserting
<1>10. Covers(k, k)
  BY <1>3, <1>4 DEF Covers, HasBytes
<1>11. j = k
  BY <1>1, <1>2, <1>3, <1>9, <1>10, OneHolder
<1>12. PICK t \in Sendings(list) : tstamp_tcp(t.time) = ts
  BY <1>9, <1>11 DEF SentWith
<1>13. PICK i \in DOMAIN list : t = [time |-> list[i].time, rdb |-> list[i].rdb]
  BY DEF Sendings
<1>14. t.time = list[i].time
  BY <1>13
<1>15. list \in Seq(Transmissions)
  BY <1>3 DEF ByteRanges, SentLists
<1> QED
  BY <1>2, <1>6, <1>12, <1>14, <1>15

\* "Find which data packet was received first": the timestamp that a range keeps
\* is the one with which each of its bytes arrived first, and matchReceivedType
\* finds it in one of the lists of the sender.
THEOREM ReceivedAlwaysMatched ==
    ASSUME RegularTrace, ShortTrace
    PROVE  Spec => []ReceivedMatched
<1>1. CountedInv /\ ArrivalInv => ReceivedMatched
  <2> SUFFICES ASSUME CountedInv, ArrivalInv, op = "idle", NEW k \in ReceivedRanges
               PROVE  /\ matchReceivedType(ranges[k]).recv_type # "DEF"
                      /\ Piece(k, ranges[k].endSeq, ranges[k].received_tstamp_tcp) \subseteq arrived
    BY DEF ReceivedMatched, Received
  <2> DEFINE r == ranges[k]
             list == r.sent_tstamp_pcap
  <2>1. /\ Piece(k, r.endSeq, r.received_tstamp_tcp) \subseteq arrived
        /\ \E i \in DOMAIN list : tstamp_tcp(list[i].time) = r.received_tstamp_tcp
    BY ReceivedRange
  <2>2. PICK i \in DOMAIN list : tstamp_tcp(list[i].time) = r.received_tstamp_tcp
    BY <2>1
  <2>3. Matches(r, tstamps_tcp(r)) # {} \/ Matches(r, rdb_tstamps_tcp(r)) # {}
    BY <2>2 DEF Matches, tstamps_tcp, rdb_tstamps_tcp
  <2>4. matchReceivedType(r).recv_type # "DEF"
    <3>1. CASE Matches(r, tstamps_tcp(r)) # {}
      BY <3>1 DEF matchReceivedType
    <3>2. CASE Matches(r, tstamps_tcp(r)) = {}
      BY <2>3, <3>2 DEF matchReceivedType
    <3> QED
      BY <3>1, <3>2
  <2> QED
    BY <2>1, <2>4
<1> QED
  BY <1>1, CountedHolds, ArrivalsHold, PTL

\* The first numbers are as many as the last of them.
LEMMA IndexInAll ==
    ASSUME NEW n \in Nat, NEW m \in 1 .. n
    PROVE  IndexIn(1 .. n, m) = m
<1>1. {x \in 1 .. n : x <= m} = 1 .. m /\ m \in Nat
  OBVIOUS
<1>2. Cardinality(1 .. m) = m
  <2>1. Cardinality(1 .. m) = IF 1 > m THEN 0 ELSE m - 1 + 1
    BY FS_Interval
  <2> QED
    BY <2>1
<1> QED
  BY <1>1, <1>2 DEF IndexIn

\* "Store the index of the send packet that matches the first received packet":
\* without bundles the one-way delay of a range is measured from the transmission
\* that arrived first, since the list of regular transmissions is the list of all.
THEOREM DelayAlwaysFromMatch ==
    ASSUME RegularTrace, ShortTrace
    PROVE  Spec => []DelayFromMatchUnbundled
<1>1. CountedInv /\ ArrivalInv => DelayFromMatchUnbundled
  <2> SUFFICES ASSUME CountedInv, ArrivalInv, op = "idle", conn.bundleCount = 0,
                      NEW k \in ReceivedRanges
               PROVE  tstamp_tcp(DelayedFrom(ranges[k])) = ranges[k].received_tstamp_tcp
    BY DEF DelayFromMatchUnbundled, DelayFromMatch, Received
  <2> DEFINE r == ranges[k]
             list == r.sent_tstamp_pcap
             regular == Matches(r, tstamps_tcp(r))
             m == Min(regular)
  <2>1. /\ k \in Keys /\ list \in Seq(Transmissions)
        /\ \E i \in DOMAIN list : tstamp_tcp(list[i].time) = r.received_tstamp_tcp
    BY ReceivedRange
  <2>2. \A t \in Sendings(list) : ~t.rdb
    BY <2>1 DEF ArrivalInv, Regular
  <2>3. \A i \in DOMAIN list : ~list[i].rdb
    <3> SUFFICES ASSUME NEW i \in DOMAIN list PROVE ~list[i].rdb
      OBVIOUS
    <3>1. [time |-> list[i].time, rdb |-> list[i].rdb] \in Sendings(list)
      BY DEF Sendings
    <3>2. ~[time |-> list[i].time, rdb |-> list[i].rdb].rdb
      BY <2>2, <3>1
    <3> QED
      BY <3>2
  <2>4. tstamps_tcp(r) = 1 .. Len(list) /\ Len(list) \in Nat /\ DOMAIN list = 1 .. Len(list)
    BY <2>1, <2>3 DEF tstamps_tcp
  <2>5. regular # {} /\ regular \in SUBSET Nat /\ regular \subseteq 1 .. Len(list)
    BY <2>1, <2>4 DEF Matches
  <2>6. m \in regular
    BY <2>5, MinIn
  <2>7. m \in 1 .. Len(list) /\ tstamp_tcp(list[m].time) = r.received_tstamp_tcp
    BY <2>5, <2>6 DEF Matches
  <2>8. IndexIn(tstamps_tcp(r), m) = m
    BY <2>4, <2>7, IndexInAll
  <2>9. matchReceivedType(r).send_tcp_stamp_recv_index = IndexIn(tstamps_tcp(r), Min(regular))
    BY <2>5 DEF matchReceivedType
  <2> QED
    BY <2>7, <2>8, <2>9 DEF DelayedFrom
<1> QED
  BY <1>1, CountedHolds, ArrivalsHold, PTL

=============================================================================
