---------------------------- MODULE StatsProofs ----------------------------
(***************************************************************************)
(* What the statistics rely on.  For every capture that misses nothing:    *)
(* lastSeq is the end of an open stream and of the last range, no warning  *)
(* is printed, and no byte is acked before it was sent.  For every regular *)
(* trace that is short enough for the counters of a range: what the ranges *)
(* add up to is what was counted packet by packet.                         *)
(***************************************************************************)
EXTENDS CallProofs, RangeStats, SumProofs

-----------------------------------------------------------------------------
(* lastSeq and the end of the stream. *)

\* Until a FIN or RST is sent lastSeq is not beyond the stream, and no segment
\* without payload is about to move it there.
LastSeqBehind ==
    tcp = "open" =>
        /\ lastSeq <= nxt
        /\ op = "insert" /\ SENT /\ seg.seq = seg.endSeq =>
             seg.flag = "none" \/ (base = 1 /\ seg.seq = 0)

\* A capture that begins with a SYN has a range for it, once it has any.
SynFirst ==
    /\ Keys = {} => /\ phase = "sent"
                    /\ base = 1 /\ op = "insert" => frame.start = 0 /\ frame.end = 0
    /\ base = 1 /\ Keys # {} => 0 \in Keys

AlignInv == LastSeqBehind /\ SynFirst

\* The new lastSeq of insertSentRange is not beyond an open stream.
LEMMA ReturnStaysBehind ==
    ASSUME CountersInv, PartitionInv, LastSeqBehind, op = "insert", Return, tcp = "open"
    PROVE  lastSeq' <= nxt
<1>1. Typed /\ lastSeq <= nxt /\ CallInStream /\ base <= nxt
  BY TypedFrom DEF CountersInv, PartitionInv, LastSeqBehind
<1>2. CASE ~SENT
  BY <1>1, <1>2 DEF Return, SENT
<1>3. CASE SENT /\ seg.seq = seg.endSeq
  <2>1. lastSeq' = IF seg.flag = "rst" THEN lastSeq
                   ELSE IF seg.flag = "syn" THEN seg.endSeq + 1 ELSE seg.endSeq
    BY <1>1, <1>3 DEF Return, SENT, lastSeqAfter, payloadSize, Typed
  <2>2. seg.flag = "none" \/ (base = 1 /\ seg.seq = 0)
    BY <1>3 DEF LastSeqBehind
  <2>3. seg.seq = nxt \/ seg.seq = 0
    BY <1>1, <1>3 DEF CallInStream
  <2> QED
    BY <1>1, <1>3, <2>1, <2>2, <2>3 DEF Typed
<1>4. CASE SENT /\ seg.seq # seg.endSeq
  <2>1. frame.end = seg.endSeq /\ ~ZeroLength /\ frame.end <= nxt
    BY <1>1, <1>4 DEF CallInStream
  <2>2. payloadSize(seg) # 0
    BY <1>1, <1>4 DEF payloadSize, Typed
  <2>3. lastSeq' \in {seg.endSeq, lastSeq}
    BY <1>4, <2>2 DEF Return, SENT, lastSeqAfter
  <2> QED
    BY <1>1, <2>1, <2>3
<1> QED
  BY <1>2, <1>3, <1>4

\* How a step of the range manager moves lastSeq and the call, and that it never
\* takes a range out of the map.
LEMMA RangeManagerControl ==
    ASSUME TypeOK, RangeManagerStep
    PROVE  /\ Keys \subseteq Keys'
           /\ \/ op = "insert" /\ Return
              \/ /\ UNCHANGED <<lastSeq, seg>>
                 /\ op' = "insert" => op = "insert" /\ frame'.itype = frame.itype
           /\ UNCHANGED <<nxt, tcp, base, phase>>
<1>1. rmTypeOK /\ frame \in Frames /\ UNCHANGED <<nxt, tcp, base, phase>>
  BY DEF TypeOK, rmTypeOK, RangeManagerStep, envVars
<1>2. ASSUME NEW n, Recurse(n), op = "insert"
      PROVE  UNCHANGED <<lastSeq, seg>> /\ op = "insert" /\ frame'.itype = frame.itype
  BY <1>1, <1>2 DEF Recurse, Frames
<1>3. ASSUME NEW why \in Failures, Fail(why)
      PROVE  UNCHANGED <<lastSeq, seg>> /\ op' # "insert"
  BY <1>3 DEF Fail, Failures
<1>4. CASE insertByteRange
  <2>1. Keys \subseteq Keys'
    <3>1. CASE InsertZeroLength
      BY <1>1, <3>1, InsertZeroLengthShape
    <3>2. CASE UpdateZeroLength
      BY <1>1, <3>2, UpdateZeroLengthShape DEF CountsOnly
    <3>3. CASE SplitHost
      BY <1>1, <3>3, SplitHostShape DEF CutAt
    <3>4. CASE InsertNew
      BY <1>1, <3>4, InsertNewShape DEF Keys
    <3>5. CASE FailSynAck
      BY <3>5 DEF FailSynAck, Keys
    <3>6. CASE FillEmpty
      BY <1>1, <3>6, FillEmptyShape
    <3>7. CASE SpanRange \/ UpdateRange
      BY <1>1, <3>7, CoverShape DEF CountsOnly
    <3>8. CASE SplitTail
      BY <1>1, <3>8, SplitTailShape DEF CutAt
    <3> QED
      BY <1>4, <3>1, <3>2, <3>3, <3>4, <3>5, <3>6, <3>7, <3>8 DEF insertByteRange
  <2>2. /\ op = "insert"
        /\ \/ Return
           \/ \E n \in Nat \cup Keys \cup {ranges[k].endSeq : k \in Keys} : Recurse(n)
           \/ \E why \in Failures : Fail(why)
    <3>1. CASE InsertZeroLength \/ UpdateZeroLength \/ SplitTail \/ UpdateRange
      BY <3>1 DEF InsertZeroLength, UpdateZeroLength, SplitTail, UpdateRange, StartFound
    <3>2. CASE SplitHost
      BY <1>1, <3>2, SplitHostShape DEF SplitHost
    <3>3. CASE InsertNew
      BY <3>3 DEF InsertNew, Failures
    <3>4. CASE FailSynAck
      BY <3>4 DEF FailSynAck, StartFound, Failures
    <3>5. CASE FillEmpty
      BY <1>1, <3>5, FillEmptyShape DEF FillEmpty, StartFound
    <3>6. CASE SpanRange
      BY <3>6 DEF SpanRange, StartFound, Failures, Keys
    <3> QED
      BY <1>4, <3>1, <3>2, <3>3, <3>4, <3>5, <3>6 DEF insertByteRange
  <2> QED
    BY <1>1, <1>2, <1>3, <2>1, <2>2
<1>5. CASE processAck
  <2>1. Keys \subseteq Keys'
    BY <1>1, <1>5, AckShape DEF CountsOnly, CutAt
  <2>2. UNCHANGED <<lastSeq, seg>> /\ op' # "insert"
    BY <1>5 DEF processAck, AckLast, AckBeforeSent, AckMore, AckSplit, AckOld, AckReturn, IgnoreOld
  <2> QED
    BY <1>1, <2>1, <2>2
<1> QED
  BY <1>4, <1>5 DEF RangeManagerStep

\* The first step on an empty map registers the SYN, if the capture has it.
LEMMA FirstRange ==
    ASSUME TypeOK, RangeManagerStep, Keys = {}, base = 1, SynFirst
    PROVE  0 \in Keys'
<1>1. op # "ack" /\ rmTypeOK
  BY DEF TypeOK, rmTypeOK, Keys
<1>2. op = "insert" /\ insertByteRange
  BY <1>1 DEF RangeManagerStep, insertByteRange, processAck, AckLast, AckBeforeSent, AckMore,
              AckSplit, AckOld, InsertZeroLength, UpdateZeroLength, SplitHost, InsertNew,
              FailSynAck, FillEmpty, SpanRange, SplitTail, UpdateRange, StartFound
<1>3. frame.start = 0 /\ ZeroLength
  BY <1>2 DEF SynFirst, ZeroLength
<1>4. InsertZeroLength
  BY <1>2, <1>3 DEF insertByteRange, UpdateZeroLength, SplitHost, InsertNew,
              FailSynAck, FillEmpty, SpanRange, SplitTail, UpdateRange, StartFound
<1> QED
  BY <1>1, <1>3, <1>4, InsertZeroLengthShape

\* Every step of a complete capture keeps AlignInv.
LEMMA NextAligned ==
    ASSUME CompleteCapture, CountersInv, PartitionInv, AlignInv, [Next]_vars, CountersInv'
    PROVE  AlignInv'
<1>1. TypeOK /\ TypeOK' /\ LastSeqBehind /\ SynFirst /\ nxt \in Nat /\ nxt' \in Nat /\ lastSeq \in Nat
  BY DEF CountersInv, AlignInv, TypeOK, rmTypeOK
<1>2. CASE RangeManagerStep
  <2>1. /\ Keys \subseteq Keys'
        /\ \/ op = "insert" /\ Return
           \/ /\ UNCHANGED <<lastSeq, seg>>
              /\ op' = "insert" => op = "insert" /\ frame'.itype = frame.itype
        /\ UNCHANGED <<nxt, tcp, base, phase>>
    BY <1>1, <1>2, RangeManagerControl
  <2>2. LastSeqBehind'
    <3>1. CASE op = "insert" /\ Return
      <4>1. op' = "idle"
        BY <3>1 DEF Return
      <4>2. tcp = "open" => lastSeq' <= nxt
        BY <1>1, <3>1, ReturnStaysBehind
      <4> QED
        BY <2>1, <4>1, <4>2 DEF LastSeqBehind
    <3>2. CASE /\ UNCHANGED <<lastSeq, seg>>
               /\ op' = "insert" => op = "insert" /\ frame'.itype = frame.itype
      BY <1>1, <2>1, <3>2 DEF LastSeqBehind, SENT
    <3> QED
      BY <2>1, <3>1, <3>2
  <2>3. SynFirst'
    <3>1. CASE Keys # {}
      BY <1>1, <2>1, <3>1 DEF SynFirst
    <3>2. CASE Keys = {} /\ base = 1
      BY <1>1, <1>2, <2>1, <3>2, FirstRange DEF SynFirst
    <3>3. CASE Keys = {} /\ base # 1
      BY <1>1, <2>1, <3>3 DEF SynFirst
    <3> QED
      BY <3>1, <3>2, <3>3
  <2> QED
    BY <2>2, <2>3 DEF AlignInv
<1>3. CASE SendStep
  <2>1. Sends
    BY <1>3, SendStepSends
  <2>2. /\ op' = "insert" /\ phase' = "sent" /\ UNCHANGED <<ranges, lastSeq, base>>
        /\ frame'.start = seg'.seq /\ frame'.end = seg'.endSeq
        /\ base = 1 /\ Keys = {} => seg'.seq = 0 /\ seg'.endSeq = 0
        /\ seg'.seq = seg'.endSeq /\ tcp' = "open" =>
              seg'.flag = "none" \/ (base = 1 /\ seg'.seq = 0)
    BY <2>1 DEF Sends
  <2>3. LastSeqBehind'
    <3>1. tcp' = "open" => lastSeq' <= nxt'
      BY <1>1, <2>1 DEF LastSeqBehind, Sends
    <3> QED
      BY <2>2, <3>1 DEF LastSeqBehind
  <2>4. SynFirst'
    BY <1>1, <2>2 DEF SynFirst, Keys
  <2> QED
    BY <2>3, <2>4 DEF AlignInv
<1>4. ASSUME NEW n \in 1 .. MaxPayload, DropNew(n) PROVE AlignInv'
  BY <1>4 DEF DropNew, CompleteCapture
<1>5. CASE \/ UNCHANGED vars
           \/ \E a \in 0 .. MaxSeq + 2, echo \in BOOLEAN : AckArrives(a, echo)
  <2>1. UNCHANGED <<ranges, lastSeq, base, nxt, tcp, op, frame, seg, phase>>
    BY <1>5 DEF vars, rmVars, envVars, AckArrives
  <2> QED
    BY <1>1, <2>1 DEF AlignInv, LastSeqBehind, SynFirst, SENT, Keys
<1>6. CASE StartAcks \/ StartRecv
  <2>1. /\ UNCHANGED <<ranges, lastSeq, base, nxt, tcp, op, frame, seg>> /\ op = "idle"
        /\ Keys # {} \/ phase # "sent"
    BY <1>6 DEF StartAcks, StartRecv, rmVars
  <2> QED
    BY <1>1, <2>1 DEF AlignInv, LastSeqBehind, SynFirst, SENT, Keys
<1>7. CASE processAcks
  <2>1. /\ UNCHANGED <<ranges, lastSeq, base, nxt, tcp, frame, seg, phase>>
        /\ op = "idle" /\ op' \in {"idle", "ack"}
    BY <1>7 DEF processAcks, CallAck
  <2> QED
    BY <1>1, <2>1 DEF AlignInv, LastSeqBehind, SynFirst, Keys
<1>8. ASSUME NEW s \in 0 .. MaxSeq + 1, NEW n \in 0 .. MaxPayload,
             NEW flag \in {"none", "syn", "fin"},
             NEW ts \in {0} \cup {p.ts : p \in wire \cup arrived}, processRecvd(s, s + n, flag, ts)
      PROVE  AlignInv'
  <2>1. /\ UNCHANGED <<ranges, lastSeq, base, nxt, tcp, phase>> /\ phase = "recv"
        /\ frame'.itype = "INSERT_RECV"
    BY <1>8 DEF processRecvd, insertReceivedRange, Call
  <2> QED
    BY <1>1, <2>1 DEF AlignInv, LastSeqBehind, SynFirst, SENT, Keys
<1> QED
  BY <1>2, <1>3, <1>4, <1>5, <1>6, <1>7, <1>8, NextCases

CompleteInv == CountersInv /\ PartitionInv /\ AlignInv

\* The three invariants hold of a complete capture.
LEMMA CompleteHolds ==
    ASSUME CompleteCapture
    PROVE  Spec => []CompleteInv
<1>1. Init => CompleteInv
  <2> SUFFICES ASSUME Init PROVE CompleteInv
    OBVIOUS
  <2>1. /\ Keys = {} /\ op = "idle" /\ phase = "sent" /\ lastSeq = 0 /\ nxt = base
        /\ base \in {0, 1}
    BY BoundsAssumption DEF Init, rmInit, Keys
  <2>2. lastSeq <= nxt
    BY <2>1
  <2> QED
    BY <2>1, <2>2, InitCounters, InitPartition
       DEF CompleteInv, AlignInv, LastSeqBehind, SynFirst
<1>2. CompleteInv /\ [Next]_vars => CompleteInv'
  <2> SUFFICES ASSUME CompleteInv, [Next]_vars PROVE CompleteInv'
    OBVIOUS
  <2>1. CountersInv'
    BY NextCounters DEF CompleteInv
  <2>2. PartitionInv'
    BY <2>1, NextPartition DEF CompleteInv
  <2>3. AlignInv'
    BY <2>1, NextAligned DEF CompleteInv
  <2> QED
    BY <2>1, <2>2, <2>3 DEF CompleteInv
<1> QED
  BY <1>1, <1>2, PTL DEF Spec

\* What the invariants say of an open connection between two calls.
LEMMA OpenFacts ==
    ASSUME CompleteInv, op = "idle", tcp = "open", Keys # {}
    PROVE  /\ Typed /\ Disjoint /\ base \in {0, 1} /\ base <= nxt
           /\ lastSeq = nxt
           /\ \A k \in Keys : /\ k <= ranges[k].endSeq
                              /\ ranges[k].endSeq <= nxt
                              /\ k <= nxt
           /\ \A x \in base .. nxt - 1 : \E k \in Keys : Covers(k, x)
           /\ nxt > base => \E k \in Keys : k < ranges[k].endSeq /\ ranges[k].endSeq = nxt
<1>1. /\ Typed /\ TypeOK /\ Disjoint /\ base \in {0, 1} /\ base <= nxt
      /\ RangesInStream /\ Frontier /\ LastSeqBound
  BY TypedFrom DEF CompleteInv, CountersInv, PartitionInv, TypeOK
<1>2. op \notin Failures /\ ~Inserting
  BY DEF Failures, Inserting
<1>3. lastSeq = nxt
  <2>1. lastSeq <= nxt
    BY DEF CompleteInv, AlignInv, LastSeqBehind
  <2>2. lastSeq >= nxt
    BY <1>1, <1>2 DEF LastSeqBound
  <2> QED
    BY <1>1, <2>1, <2>2 DEF Typed
<1>4. \A k \in Keys : k <= ranges[k].endSeq /\ ranges[k].endSeq <= nxt /\ k <= nxt
  BY <1>1 DEF RangesInStream, Typed
<1>5. \A x \in base .. nxt - 1 : \E k \in Keys : Covers(k, x)
  BY <1>1, <1>2 DEF Frontier
<1>6. ASSUME nxt > base
      PROVE  \E k \in Keys : k < ranges[k].endSeq /\ ranges[k].endSeq = nxt
  <2>1. nxt - 1 \in base .. nxt - 1
    BY <1>1, <1>6 DEF Typed
  <2>2. PICK k \in Keys : Covers(k, nxt - 1)
    BY <1>5, <2>1
  <2> QED
    BY <1>1, <1>4, <2>2 DEF Covers, Typed
<1> QED
  BY <1>1, <1>3, <1>4, <1>5, <1>6

\* The last range of the map ends at the stream's end, or one byte in front of
\* it if only a SYN was sent.
LEMMA LastEnd ==
    ASSUME CompleteInv, op = "idle", tcp = "open", NEW k \in Keys, IsLast(k)
    PROVE  ranges[k].endSeq \in {lastSeq - 1, lastSeq}
<1>1. /\ Typed /\ Disjoint /\ base \in {0, 1} /\ base <= nxt
      /\ lastSeq = nxt
      /\ \A j \in Keys : j <= ranges[j].endSeq /\ ranges[j].endSeq <= nxt /\ j <= nxt
      /\ nxt > base => \E j \in Keys : j < ranges[j].endSeq /\ ranges[j].endSeq = nxt
  BY OpenFacts
<1>2. CASE nxt > base
  <2>1. PICK j \in Keys : j < ranges[j].endSeq /\ ranges[j].endSeq = nxt
    BY <1>1, <1>2
  <2>2. j <= k
    BY DEF IsLast
  <2>3. j < k => nxt <= k
    BY <1>1, <2>1 DEF Disjoint
  <2> QED
    BY <1>1, <2>1, <2>2, <2>3 DEF Typed
<1>3. CASE nxt = base
  BY <1>1, <1>3 DEF Typed
<1> QED
  BY <1>1, <1>2, <1>3 DEF Typed

\* "lastSeq unaligned!" is not printed: for a capture that misses nothing, of any
\* length, lastSeq is the end of the stream and of the last range as long as the
\* connection is open.
THEOREM LastSeqAlwaysAligned ==
    ASSUME CompleteCapture
    PROVE  Spec => []LastSeqAligned
<1>1. CompleteInv => LastSeqAligned
  BY OpenFacts, LastEnd DEF LastSeqAligned
<1> QED
  BY <1>1, CompleteHolds, PTL

-----------------------------------------------------------------------------
(* validateContent. *)

\* The map begins at offset 0.
LEMMA BeginsAtZero ==
    ASSUME CompleteInv, op = "idle", tcp = "open", Keys # {}, nxt > 0
    PROVE  0 \in Keys /\ Min(Keys) = 0
<1>1. /\ Typed /\ base \in {0, 1}
      /\ \A x \in base .. nxt - 1 : \E k \in Keys : Covers(k, x)
  BY OpenFacts
<1>2. ASSUME base = 1 PROVE 0 \in Keys
  BY <1>2 DEF CompleteInv, AlignInv, SynFirst
<1>3. ASSUME base = 0 PROVE 0 \in Keys
  <2>1. 0 \in base .. nxt - 1
    BY <1>1, <1>3 DEF Typed
  <2>2. PICK k \in Keys : Covers(k, 0)
    BY <1>1, <2>1
  <2>3. k = 0
    BY <1>1, <2>2 DEF Covers, Typed
  <2> QED
    BY <2>3
<1>4. 0 \in Keys
  BY <1>1, <1>2, <1>3
<1>5. \A y \in Keys : 0 <= y
  BY <1>1 DEF Typed
<1>6. \A x \in Keys : (\A y \in Keys : x <= y) => x = 0
  BY <1>1, <1>4 DEF Typed
<1> QED
  BY <1>4, <1>5, <1>6 DEF Min

\* The map has a last range.
LEMMA HasLast ==
    ASSUME CompleteInv, op = "idle", tcp = "open", Keys # {}, nxt > 0
    PROVE  Max(Keys) \in Keys /\ IsLast(Max(Keys))
<1>1. /\ Typed /\ Disjoint /\ base \in {0, 1} /\ base <= nxt
      /\ \A j \in Keys : j <= ranges[j].endSeq /\ ranges[j].endSeq <= nxt /\ j <= nxt
      /\ nxt > base => \E j \in Keys : j < ranges[j].endSeq /\ ranges[j].endSeq = nxt
  BY OpenFacts
<1>2. \E k \in Keys : IsLast(k)
  <2>1. CASE nxt \in Keys
    BY <1>1, <2>1 DEF IsLast
  <2>2. CASE nxt \notin Keys /\ nxt > base
    <3>1. PICK j \in Keys : j < ranges[j].endSeq /\ ranges[j].endSeq = nxt
      BY <1>1, <2>2
    <3>2. \A k \in Keys : j < k => nxt <= k
      BY <1>1, <3>1 DEF Disjoint
    <3>3. \A k \in Keys : k <= j
      BY <1>1, <2>2, <3>2 DEF Typed
    <3> QED
      BY <3>3 DEF IsLast
  <2>3. CASE nxt \notin Keys /\ nxt = base
    <3>1. nxt = 1 /\ 0 \in Keys
      BY <1>1, <2>3, BeginsAtZero
    <3>2. \A k \in Keys : k <= 0
      BY <1>1, <2>3, <3>1 DEF Typed
    <3> QED
      BY <3>1, <3>2 DEF IsLast
  <2> QED
    BY <1>1, <2>1, <2>2, <2>3 DEF Typed
<1>3. \E x \in Keys : \A y \in Keys : x >= y
  BY <1>1, <1>2 DEF IsLast, Typed
<1>4. Max(Keys) \in Keys /\ \A y \in Keys : Max(Keys) >= y
  BY <1>3 DEF Max
<1> QED
  BY <1>1, <1>4 DEF IsLast, Typed

\* "Byte-stream in ranges not continuous" has no pair of ranges to report.
LEMMA NoGap ==
    ASSUME CompleteInv, op = "idle", tcp = "open",
           NEW j \in Keys, NEW k \in Keys, j < k, ~\E i \in Keys : j < i /\ i < k,
           byte_count(j) # 0, byte_count(k) # 0
    PROVE  k = ranges[j].endSeq
<1>1. /\ Typed /\ Disjoint /\ base \in {0, 1}
      /\ \A i \in Keys : i <= ranges[i].endSeq /\ ranges[i].endSeq <= nxt /\ i <= nxt
      /\ \A x \in base .. nxt - 1 : \E i \in Keys : Covers(i, x)
  BY OpenFacts
<1> DEFINE x == ranges[j].endSeq
<1>2. j < x /\ x <= k /\ k < ranges[k].endSeq /\ ranges[k].endSeq <= nxt /\ x \in Nat
  BY <1>1 DEF byte_count, Typed, Disjoint
<1>3. ASSUME x < k PROVE FALSE
  <2>1. x \in base .. nxt - 1
    BY <1>1, <1>2, <1>3 DEF Typed
  <2>2. PICK i \in Keys : Covers(i, x)
    BY <1>1, <2>1
  <2>3. i <= x /\ x < ranges[i].endSeq
    BY <2>2 DEF Covers
  <2>4. i <= j
    BY <1>1, <1>2, <1>3, <2>3 DEF Typed
  <2>5. i < j => ranges[i].endSeq <= j
    BY <1>1 DEF Disjoint
  <2> QED
    BY <1>1, <1>2, <2>3, <2>4, <2>5 DEF Typed
<1> QED
  BY <1>1, <1>2, <1>3 DEF Typed

\* validateContent has nothing to report of a capture that misses nothing, of any
\* length: the ranges begin at 0, follow each other without a gap, end at lastSeq,
\* and the totals add up.
THEOREM ValidateAlwaysSilent ==
    ASSUME CompleteCapture
    PROVE  Spec => []ValidateSilent
<1>1. CompleteInv => ValidateSilent
  <2> SUFFICES ASSUME CompleteInv, op = "idle", tcp = "open", Keys # {}, nxt > 0
               PROVE  validateContent = {}
    BY DEF ValidateSilent
  <2>1. Min(Keys) = 0
    BY BeginsAtZero
  <2>2. lastSeq # 0 /\ ranges[Max(Keys)].endSeq \in {lastSeq - 1, lastSeq}
    <3>1. lastSeq = nxt /\ nxt \in Nat
      BY OpenFacts DEF Typed
    <3> QED
      BY <3>1, HasLast, LastEnd
  <2>3. TotalsConserved
    BY DEF CompleteInv, CountersInv
  <2>4. ~\E j, k \in Keys : /\ j < k /\ ~\E i \in Keys : j < i /\ i < k
                            /\ ~IsFirst(j)
                            /\ k # ranges[j].endSeq
                            /\ byte_count(j) # 0 /\ byte_count(k) # 0
    BY NoGap
  <2> QED
    BY <2>1, <2>2, <2>3, <2>4, Zenon DEF validateContent
<1> QED
  BY <1>1, CompleteHolds, PTL

-----------------------------------------------------------------------------
(* The latency between the first transmission and the first ack. *)

\* A range that no ack has reached has no ack time.
Timeless == \A k \in Keys : ranges[k].acked \/ ranges[k].ackTime = 0

\* A step of insertByteRange copies the ack time of a range together with its
\* acked flag, and opens a range without one.
LEMMA InsertKeepsTimeless ==
    ASSUME TypeOK, StepInv, EverySent, Timeless, insertByteRange
    PROVE  Timeless'
<1> SUFFICES ASSUME NEW j \in Keys' PROVE ranges'[j].acked \/ ranges'[j].ackTime = 0
  BY DEF Timeless
<1>1. ASSUME NEW upTo \in Nat, Registers(upTo)
      PROVE  ranges'[j].acked \/ ranges'[j].ackTime = 0
  <2>1. PICK k \in Keys : PartOf(j, k)
    BY <1>1 DEF Registers
  <2> QED
    BY <2>1 DEF Timeless, PartOf, Kept
<1>2. CASE SplitHost
  BY <1>1, <1>2, SplitHostRegisters
<1>3. CASE SpanRange \/ SplitTail \/ UpdateRange
  BY <1>1, <1>3, CoverRegisters
<1>4. CASE Opens
  <2>1. /\ Keys' = Keys \cup {frame.start}
        /\ \A k \in Keys : k # frame.start => ranges'[k] = ranges[k]
    BY <1>4 DEF Opens
  <2>2. CASE j # frame.start
    BY <2>1, <2>2 DEF Timeless
  <2>3. CASE j = frame.start
    BY <1>4, <2>3 DEF Opens, Timeless
  <2> QED
    BY <2>2, <2>3
<1>5. CASE UNCHANGED ranges
  BY <1>5 DEF Timeless, Keys
<1>6. CASE InsertNew \/ FillEmpty
  BY <1>4, <1>5, <1>6, InsertNewOpens, FillEmptyOpens
<1>7. CASE FailSynAck
  BY <1>5, <1>7 DEF FailSynAck, Fail
<1>8. CASE InsertZeroLength
  <2>1. /\ Keys' = Keys \cup {frame.start} /\ ranges'[frame.start].ackTime = 0
        /\ \A k \in Keys : ranges'[k] = ranges[k]
    BY <1>8, InsertZeroLengthHistory
  <2> QED
    BY <2>1 DEF Timeless
<1>9. CASE UpdateZeroLength
  <2>1. /\ Keys' = Keys /\ start_seq \in Keys
        /\ \A k \in Keys : k # start_seq => ranges'[k] = ranges[k]
        /\ Kept(ranges'[start_seq], ranges[start_seq])
    BY <1>9, UpdateZeroLengthHistory
  <2> QED
    BY <2>1 DEF Timeless, Kept
<1> QED
  BY <1>2, <1>3, <1>6, <1>7, <1>8, <1>9 DEF insertByteRange

\* Only processAck gives a range an ack time, and it marks the range as acked.
LEMMA NextTimeless ==
    ASSUME InOrderCapture, InOrderInv, Timeless, [Next]_vars
    PROVE  Timeless'
<1>1. CountersInv'
  BY NextCounters DEF InOrderInv
<1>2. TypeOK /\ StepInv /\ EverySent /\ Typed' /\ AckInv
  <2>1. TypeOK /\ TypeOK' /\ Typed /\ Typed'
    BY <1>1, TypedFrom, TypedNext DEF InOrderInv, CountersInv
  <2> QED
    BY <2>1 DEF InOrderInv, PartitionInv, StepInv, AckInv
<1>3. CASE UNCHANGED ranges
  BY <1>3 DEF Timeless, Keys
<1>4. CASE RangeManagerStep
  <2>1. CASE insertByteRange
    BY <1>2, <2>1, InsertKeepsTimeless
  <2>2. CASE processAck
    <3>1. Fixed
      BY <1>4 DEF RangeManagerStep, Fixed
    <3>2. Marks
      BY <1>2, <2>2, <3>1, AckStepKeepsAcks
    <3> SUFFICES ASSUME NEW j \in Keys' PROVE ranges'[j].acked \/ ranges'[j].ackTime = 0
      BY DEF Timeless
    <3>3. PICK k \in Keys : AckPart(j, k)
      BY <3>2 DEF Marks
    <3> QED
      BY <3>3 DEF AckPart, Timeless
  <2> QED
    BY <1>4, <2>1, <2>2 DEF RangeManagerStep
<1>5. RangeManagerStep \/ UNCHANGED ranges
  <2>1. CompleteCapture
    BY DEF InOrderCapture
  <2>2. CASE UNCHANGED vars
    BY <2>2 DEF vars, rmVars
  <2>3. CASE SendStep
    BY <2>1, <2>3, SendStepSends DEF Sends, InOrderInv
  <2>4. ASSUME NEW n \in 1 .. MaxPayload, DropNew(n) PROVE FALSE
    BY <2>1, <2>4 DEF DropNew, CompleteCapture
  <2>5. ASSUME NEW a \in 0 .. MaxSeq + 2, NEW echo \in BOOLEAN, AckArrives(a, echo)
        PROVE  UNCHANGED ranges
    BY <2>5 DEF AckArrives, rmVars
  <2>6. ASSUME NEW s \in 0 .. MaxSeq + 1, NEW n \in 0 .. MaxPayload,
               NEW flag \in {"none", "syn", "fin"},
               NEW ts \in {0} \cup {p.ts : p \in wire \cup arrived},
               processRecvd(s, s + n, flag, ts)
        PROVE  UNCHANGED ranges
    BY <2>6 DEF processRecvd
  <2>7. CASE StartAcks \/ StartRecv \/ processAcks
    BY <2>7 DEF StartAcks, StartRecv, processAcks, CallAck, rmVars
  <2> QED
    BY <2>2, <2>3, <2>4, <2>5, <2>6, <2>7, NextCases
<1> QED
  BY <1>3, <1>4, <1>5

\* "since ackTime will always be bigger than sent_tstamp_pcap"
\* (getSendAckTimeDiff): for a capture that misses nothing, with the acks in
\* order, no range with bytes has a negative latency.
THEOREM LatencyNeverNegative ==
    ASSUME InOrderCapture
    PROVE  Spec => []DataLatencyNonNegative
<1>1. Init => InOrderInv /\ Timeless
  <2>1. Init => Timeless
    BY DEF Init, rmInit, Timeless, Keys
  <2> QED
    BY <2>1, InitCounters, InitPartition, InitAcks DEF InOrderInv
<1>2. InOrderInv /\ Timeless /\ [Next]_vars => InOrderInv' /\ Timeless'
  BY NextInOrder, NextTimeless
<1>3. InOrderInv /\ Timeless => DataLatencyNonNegative
  <2> SUFFICES ASSUME InOrderInv, Timeless, NEW k \in WithData
               PROVE  getSendAckTimeDiff(k) >= 0
    BY DEF DataLatencyNonNegative
  <2>1. TypeOK /\ PartitionInv /\ AckInv /\ k \in Keys /\ byte_count(k) # 0
    BY DEF InOrderInv, CountersInv, WithData
  <2>2. /\ k \in Nat /\ ranges[k] \in ByteRanges /\ ranges[k].endSeq \in Nat
        /\ ranges[k].sent_tstamp_pcap # <<>>
    BY <2>1 DEF TypeOK, rmTypeOK, Keys, ByteRanges, AckInv, EverySent
  <2>3. HasBytes(k)
    <3>1. k <= ranges[k].endSeq
      BY <2>1 DEF PartitionInv, RangesInStream
    <3> QED
      BY <2>1, <2>2, <3>1 DEF HasBytes, byte_count
  <2>4. CASE ~ranges[k].acked
    BY <2>1, <2>4 DEF Timeless, getSendAckTimeDiff
  <2>5. CASE ranges[k].acked
    <3>1. PICK i \in 1 .. ackNo :
            ranges[k].endSeq <= acks[i].ack /\ ranges[k].ackTime = acks[i].time
      BY <2>1, <2>3, <2>5 DEF AckInv, AckedByFirst
    <3>2. i \in 1 .. Len(acks) /\ acks[i].ack \in Nat /\ acks[i].time \in Nat
      BY <2>1, AckTypes DEF AckInv, AcksInOrder
    <3>3. k < acks[i].ack
      BY <2>2, <2>3, <3>1, <3>2 DEF HasBytes
    <3>4. getSendTime(ranges[k]) <= acks[i].time
      BY <2>1, <2>3, <3>2, <3>3 DEF AckInv, SentBeforeAck
    <3>5. getSendTime(ranges[k]) \in Nat
      BY <2>2, SendTimeType
    <3> QED
      BY <3>1, <3>2, <3>4, <3>5 DEF getSendAckTimeDiff
  <2> QED
    BY <2>4, <2>5
<1> QED
  BY <1>1, <1>2, <1>3, InOrderHolds, PTL DEF Spec

-----------------------------------------------------------------------------
(* The counters that the totals add up. *)

\* s has the counters of r.
SameTally(s, r) ==
    /\ s.packet_sent_count = r.packet_sent_count
    /\ s.packet_retrans_count = r.packet_retrans_count
    /\ s.acked_sent = r.acked_sent
    /\ s.data_sent_count = r.data_sent_count
    /\ s.data_retrans_count = r.data_retrans_count
    /\ s.rdb_count = r.rdb_count
    /\ s.syn = r.syn /\ s.rst = r.rst
    /\ s.packet_received_count = r.packet_received_count

\* s has those of the range that split cuts from r: the packets stay with r.
SplitTally(s, r) ==
    /\ s.packet_sent_count = 0 /\ s.packet_retrans_count = 0 /\ s.acked_sent = 0
    /\ s.data_sent_count = r.data_sent_count
    /\ s.data_retrans_count = r.data_retrans_count
    /\ s.rdb_count = 0
    /\ s.syn = 0 /\ s.rst = 0
    /\ s.packet_received_count = 0

\* s has those of r, plus what the segment in hand adds to a range it covers, a
\* retransmission if again holds.
CreditTally(s, r, again) ==
    /\ s.packet_sent_count = Add(r.packet_sent_count, SENT /\ Outermost /\ ~again)
    /\ s.packet_retrans_count = Add(r.packet_retrans_count, SENT /\ Outermost /\ again)
    /\ s.acked_sent = r.acked_sent
    /\ s.data_sent_count = Add(r.data_sent_count, SENT)
    /\ s.data_retrans_count = Add(r.data_retrans_count, SENT /\ again)
    /\ s.rdb_count = Add(r.rdb_count, SENT /\ seg.is_rdb)
    /\ s.syn = r.syn /\ s.rst = r.rst
    /\ s.packet_received_count = Add(r.packet_received_count, ~SENT /\ Outermost)

\* A counter below its limit counts.
LEMMA AddExact ==
    ASSUME NEW n \in Nat, n + 1 < CounterMod
    PROVE  Add(n, TRUE) = n + 1 /\ Add(n, FALSE) = n
<1>1. CounterMod \in Nat /\ CounterMod > 0
  BY CounterModAssumption
<1>2. (n + 1) % CounterMod = n + 1
  BY <1>1
<1> QED
  BY <1>2 DEF Add

\* What splitEnd leaves of a range, and what it cuts off.
LEMMA SplitTallies ==
    ASSUME NEW r \in ByteRanges, NEW at \in Nat
    PROVE  SameTally(Truncate(r, at), r) /\ SplitTally(split(r, at), r)
<1>1. SameTally(Truncate(r, at), r)
  BY DEF Truncate, SameTally, ByteRanges
<1>2. SplitTally(split(r, at), r)
  BY DEF split, SplitTally, newByteRange
<1> QED
  BY <1>1, <1>2

\* The fields of a transmission.
LEMMA IncreaseSentTally ==
    ASSUME NEW r \in ByteRanges, NEW time, NEW rdb, NEW t
    PROVE  LET i == increase_sent(r, time, rdb, t)
           IN /\ i.packet_sent_count = Add(r.packet_sent_count, t \in {"ST_PKT", "ST_RST"})
              /\ i.packet_retrans_count = Add(r.packet_retrans_count, t = "ST_RTR")
              /\ i.acked_sent = Add(r.acked_sent, t = "ST_PURE_ACK")
              /\ i.data_sent_count = Add(r.data_sent_count, t \notin {"ST_PURE_ACK", "ST_RST"})
              /\ i.data_retrans_count = r.data_retrans_count
              /\ i.rdb_count = r.rdb_count
              /\ i.syn = r.syn /\ i.fin = r.fin /\ i.rst = r.rst
              /\ i.packet_received_count = r.packet_received_count
BY DEF increase_sent, ByteRanges

\* Those of a reception.
LEMMA IncreaseReceivedTally ==
    ASSUME NEW r \in ByteRanges, NEW ts, NEW time
    PROVE  SameTally(increase_received(r, ts, time), r)
           /\ increase_received(r, ts, time).fin = r.fin
BY DEF increase_received, SameTally, ByteRanges

\* What a segment adds to a range.
LEMMA CreditTallies ==
    ASSUME rmTypeOK, NEW r \in ByteRanges
    PROVE  /\ CreditTally(Credit(r), r, seg.retrans)
           /\ CreditTally(CreditSplit(r), r, TRUE)
           /\ SameTally(SetFin(r), r)
<1>1. /\ seg.time \in Nat /\ seg.tstamp_tcp \in Nat /\ this_is_rdb_data \in BOOLEAN
      /\ seg.retrans \in BOOLEAN /\ seg.is_rdb \in BOOLEAN
  BY SegmentType DEF rmTypeOK, Segments
<1>2. CASE SENT
  <2>1. CreditTally(Credit(r), r, seg.retrans)
    <3> DEFINE t == IF ~Outermost THEN "ST_NONE" ELSE IF seg.retrans THEN "ST_RTR" ELSE "ST_PKT"
               i == increase_sent(r, seg.time, this_is_rdb_data, t)
               a == Add(i.fin, Outermost /\ seg.flag = "fin")
               b == Add(i.data_retrans_count, seg.retrans)
               c == Add(i.rdb_count, seg.is_rdb)
    <3>1. i \in ByteRanges
      BY <1>1, IncreaseSentType DEF SentTypes
    <3>2. Credit(r) = [i EXCEPT !.fin = a, !.data_retrans_count = b, !.rdb_count = c]
      BY <1>2 DEF Credit
    <3>3. /\ i.packet_sent_count = Add(r.packet_sent_count, t \in {"ST_PKT", "ST_RST"})
          /\ i.packet_retrans_count = Add(r.packet_retrans_count, t = "ST_RTR")
          /\ i.acked_sent = Add(r.acked_sent, t = "ST_PURE_ACK")
          /\ i.data_sent_count = Add(r.data_sent_count, t \notin {"ST_PURE_ACK", "ST_RST"})
          /\ i.data_retrans_count = r.data_retrans_count /\ i.rdb_count = r.rdb_count
          /\ i.syn = r.syn /\ i.rst = r.rst
          /\ i.packet_received_count = r.packet_received_count
      BY IncreaseSentTally
    <3> HIDE DEF a, b, c, i
    <3>4. /\ Credit(r).packet_sent_count = i.packet_sent_count
          /\ Credit(r).packet_retrans_count = i.packet_retrans_count
          /\ Credit(r).acked_sent = i.acked_sent
          /\ Credit(r).data_sent_count = i.data_sent_count
          /\ Credit(r).data_retrans_count = b /\ Credit(r).rdb_count = c
          /\ Credit(r).syn = i.syn /\ Credit(r).rst = i.rst
          /\ Credit(r).packet_received_count = i.packet_received_count
      BY <3>1, <3>2 DEF ByteRanges
    <3> QED
      BY <1>1, <1>2, <3>3, <3>4 DEF CreditTally, Add, b, c
  <2>2. CreditTally(CreditSplit(r), r, TRUE)
    <3> DEFINE t == IF Outermost THEN "ST_RTR" ELSE "ST_NONE"
               i == increase_sent(r, seg.time, this_is_rdb_data, t)
               b == Add(i.data_retrans_count, TRUE)
               c == Add(i.rdb_count, seg.is_rdb)
    <3>1. i \in ByteRanges
      BY <1>1, IncreaseSentType DEF SentTypes
    <3>2. CreditSplit(r) = [i EXCEPT !.data_retrans_count = b, !.rdb_count = c]
      BY <1>2 DEF CreditSplit
    <3>3. /\ i.packet_sent_count = Add(r.packet_sent_count, t \in {"ST_PKT", "ST_RST"})
          /\ i.packet_retrans_count = Add(r.packet_retrans_count, t = "ST_RTR")
          /\ i.acked_sent = Add(r.acked_sent, t = "ST_PURE_ACK")
          /\ i.data_sent_count = Add(r.data_sent_count, t \notin {"ST_PURE_ACK", "ST_RST"})
          /\ i.data_retrans_count = r.data_retrans_count /\ i.rdb_count = r.rdb_count
          /\ i.syn = r.syn /\ i.rst = r.rst
          /\ i.packet_received_count = r.packet_received_count
      BY IncreaseSentTally
    <3> HIDE DEF b, c, i
    <3>4. /\ CreditSplit(r).packet_sent_count = i.packet_sent_count
          /\ CreditSplit(r).packet_retrans_count = i.packet_retrans_count
          /\ CreditSplit(r).acked_sent = i.acked_sent
          /\ CreditSplit(r).data_sent_count = i.data_sent_count
          /\ CreditSplit(r).data_retrans_count = b /\ CreditSplit(r).rdb_count = c
          /\ CreditSplit(r).syn = i.syn /\ CreditSplit(r).rst = i.rst
          /\ CreditSplit(r).packet_received_count = i.packet_received_count
      BY <3>1, <3>2 DEF ByteRanges
    <3> QED
      BY <1>1, <1>2, <3>3, <3>4 DEF CreditTally, Add, b, c
  <2>3. SameTally(SetFin(r), r)
    BY DEF SetFin, SameTally, ByteRanges
  <2> QED
    BY <1>2, <2>1, <2>2, <2>3
<1>3. CASE ~SENT
  <2>1. CreditTally(Credit(r), r, seg.retrans)
    <3> DEFINE i == increase_received(r, seg.tstamp_tcp, seg.time)
               a == Add(i.packet_received_count, Outermost)
    <3>1. i \in ByteRanges
      BY <1>1, IncreaseReceivedType
    <3>2. Credit(r) = [i EXCEPT !.packet_received_count = a]
      BY <1>3 DEF Credit
    <3>3. SameTally(i, r)
      BY IncreaseReceivedTally
    <3> HIDE DEF a, i
    <3>4. /\ Credit(r).packet_sent_count = i.packet_sent_count
          /\ Credit(r).packet_retrans_count = i.packet_retrans_count
          /\ Credit(r).acked_sent = i.acked_sent
          /\ Credit(r).data_sent_count = i.data_sent_count
          /\ Credit(r).data_retrans_count = i.data_retrans_count
          /\ Credit(r).rdb_count = i.rdb_count
          /\ Credit(r).syn = i.syn /\ Credit(r).rst = i.rst
          /\ Credit(r).packet_received_count = a
      BY <3>1, <3>2 DEF ByteRanges
    <3> QED
      BY <1>3, <3>3, <3>4 DEF CreditTally, SameTally, Add, a
  <2>2. CreditTally(CreditSplit(r), r, TRUE)
    BY <1>3, <2>1 DEF CreditSplit, CreditTally
  <2>3. SameTally(SetFin(r), r)
    BY DEF SetFin, SameTally, ByteRanges
  <2> QED
    BY <1>3, <2>1, <2>2, <2>3
<1> QED
  BY <1>2, <1>3

-----------------------------------------------------------------------------
(* What a call of insertByteRange does to them. *)

\* The call covers the bytes up to upTo of the range at k.  It cuts off what is
\* in front of the segment and what is behind it, and counts the segment on what
\* is left.
Tallies(k, upTo) ==
    LET a == frame.start
        r == ranges[k]
        behind == IF upTo < r.endSeq THEN {upTo} ELSE {}
    IN /\ op = "insert" /\ ~ZeroLength
       /\ k <= a /\ a < upTo /\ upTo <= r.endSeq /\ upTo <= frame.end
       /\ k = a \/ a \notin Keys
       /\ behind \cap Keys = {}
       /\ Keys' = Keys \cup {a} \cup behind
       /\ \A j \in Keys : j # k => ranges'[j] = ranges[j]
       /\ k # a => ranges'[k].endSeq = a /\ SameTally(ranges'[k], r)
       /\ ranges'[a].endSeq = upTo
       /\ k = a => CreditTally(ranges'[a], r, seg.retrans)
       /\ k # a => \E s : SplitTally(s, r) /\ CreditTally(ranges'[a], s, TRUE)
       /\ \A u \in behind : ranges'[u].endSeq = r.endSeq /\ SplitTally(ranges'[u], r)
       /\ \/ upTo = frame.end /\ Return
          \/ upTo = r.endSeq /\ upTo < frame.end /\ Recurse(upTo)

\* Counters are passed on.
LEMMA TallyTransitive ==
    ASSUME NEW r, NEW s, NEW t, SameTally(t, s)
    PROVE  /\ SameTally(s, r) => SameTally(t, r)
           /\ SplitTally(s, r) => SplitTally(t, r)
BY DEF SameTally, SplitTally

\* So are those of a range cut twice.
LEMMA SplitTallyTransitive ==
    ASSUME NEW r, NEW s, NEW t, SplitTally(s, r), SplitTally(t, s)
    PROVE  SplitTally(t, r)
BY DEF SplitTally

\* A segment that starts inside a range covers the rest of that range.
LEMMA SplitHostTallies ==
    ASSUME TypeOK, StepInv, SplitHost
    PROVE  \E k \in Keys, upTo \in Nat : Tallies(k, upTo)
<1> DEFINE a == frame.start
           b == frame.end
<1>1. /\ rmTypeOK /\ RangeMap(ranges) /\ Keys \subseteq Nat
      /\ \A k \in Keys : ranges[k] \in ByteRanges /\ ranges[k].endSeq \in Nat
  BY DEF TypeOK, rmTypeOK, RangeMap, Keys, ByteRanges
<1>2. /\ a \in Nat /\ b \in Nat /\ a < b /\ a # b /\ a \notin Keys /\ op = "insert" /\ ~ZeroLength
      /\ Typed /\ Disjoint
  BY DEF StepInv, Typed, CallInStream, SplitHost
<1>3. PICK k \in Keys :
        LET host == ranges[k]
            cut == SplitAt(ranges, k, a)
        IN /\ Host(k)
           /\ IF b > host.endSeq
              THEN /\ ranges' = Put(cut, a, CreditSplit(cut[a]))
                   /\ Recurse(host.endSeq)
              ELSE LET cut2 == IF b = host.endSeq THEN cut
                               ELSE SplitAt(cut, a, b)
                   IN /\ ranges' = Put(cut2, a, CreditSplit(SetFin(cut2[a])))
                      /\ Return
  BY DEF SplitHost
<1> DEFINE r == ranges[k]
           E == r.endSeq
           cut == SplitAt(ranges, k, a)
<1>4. /\ k < a /\ a < E /\ E \in Nat /\ k \in Nat /\ k \in DOMAIN ranges /\ a # k
      /\ a \notin DOMAIN ranges /\ r \in ByteRanges
  BY <1>1, <1>2, <1>3 DEF Host, IsPrev, Keys
<1>5. /\ RangeMap(cut)
      /\ DOMAIN cut = Keys \cup {a}
      /\ cut[k].endSeq = a
      /\ cut[a].endSeq = E
      /\ \A j \in Keys : j # k => cut[j] = ranges[j]
  <2>1. SplitFacts(ranges, k, a)
    BY <1>1, <1>2, <1>4, SplitAtType
  <2> QED
    BY <1>4, <2>1 DEF Keys, SplitFacts
<1>6. SameTally(cut[k], r) /\ SplitTally(cut[a], r)
  <2>1. cut[k] = Truncate(r, a) /\ cut[a] = split(r, a)
    BY <1>1, <1>2, <1>4, SplitAtRecords
  <2> QED
    BY <1>2, <1>4, <2>1, SplitTallies
<1>7. cut[k] \in ByteRanges /\ cut[a] \in ByteRanges
  BY <1>4, <1>5 DEF RangeMap, Keys
<1> HIDE DEF cut
<1>8. \A j \in Keys : (j < k => ranges[j].endSeq <= k) /\ (j > k => E <= j)
  BY <1>2, <1>4 DEF Disjoint
<1>9. CASE b >= E
  <2> DEFINE c == IF b > E THEN cut[a] ELSE SetFin(cut[a])
             n == CreditSplit(c)
  <2>1. c \in ByteRanges /\ c.endSeq = E /\ SplitTally(c, r)
    <3>1. SetFin(cut[a]) \in ByteRanges /\ SetFin(cut[a]).endSeq = E
      BY <1>1, <1>5, <1>7, CreditType
    <3>2. SameTally(SetFin(cut[a]), cut[a])
      BY <1>1, <1>7, CreditTallies
    <3>3. SplitTally(SetFin(cut[a]), r)
      BY <1>6, <3>2, TallyTransitive
    <3> QED
      BY <1>5, <1>6, <1>7, <3>1, <3>3
  <2> HIDE DEF c
  <2>2. n \in ByteRanges /\ n.endSeq = E
    BY <1>1, <2>1, CreditType
  <2>3. CreditTally(n, c, TRUE)
    BY <1>1, <2>1, CreditTallies
  <2>4. /\ ranges' = Put(cut, a, n)
        /\ (b > E /\ Recurse(E)) \/ (b = E /\ Return)
    <3>1. CASE b > E
      BY <1>3, <3>1 DEF cut, c
    <3>2. CASE b = E /\ ~(b > E)
      BY <1>3, <3>2 DEF cut, c
    <3> QED
      BY <1>2, <1>4, <1>9, <3>1, <3>2
  <2> HIDE DEF n
  <2>5. PutFacts(cut, a, n)
    BY <1>2, <1>5, <2>2, PutType
  <2>6. /\ Keys' = Keys \cup {a} /\ ranges'[a] = n /\ ranges'[k] = cut[k]
        /\ \A j \in Keys : j # k => ranges'[j] = ranges[j]
    BY <1>2, <1>4, <1>5, <2>4, <2>5 DEF PutFacts, Keys
  <2>7. /\ k <= a /\ a < E /\ E <= E /\ E <= b /\ ~(E < E)
        /\ (E = b /\ Return) \/ (E = E /\ E < b /\ Recurse(E))
    BY <1>2, <1>4, <1>9, <2>4
  <2>8. ranges'[k].endSeq = a /\ SameTally(ranges'[k], r) /\ ranges'[a].endSeq = E
    BY <1>5, <1>6, <2>2, <2>6
  <2>9. \E s : SplitTally(s, r) /\ CreditTally(ranges'[a], s, TRUE)
    BY <2>1, <2>3, <2>6
  <2>10. Tallies(k, E)
    BY <1>2, <1>4, <2>6, <2>7, <2>8, <2>9 DEF Tallies
  <2> QED
    BY <1>4, <2>10
<1>10. CASE b < E
  <2> DEFINE cut2 == SplitAt(cut, a, b)
             c == SetFin(cut2[a])
             n == CreditSplit(c)
  <2>1. b \notin Keys /\ b \notin DOMAIN cut /\ a \in DOMAIN cut
    BY <1>2, <1>4, <1>5, <1>8, <1>10
  <2>2. /\ RangeMap(cut2)
        /\ DOMAIN cut2 = Keys \cup {a, b}
        /\ cut2[a].endSeq = b
        /\ cut2[b].endSeq = E
        /\ \A j \in DOMAIN cut : j # a => cut2[j] = cut[j]
    <3>1. SplitFacts(cut, a, b)
      BY <1>2, <1>5, <2>1, SplitAtType
    <3> QED
      BY <1>5, <2>1, <3>1 DEF SplitFacts
  <2>3. SameTally(cut2[a], cut[a]) /\ SplitTally(cut2[b], cut[a])
    <3>1. b # a /\ b \in Nat /\ RangeMap(cut) /\ a \in DOMAIN cut /\ b \notin DOMAIN cut
      BY <1>2, <1>5, <2>1
    <3> HIDE DEF a, b
    <3>2. cut2[a] = Truncate(cut[a], b) /\ cut2[b] = split(cut[a], b)
      BY <3>1, SplitAtRecords
    <3> QED
      BY <1>7, <3>1, <3>2, SplitTallies
  <2>4. cut2[a] \in ByteRanges
    BY <2>2 DEF RangeMap
  <2> HIDE DEF cut2
  <2>5. c \in ByteRanges /\ c.endSeq = b
    BY <1>1, <2>2, <2>4, CreditType
  <2>6. SameTally(c, cut2[a])
    BY <1>1, <2>4, CreditTallies
  <2> HIDE DEF c
  <2>7. SplitTally(c, r) /\ SplitTally(cut2[b], r)
    <3>1. SplitTally(cut2[a], r)
      BY <1>6, <2>3, TallyTransitive
    <3>2. SplitTally(c, r)
      BY <2>6, <3>1, TallyTransitive
    <3>3. SplitTally(cut2[b], r)
      BY <1>6, <2>3, SplitTallyTransitive
    <3> QED
      BY <3>2, <3>3
  <2>8. n \in ByteRanges /\ n.endSeq = b
    BY <1>1, <2>5, CreditType
  <2>9. CreditTally(n, c, TRUE)
    BY <1>1, <2>5, CreditTallies
  <2>10. ranges' = Put(cut2, a, n) /\ Return
    <3>1. ~(b > E) /\ b # E
      BY <1>2, <1>4, <1>10
    <3> QED
      BY <1>3, <3>1 DEF cut, cut2, c
  <2> HIDE DEF n
  <2>11. PutFacts(cut2, a, n)
    BY <1>2, <2>2, <2>8, PutType
  <2>12. /\ Keys' = Keys \cup {a, b} /\ ranges'[a] = n /\ ranges'[b] = cut2[b]
         /\ ranges'[k] = cut[k]
         /\ \A j \in Keys : j # k => ranges'[j] = ranges[j]
    BY <1>2, <1>4, <1>5, <2>1, <2>2, <2>10, <2>11 DEF PutFacts, Keys
  <2>13. k <= a /\ b <= E /\ b <= b
    BY <1>2, <1>4, <1>10
  <2>14. ranges'[k].endSeq = a /\ SameTally(ranges'[k], r) /\ ranges'[a].endSeq = b
    BY <1>5, <1>6, <2>8, <2>12
  <2>15. \E s : SplitTally(s, r) /\ CreditTally(ranges'[a], s, TRUE)
    BY <2>7, <2>9, <2>12
  <2>16. \A u \in {b} : ranges'[u].endSeq = E /\ SplitTally(ranges'[u], r)
    BY <2>2, <2>7, <2>12
  <2>17. {b} \cap Keys = {} /\ Keys' = Keys \cup {a} \cup {b}
    BY <2>1, <2>12
  <2>18. Tallies(k, b)
    BY <1>2, <1>4, <1>10, <2>10, <2>12, <2>13, <2>14, <2>15, <2>16, <2>17 DEF Tallies
  <2> QED
    BY <1>2, <2>18
<1> QED
  BY <1>2, <1>4, <1>9, <1>10

\* A segment that starts where a range does covers the range, or the part of it
\* up to the segment's end.
LEMMA CoverTallies ==
    ASSUME TypeOK, StepInv, SpanRange \/ SplitTail \/ UpdateRange, seg.flag # "syn",
           op' \notin Failures
    PROVE  \E k \in Keys, upTo \in Nat : Tallies(k, upTo)
<1> DEFINE a == frame.start
           b == frame.end
           r == ranges[a]
           E == r.endSeq
<1>1. /\ rmTypeOK /\ RangeMap(ranges) /\ Keys \subseteq Nat
      /\ \A k \in Keys : ranges[k] \in ByteRanges /\ ranges[k].endSeq \in Nat
  BY DEF TypeOK, rmTypeOK, RangeMap, Keys, ByteRanges
<1>2. StartFound /\ op = "insert" /\ ~ZeroLength /\ a \in Keys /\ (SENT => byte_count(a) # 0)
  <2>1. StartFound /\ op = "insert" /\ ~ZeroLength /\ a \in Keys
    BY DEF SpanRange, SplitTail, UpdateRange, StartFound
  <2>2. a \in Nat /\ b \in Nat /\ a < b /\ E \in Nat
    BY <1>1, <2>1 DEF StepInv, Typed, CallInStream
  <2>3. SENT => byte_count(a) # 0
    BY <2>2 DEF SpanRange, SplitTail, UpdateRange, byte_count
  <2> QED
    BY <2>1, <2>3
<1>3. /\ a \in Nat /\ b \in Nat /\ a < b /\ a # b /\ Disjoint
      /\ r \in ByteRanges /\ E \in Nat /\ a < E
  <2>1. HasBytes(a)
    BY <1>2, StartHasBytes
  <2> QED
    BY <1>1, <1>2, <2>1 DEF StepInv, Typed, CallInStream, HasBytes
<1>4. CASE SpanRange \/ UpdateRange
  <2> DEFINE c == Credit(r)
             s == Add(c.syn, seg.flag = "syn")
             u == [c EXCEPT !.syn = s]
  <2>1. PICK n \in ByteRanges :
          ranges' = Put(ranges, a, n) /\ n.endSeq = E /\ CreditTally(n, r, seg.retrans)
    <3>1. c \in ByteRanges /\ c.endSeq = E
      BY <1>1, <1>3, CreditType
    <3>2. CreditTally(c, r, seg.retrans)
      BY <1>1, <1>3, CreditTallies
    <3>3. s = c.syn
      BY DEF Add
    <3> HIDE DEF c, s
    <3>4. u = c
      BY <3>1, <3>3 DEF ByteRanges
    <3>5. ranges' = Put(ranges, a, c) \/ ranges' = Put(ranges, a, u)
      BY <1>4 DEF SpanRange, UpdateRange, c, s
    <3> HIDE DEF u
    <3> QED
      BY <3>1, <3>2, <3>4, <3>5
  <2>2. PutFacts(ranges, a, n)
    BY <1>1, <1>3, <2>1, PutType
  <2>3. /\ Keys' = Keys /\ ranges'[a] = n
        /\ \A j \in Keys : j # a => ranges'[j] = ranges[j]
    BY <1>2, <2>1, <2>2 DEF PutFacts, Keys
  <2>4. \/ E = b /\ Return
        \/ E < b /\ Recurse(E)
    <3>1. CASE SpanRange
      BY <3>1 DEF SpanRange, Fail, Failures
    <3>2. CASE UpdateRange
      BY <3>2 DEF UpdateRange
    <3> QED
      BY <1>4, <3>1, <3>2
  <2>5. a <= a /\ E <= E /\ ~(E < E) /\ E <= b /\ Keys' = Keys \cup {a} \cup {}
    BY <1>2, <1>3, <2>3, <2>4
  <2>6. ranges'[a].endSeq = E /\ CreditTally(ranges'[a], r, seg.retrans)
    BY <2>1, <2>3
  <2>7. Tallies(a, E)
    BY <1>2, <1>3, <2>3, <2>4, <2>5, <2>6 DEF Tallies
  <2> QED
    BY <1>2, <1>3, <2>7
<1>5. CASE SplitTail
  <2> DEFINE cut == SplitAt(ranges, a, b)
             n == Credit(cut[a])
  <2>1. b < E /\ Return /\ ranges' = Put(cut, a, n)
    BY <1>3, <1>5 DEF SplitTail
  <2>2. b \notin Keys /\ a \in DOMAIN ranges /\ b \notin DOMAIN ranges
    BY <1>1, <1>2, <1>3, <2>1 DEF Disjoint, Keys
  <2>3. /\ RangeMap(cut) /\ DOMAIN cut = Keys \cup {b}
        /\ cut[a].endSeq = b /\ cut[b].endSeq = E
        /\ \A j \in Keys : j # a => cut[j] = ranges[j]
    <3>1. SplitFacts(ranges, a, b)
      BY <1>1, <1>3, <2>2, SplitAtType
    <3> QED
      BY <2>2, <3>1 DEF SplitFacts, Keys
  <2>4. SameTally(cut[a], r) /\ SplitTally(cut[b], r) /\ cut[a] \in ByteRanges
    <3>1. cut[a] = Truncate(r, b) /\ cut[b] = split(r, b)
      BY <1>1, <1>3, <2>2, SplitAtRecords
    <3>2. cut[a] \in ByteRanges
      BY <1>2, <2>3 DEF RangeMap
    <3> QED
      BY <1>3, <3>1, <3>2, SplitTallies
  <2> HIDE DEF cut
  <2>5. n \in ByteRanges /\ n.endSeq = b
    BY <1>1, <2>3, <2>4, CreditType
  <2>6. CreditTally(n, cut[a], seg.retrans)
    BY <1>1, <2>4, CreditTallies
  <2> HIDE DEF n
  <2>7. CreditTally(n, r, seg.retrans)
    BY <2>4, <2>6 DEF CreditTally, SameTally
  <2>8. PutFacts(cut, a, n)
    BY <1>3, <2>3, <2>5, PutType
  <2>9. /\ Keys' = Keys \cup {b} /\ ranges'[a] = n /\ ranges'[b] = cut[b]
        /\ \A j \in Keys : j # a => ranges'[j] = ranges[j]
    BY <1>2, <1>3, <2>1, <2>2, <2>3, <2>8 DEF PutFacts, Keys
  <2>10. /\ a <= a /\ b <= E /\ b <= b /\ Keys' = Keys \cup {a} \cup {b}
         /\ {b} \cap Keys = {}
    BY <1>2, <1>3, <2>1, <2>2, <2>9
  <2>11. \A u \in {b} : ranges'[u].endSeq = E /\ SplitTally(ranges'[u], r)
    BY <2>3, <2>4, <2>9
  <2>12. ranges'[a].endSeq = b /\ CreditTally(ranges'[a], r, seg.retrans)
    BY <2>5, <2>7, <2>9
  <2>13. Tallies(a, b)
    BY <1>2, <1>3, <2>1, <2>9, <2>10, <2>11, <2>12 DEF Tallies
  <2> QED
    BY <1>2, <1>3, <2>13
<1> QED
  BY <1>4, <1>5

\* What opening a range counts: the packet, unless it is a bundle whose first
\* part is counted already.
OpenTally ==
    LET a == frame.start
        s == ranges'[a]
    IN IF a \in Keys
       THEN LET r == ranges[a]
            IN /\ s.packet_sent_count = Add(r.packet_sent_count, TRUE)
               /\ s.packet_retrans_count = r.packet_retrans_count
               /\ s.acked_sent = r.acked_sent
               /\ s.data_retrans_count = r.data_retrans_count
               /\ s.rdb_count = r.rdb_count
               /\ s.syn = r.syn /\ s.rst = r.rst
               /\ s.packet_received_count = r.packet_received_count
       ELSE /\ s.packet_sent_count = Add(0, ~seg.is_rdb)
            /\ s.packet_retrans_count = 0 /\ s.acked_sent = 0
            /\ s.data_retrans_count = 0 /\ s.rdb_count = 0
            /\ s.syn = 0 /\ s.rst = 0
            /\ s.packet_received_count = 0

\* A new range, or one that is filled, counts that way.
LEMMA OpensTally ==
    ASSUME TypeOK, StepInv, EverySent, Opens, InsertNew \/ FillEmpty
    PROVE  OpenTally
<1> DEFINE a == frame.start
           b == frame.end
<1>1. /\ a \in Nat /\ b \in Nat /\ b - a \in Int /\ RangeMap(ranges) /\ Keys' = Keys \cup {a}
      /\ seg.time \in Nat /\ this_is_rdb_data \in BOOLEAN /\ payloadSize(seg) \in Int
      /\ seg.is_rdb \in BOOLEAN /\ SENT /\ Return /\ op = "insert"
  <2>1. payloadSize(seg) \in Int /\ seg.is_rdb \in BOOLEAN
    BY DEF TypeOK, rmTypeOK, Segments, payloadSize
  <2> QED
    BY <2>1, SegmentType DEF StepInv, Typed, TypeOK, rmTypeOK, RangeMap, Opens
<1>2. CASE InsertNew
  <2> DEFINE m == newByteRange(a, b)
             t == IF seg.is_rdb THEN "ST_NONE" ELSE "ST_PKT"
             i == increase_sent(m, seg.time, this_is_rdb_data, t)
             f == Add(i.fin, seg.flag = "fin")
             p == payloadSize(seg)
             r == [i EXCEPT !.fin = f, !.original_payload_size = p]
  <2>1. a \notin Keys
    BY <1>2 DEF InsertNew
  <2>2. ranges' = Put(ranges, a, r)
    BY <1>1, <1>2 DEF InsertNew, Return, Fail
  <2>3. m \in ByteRanges
    BY <1>1, NewByteRangeType
  <2>4. /\ m.packet_sent_count = 0 /\ m.packet_retrans_count = 0 /\ m.acked_sent = 0
        /\ m.data_retrans_count = 0 /\ m.rdb_count = 0 /\ m.syn = 0 /\ m.rst = 0
        /\ m.packet_received_count = 0
    BY DEF newByteRange
  <2> HIDE DEF m
  <2>5. i \in ByteRanges
    BY <1>1, <2>3, IncreaseSentType DEF SentTypes
  <2>6. /\ i.packet_sent_count = Add(m.packet_sent_count, t \in {"ST_PKT", "ST_RST"})
        /\ i.packet_retrans_count = Add(m.packet_retrans_count, t = "ST_RTR")
        /\ i.acked_sent = Add(m.acked_sent, t = "ST_PURE_ACK")
        /\ i.data_retrans_count = m.data_retrans_count /\ i.rdb_count = m.rdb_count
        /\ i.syn = m.syn /\ i.rst = m.rst
        /\ i.packet_received_count = m.packet_received_count
    BY <2>3, IncreaseSentTally
  <2> HIDE DEF i, f, p
  <2>7. /\ r.packet_sent_count = i.packet_sent_count
        /\ r.packet_retrans_count = i.packet_retrans_count
        /\ r.acked_sent = i.acked_sent
        /\ r.data_retrans_count = i.data_retrans_count /\ r.rdb_count = i.rdb_count
        /\ r.syn = i.syn /\ r.rst = i.rst
        /\ r.packet_received_count = i.packet_received_count
    BY <2>5 DEF ByteRanges
  <2> HIDE DEF r
  <2>8. ranges'[a] = r
    BY <2>2 DEF Put
  <2> QED
    BY <1>1, <2>1, <2>4, <2>6, <2>7, <2>8 DEF OpenTally, Add
<1>3. CASE FillEmpty
  <2> DEFINE q == Truncate(ranges[a], b)
             o == [q EXCEPT !.original_payload_size = b - a]
             r == increase_sent(o, seg.time, this_is_rdb_data, "ST_PKT")
  <2>1. a \in Keys /\ ranges[a] \in ByteRanges
    BY <1>3 DEF FillEmpty, StartFound, TypeOK, rmTypeOK, Keys
  <2>2. ranges' = Put(ranges, a, r)
    <3>1. \A n \in Keys : ~(n > a)
      <4>1. \A n \in Keys : n <= a
        BY DEF Opens
      <4> QED
        BY <4>1 DEF StepInv, Typed
    <3> QED
      BY <1>3, <3>1 DEF FillEmpty, IsNext
  <2>3. q \in ByteRanges /\ SameTally(q, ranges[a])
    BY <1>1, <2>1, SplitType, SplitTallies
  <2> HIDE DEF q
  <2>4. o \in ByteRanges /\ SameTally(o, q)
    BY <1>1, <2>3 DEF ByteRanges, SameTally
  <2> HIDE DEF o
  <2>5. /\ r.packet_sent_count = Add(o.packet_sent_count, "ST_PKT" \in {"ST_PKT", "ST_RST"})
        /\ r.packet_retrans_count = Add(o.packet_retrans_count, "ST_PKT" = "ST_RTR")
        /\ r.acked_sent = Add(o.acked_sent, "ST_PKT" = "ST_PURE_ACK")
        /\ r.data_retrans_count = o.data_retrans_count /\ r.rdb_count = o.rdb_count
        /\ r.syn = o.syn /\ r.rst = o.rst
        /\ r.packet_received_count = o.packet_received_count
    BY <2>4, IncreaseSentTally
  <2> HIDE DEF r
  <2>6. ranges'[a] = r
    BY <2>2 DEF Put
  <2>7. SameTally(o, ranges[a])
    BY <2>3, <2>4, TallyTransitive
  <2> QED
    BY <2>1, <2>5, <2>6, <2>7 DEF OpenTally, SameTally, Add
<1> QED
  BY <1>2, <1>3

\* s has the counters of r, plus what a segment without payload counts: a pure
\* ack, or a SYN, FIN or RST as a packet or, if first does not hold and it is not
\* a RST, as a retransmission; in the receiver's trace a packet.
FlagTally(s, r, first) ==
    LET packet == SENT /\ seg.flag # "none"
        sent == first \/ seg.flag = "rst"
    IN /\ s.packet_sent_count = Add(r.packet_sent_count, packet /\ sent)
       /\ s.packet_retrans_count = Add(r.packet_retrans_count, packet /\ ~sent)
       /\ s.acked_sent = Add(r.acked_sent, SENT /\ seg.flag = "none")
       /\ s.data_retrans_count = r.data_retrans_count
       /\ s.rdb_count = r.rdb_count
       /\ s.syn = Add(r.syn, SENT /\ seg.flag = "syn")
       /\ s.fin = Add(r.fin, SENT /\ seg.flag = "fin")
       /\ s.rst = Add(r.rst, SENT /\ seg.flag = "rst")
       /\ s.packet_received_count = Add(r.packet_received_count, ~SENT /\ Outermost)

\* A segment without payload that gets a range of its own.
LEMMA InsertZeroLengthTally ==
    ASSUME TypeOK, StepInv, EverySent, InsertZeroLength, SENT, ~seg.retrans, ~seg.is_rdb
    PROVE  FlagTally(ranges'[frame.start], newByteRange(frame.start, frame.start), TRUE)
<1> DEFINE z == frame.start
           m == newByteRange(z, z)
           c1 == Add(m.packet_retrans_count, seg.retrans)
           c2 == Add(m.rdb_count, seg.is_rdb)
           c3 == Add(m.syn, seg.flag = "syn")
           c4 == Add(m.fin, seg.flag = "fin")
           c5 == Add(m.rst, seg.flag = "rst")
           r == [m EXCEPT !.packet_retrans_count = c1, !.rdb_count = c2,
                          !.syn = c3, !.fin = c4, !.rst = c5]
           t == IF seg.flag # "none" THEN "ST_PKT" ELSE "ST_PURE_ACK"
           i == increase_sent(r, seg.time, this_is_rdb_data, t)
<1>1. start_seq = z
  <2>1. start_seq \notin Keys
    BY DEF InsertZeroLength
  <2> QED
    BY <2>1, InsertZeroLengthShape DEF TypeOK, start_seq
<1>2. ranges'[z] = i
  BY <1>1 DEF InsertZeroLength, Put
<1>3. m \in ByteRanges
  BY NewByteRangeType DEF StepInv, Typed
<1>4. c1 \in Counters /\ c2 \in Counters /\ c3 \in Counters /\ c4 \in Counters /\ c5 \in Counters
  <2> HIDE DEF m
  <2>1. /\ m.packet_retrans_count \in Counters /\ m.rdb_count \in Counters
        /\ m.syn \in Counters /\ m.fin \in Counters /\ m.rst \in Counters
    BY <1>3 DEF ByteRanges
  <2> QED
    BY <2>1, AddType
<1>5. c1 = m.packet_retrans_count /\ c2 = m.rdb_count
  BY DEF Add
<1>6. /\ r \in ByteRanges
      /\ r.packet_sent_count = m.packet_sent_count
      /\ r.packet_retrans_count = c1 /\ r.acked_sent = m.acked_sent
      /\ r.data_retrans_count = m.data_retrans_count /\ r.rdb_count = c2
      /\ r.syn = c3 /\ r.fin = c4 /\ r.rst = c5
      /\ r.packet_received_count = m.packet_received_count
  <2> HIDE DEF m, c1, c2, c3, c4, c5
  <2> QED
    BY <1>3, <1>4 DEF ByteRanges
<1> HIDE DEF r
<1>7. /\ i.packet_sent_count = Add(r.packet_sent_count, t \in {"ST_PKT", "ST_RST"})
      /\ i.packet_retrans_count = Add(r.packet_retrans_count, t = "ST_RTR")
      /\ i.acked_sent = Add(r.acked_sent, t = "ST_PURE_ACK")
      /\ i.data_retrans_count = r.data_retrans_count /\ i.rdb_count = r.rdb_count
      /\ i.syn = r.syn /\ i.fin = r.fin /\ i.rst = r.rst
      /\ i.packet_received_count = r.packet_received_count
  BY <1>6, IncreaseSentTally
<1> HIDE DEF m, i, c1, c2
<1> QED
  BY <1>2, <1>5, <1>6, <1>7 DEF FlagTally, Add, m

\* One at a range that is there.
LEMMA UpdateZeroLengthTally ==
    ASSUME TypeOK, StepInv, EverySent, UpdateZeroLength
    PROVE  FlagTally(ranges'[start_seq], ranges[start_seq], FALSE)
<1> DEFINE z == start_seq
           r == ranges[z]
           t == CASE seg.flag \in {"syn", "fin"} -> "ST_RTR"
                  [] seg.flag = "rst" -> "ST_RST"
                  [] OTHER -> "ST_PURE_ACK"
           i == increase_sent(r, seg.time, this_is_rdb_data, t)
           a == Add(i.syn, seg.flag = "syn")
           b == Add(i.fin, seg.flag = "fin")
           c == Add(i.rst, seg.flag = "rst")
           s == [i EXCEPT !.syn = a, !.fin = b, !.rst = c]
           j == IF seg.flag \in {"syn", "fin"}
                THEN increase_received(r, seg.tstamp_tcp, seg.time) ELSE r
           d == Add(j.packet_received_count, Outermost)
           v == [j EXCEPT !.packet_received_count = d]
<1>1. z \in Keys
  BY DEF UpdateZeroLength
<1>2. /\ r \in ByteRanges /\ seg.flag \in Flags
      /\ seg.time \in Nat /\ seg.tstamp_tcp \in Nat /\ this_is_rdb_data \in BOOLEAN
  BY <1>1, SegmentType DEF TypeOK, rmTypeOK, Keys, Segments
<1>3. CASE SENT
  <2>1. t \in SentTypes
    BY DEF SentTypes
  <2>2. i \in ByteRanges
    BY <1>2, <2>1, IncreaseSentType
  <2>3. /\ i.packet_sent_count = Add(r.packet_sent_count, t \in {"ST_PKT", "ST_RST"})
        /\ i.packet_retrans_count = Add(r.packet_retrans_count, t = "ST_RTR")
        /\ i.acked_sent = Add(r.acked_sent, t = "ST_PURE_ACK")
        /\ i.data_retrans_count = r.data_retrans_count /\ i.rdb_count = r.rdb_count
        /\ i.syn = r.syn /\ i.fin = r.fin /\ i.rst = r.rst
        /\ i.packet_received_count = r.packet_received_count
    BY <1>2, IncreaseSentTally
  <2>4. ranges'[z] = s
    BY <1>3 DEF UpdateZeroLength, Put
  <2> HIDE DEF i
  <2>5. /\ s.packet_sent_count = i.packet_sent_count
        /\ s.packet_retrans_count = i.packet_retrans_count
        /\ s.acked_sent = i.acked_sent
        /\ s.data_retrans_count = i.data_retrans_count /\ s.rdb_count = i.rdb_count
        /\ s.syn = a /\ s.fin = b /\ s.rst = c
        /\ s.packet_received_count = i.packet_received_count
    <3> HIDE DEF a, b, c
    <3> QED
      BY <2>2 DEF ByteRanges
  <2>6. /\ seg.flag = "none" => t = "ST_PURE_ACK"
        /\ seg.flag = "rst" => t = "ST_RST"
        /\ seg.flag \in {"syn", "fin"} => t = "ST_RTR"
    BY <1>2 DEF Flags
  <2> HIDE DEF s, t, r, z
  <2>7. seg.flag \in {"none", "syn", "fin", "rst"}
    BY <1>2 DEF Flags
  <2> QED
    BY <1>3, <2>3, <2>4, <2>5, <2>6, <2>7 DEF FlagTally, Add, z, r
<1>4. CASE ~SENT
  <2>1. j \in ByteRanges /\ SameTally(j, r) /\ j.fin = r.fin
    <3> DEFINE w == increase_received(r, seg.tstamp_tcp, seg.time)
    <3>1. w \in ByteRanges
      BY <1>2, IncreaseReceivedType
    <3>2. SameTally(w, r) /\ w.fin = r.fin
      BY <1>2, IncreaseReceivedTally
    <3>3. j = w \/ j = r
      OBVIOUS
    <3> HIDE DEF w, j
    <3> QED
      BY <1>2, <3>1, <3>2, <3>3 DEF SameTally
  <2>2. ranges'[z] = v
    BY <1>4 DEF UpdateZeroLength, Put
  <2> HIDE DEF j
  <2>3. /\ v.packet_sent_count = j.packet_sent_count
        /\ v.packet_retrans_count = j.packet_retrans_count
        /\ v.acked_sent = j.acked_sent
        /\ v.data_retrans_count = j.data_retrans_count /\ v.rdb_count = j.rdb_count
        /\ v.syn = j.syn /\ v.fin = j.fin /\ v.rst = j.rst
        /\ v.packet_received_count = d
    <3> HIDE DEF d
    <3> QED
      BY <2>1 DEF ByteRanges
  <2> HIDE DEF v
  <2> QED
    BY <1>4, <2>1, <2>2, <2>3 DEF FlagTally, SameTally, Add
<1> QED
  BY <1>3, <1>4

-----------------------------------------------------------------------------
(* What a turn of processAck's loop does to them. *)

\* s has the bytes and the counters of r.
SameRange(s, r) == s.endSeq = r.endSeq /\ s.fin = r.fin /\ SameTally(s, r)

\* The range at k is cut at at, and no packet is counted.
CutsOnly(k, at) ==
    LET r == ranges[k]
    IN /\ k < at /\ at < r.endSeq
       /\ at \notin Keys /\ Keys' = Keys \cup {at}
       /\ \A j \in Keys : j # k => ranges'[j] = ranges[j]
       /\ ranges'[k].endSeq = at /\ SameTally(ranges'[k], r)
       /\ ranges'[at].endSeq = r.endSeq /\ SplitTally(ranges'[at], r)

\* The counters do not know of acknowledgements.
LEMMA AckMarksTally ==
    ASSUME NEW r \in ByteRanges, NEW time \in Nat
    PROVE  LET i == insertAckTime(r, time)
           IN SameRange(i, r) /\ SameRange(CountAck(r), r) /\ SameRange(CountAck(i), r)
<1> DEFINE i == insertAckTime(r, time)
<1>1. i \in ByteRanges
  BY AckTimeType
<1>2. SameRange(i, r) /\ SameRange(CountAck(r), r)
  BY DEF insertAckTime, CountAck, SameRange, SameTally, ByteRanges
<1> HIDE DEF i
<1>3. SameRange(CountAck(i), i)
  BY <1>1 DEF CountAck, SameRange, SameTally, ByteRanges
<1>4. SameRange(CountAck(i), r)
  BY <1>2, <1>3 DEF SameRange, SameTally
<1> QED
  BY <1>2, <1>4 DEF i

\* A turn cuts a range where the ack ends, or changes none of them.
LEMMA AckTallies ==
    ASSUME TypeOK, StepInv, processAck
    PROVE  \/ Keys' = Keys /\ \A k \in Keys : SameRange(ranges'[k], ranges[k])
           \/ \E k \in Keys, at \in Nat : CutsOnly(k, at)
<1> DEFINE k == ack.it
           r == ranges[k]
           i == insertAckTime(r, ack.time)
<1>1. /\ op = "ack"
      /\ k \in Keys /\ k \in Nat /\ r \in ByteRanges /\ r.endSeq \in Nat
      /\ ack.time \in Nat /\ ack.ack \in Nat /\ RangeMap(ranges)
      /\ \A j \in Keys : j \in Nat /\ ranges[j] \in ByteRanges /\ ranges[j].endSeq \in Nat
  <2>1. op = "ack"
    BY DEF processAck, AckLast, AckBeforeSent, AckMore, AckSplit, AckOld
  <2>2. /\ k \in Keys /\ Keys \subseteq Nat /\ RangeMap(ranges)
        /\ \A j \in Keys : ranges[j] \in ByteRanges
        /\ ack.time \in Nat /\ ack.ack \in Nat
    BY <2>1 DEF TypeOK, rmTypeOK, Keys, RangeMap, Acks
  <2>3. \A j \in Keys : ranges[j].endSeq \in Nat
    BY <2>2 DEF ByteRanges
  <2> QED
    BY <2>1, <2>2, <2>3
<1>2. ASSUME NEW j \in Keys, NEW s, ranges' = Put(ranges, j, s), SameRange(s, ranges[j])
      PROVE  Keys' = Keys /\ \A h \in Keys : SameRange(ranges'[h], ranges[h])
  <2>1. Keys' = Keys /\ ranges'[j] = s /\ \A h \in Keys : h # j => ranges'[h] = ranges[h]
    BY <1>2 DEF Put, Keys
  <2> QED
    BY <1>2, <2>1 DEF SameRange, SameTally
<1>3. ASSUME UNCHANGED ranges
      PROVE  Keys' = Keys /\ \A h \in Keys : SameRange(ranges'[h], ranges[h])
  BY <1>3 DEF Keys, SameRange, SameTally
<1>4. SameRange(i, r) /\ SameRange(CountAck(r), r) /\ SameRange(CountAck(i), r)
  BY <1>1, AckMarksTally
<1>5. CASE AckLast
  <2>1. ranges' = Put(ranges, k, CountAck(r)) \/ ranges' = Put(ranges, k, CountAck(i))
    BY <1>5 DEF AckLast
  <2> HIDE DEF k, i
  <2> QED
    BY <1>1, <1>2, <1>4, <2>1
<1>6. CASE AckBeforeSent
  BY <1>3, <1>6 DEF AckBeforeSent
<1>7. CASE AckMore
  <2>1. UNCHANGED ranges \/ ranges' = Put(ranges, k, i)
    BY <1>7 DEF AckMore
  <2> HIDE DEF k, i
  <2> QED
    BY <1>1, <1>2, <1>3, <1>4, <2>1
<1>8. CASE AckSplit
  <2> DEFINE at == ack.ack
             cut == SplitAt(ranges, k, at)
             s == CountAck(insertAckTime(cut[k], ack.time))
  <2>1. k < at /\ at < r.endSeq /\ ranges' = Put(cut, k, s)
    BY <1>8 DEF AckSplit
  <2>2. k \in DOMAIN ranges /\ at # k /\ at \in Nat /\ at \notin Keys /\ at \notin DOMAIN ranges
    <3>1. at \notin Keys
      BY <1>1, <2>1 DEF StepInv, Disjoint
    <3> QED
      BY <1>1, <2>1, <3>1 DEF Keys
  <2>3. /\ DOMAIN cut = Keys \cup {at} /\ RangeMap(cut)
        /\ cut[k].endSeq = at /\ cut[at].endSeq = r.endSeq
        /\ \A j \in Keys : j # k => cut[j] = ranges[j]
    <3>1. SplitFacts(ranges, k, at)
      BY <1>1, <2>2, SplitAtType
    <3> QED
      BY <2>2, <3>1 DEF SplitFacts, Keys
  <2>4. SameTally(cut[k], r) /\ SplitTally(cut[at], r) /\ cut[k] \in ByteRanges
    <3>1. cut[k] = Truncate(r, at) /\ cut[at] = split(r, at)
      BY <1>1, <2>2, SplitAtRecords
    <3>2. cut[k] \in ByteRanges
      BY <1>1, <2>3 DEF RangeMap
    <3> QED
      BY <1>1, <3>1, <3>2, SplitTallies
  <2> HIDE DEF cut
  <2>5. SameRange(s, cut[k])
    BY <1>1, <2>4, AckMarksTally
  <2> HIDE DEF s
  <2>6. SameTally(s, r) /\ s.endSeq = at
    BY <2>3, <2>4, <2>5, TallyTransitive DEF SameRange
  <2>7. /\ Keys' = Keys \cup {at} /\ ranges'[k] = s /\ ranges'[at] = cut[at]
        /\ \A j \in Keys : j # k => ranges'[j] = ranges[j]
    BY <1>1, <2>1, <2>2, <2>3 DEF Put, Keys
  <2>8. CutsOnly(k, at)
    BY <2>1, <2>2, <2>3, <2>4, <2>6, <2>7 DEF CutsOnly
  <2> QED
    BY <1>1, <2>8
<1>9. CASE AckOld
  <2>1. UNCHANGED ranges \/ \E j \in Keys : ranges' = Put(ranges, j, CountAck(ranges[j]))
    <3>1. ASSUME NEW p \in Keys, IgnoreOld(p)
          PROVE  UNCHANGED ranges \/ \E j \in Keys : ranges' = Put(ranges, j, CountAck(ranges[j]))
      <4> DEFINE C == CoveredUpTo(p)
                 top == CHOOSE j \in C : \A h \in C : h <= j
      <4>1. CASE \E j \in C : \A h \in C : h <= j
        <5>1. top \in C
          BY <4>1
        <5>2. C \subseteq Keys
          BY DEF CoveredUpTo
        <5>3. top \in Keys
          BY <5>1, <5>2
        <5>4. ranges' = IF ack.ack = ranges[top].endSeq
                        THEN Put(ranges, top, CountAck(ranges[top])) ELSE ranges
          BY <3>1, <4>1 DEF IgnoreOld
        <5> HIDE DEF top
        <5> QED
          BY <5>3, <5>4
      <4>2. CASE ~\E j \in C : \A h \in C : h <= j
        BY <3>1, <4>2 DEF IgnoreOld
      <4> QED
        BY <4>1, <4>2
    <3>2. \/ UNCHANGED ranges
          \/ \E p \in Keys : IgnoreOld(p)
          \/ \E j \in Keys : ranges' = Put(ranges, j, CountAck(ranges[j]))
      <4> HIDE DEF k, r, i
      <4> QED
        BY <1>9 DEF AckOld
    <3> QED
      BY <3>1, <3>2
  <2>2. ASSUME NEW j \in Keys, ranges' = Put(ranges, j, CountAck(ranges[j]))
        PROVE  Keys' = Keys /\ \A h \in Keys : SameRange(ranges'[h], ranges[h])
    <3>1. SameRange(CountAck(ranges[j]), ranges[j])
      BY <1>1, AckMarksTally
    <3> QED
      BY <1>2, <2>2, <3>1
  <2> QED
    BY <1>3, <2>1, <2>2
<1> QED
  BY <1>5, <1>6, <1>7, <1>8, <1>9 DEF processAck

-----------------------------------------------------------------------------
(* What it does to the sums. *)

\* f and g are functions on a set in which the element k is cut in up to three
\* parts: k itself, a (which may be k) and u, if U has it.
CutSet(S, k, a, u, U, f, g) ==
    /\ IsFiniteSet(S) /\ k \in S /\ (a = k \/ a \notin S)
    /\ U \in {{}, {u}} /\ U \cap (S \cup {a}) = {}
    /\ \A x \in S : f[x] \in Int
    /\ \A x \in S \cup {a} \cup U : g[x] \in Int
    /\ \A x \in S : x # k => g[x] = f[x]

\* The sum after the cut.
LEMMA SumCut ==
    ASSUME NEW S, NEW k, NEW a, NEW u, NEW U, NEW f, NEW g, CutSet(S, k, a, u, U, f, g)
    PROVE  SumFunctionOnSet(g, S \cup {a} \cup U)
             = SumFunctionOnSet(f, S) - f[k] + g[a]
               + (IF a = k THEN 0 ELSE g[k]) + (IF U = {} THEN 0 ELSE g[u])
<1> /\ IsFiniteSet(S) /\ k \in S /\ (a = k \/ a \notin S)
    /\ U \in {{}, {u}} /\ U \cap (S \cup {a}) = {}
    /\ \A x \in S : f[x] \in Int
    /\ \A x \in S \cup {a} \cup U : g[x] \in Int
    /\ \A x \in S : x # k => g[x] = f[x]
  BY DEF CutSet
<1>1. S \cup {k} = S
  OBVIOUS
<1>2. SumFunctionOnSet(g, S \cup {k}) = SumFunctionOnSet(g, S)
  BY <1>1
<1>3. /\ SumFunctionOnSet(f, S) \in Int /\ SumFunctionOnSet(g, S) \in Int
      /\ SumFunctionOnSet(g, S) = SumFunctionOnSet(f, S) + g[k] - f[k]
  <2>1. \A x \in S \cup {k} : g[x] \in Int
    OBVIOUS
  <2>2. \A x \in S \ {k} : g[x] = f[x]
    OBVIOUS
  <2>3. PutSet(S, k, f, g, f[k])
    BY <2>1, <2>2 DEF PutSet
  <2>4. /\ SumFunctionOnSet(f, S) \in Int /\ SumFunctionOnSet(g, S \cup {k}) \in Int
        /\ SumFunctionOnSet(g, S \cup {k}) = SumFunctionOnSet(f, S) + g[k] - f[k]
    BY <2>3, SumPut
  <2> QED
    BY <1>2, <2>4
<1>4. /\ IsFiniteSet(S \cup {a}) /\ SumFunctionOnSet(g, S \cup {a}) \in Int
      /\ SumFunctionOnSet(g, S \cup {a}) = SumFunctionOnSet(g, S) + (IF a = k THEN 0 ELSE g[a])
  <2>1. CASE a = k
    BY <1>1, <1>3, <2>1
  <2>2. CASE a # k
    <3>1. a \notin S /\ \A x \in S \cup {a} : g[x] \in Int
      BY <2>2
    <3> QED
      BY <2>2, <3>1, SumMore
  <2> QED
    BY <2>1, <2>2
<1>5. g[a] \in Int /\ g[k] \in Int /\ f[k] \in Int
  OBVIOUS
<1>6. SumFunctionOnSet(g, S \cup {a}) = SumFunctionOnSet(f, S) - f[k] + g[a] + (IF a = k THEN 0 ELSE g[k])
  <2>1. CASE a = k
    BY <1>3, <1>4, <1>5, <2>1
  <2>2. CASE a # k
    BY <1>3, <1>4, <1>5, <2>2
  <2> QED
    BY <2>1, <2>2
<1>7. CASE U = {}
  <2>1. S \cup {a} \cup U = S \cup {a}
    BY <1>7
  <2>2. SumFunctionOnSet(g, S \cup {a} \cup U) = SumFunctionOnSet(g, S \cup {a})
    BY <2>1
  <2>3. SumFunctionOnSet(g, S \cup {a}) = SumFunctionOnSet(g, S \cup {a}) + 0
    BY <1>4
  <2> QED
    BY <1>3, <1>5, <1>6, <1>7, <2>2, <2>3
<1>8. CASE U = {u} /\ U # {}
  <2>1. u \notin S \cup {a} /\ g[u] \in Int
    BY <1>8
  <2>2. SumFunctionOnSet(g, S \cup {a} \cup {u}) = SumFunctionOnSet(g, S \cup {a}) + g[u]
    <3>1. \A x \in S \cup {a} \cup {u} : g[x] \in Int
      BY <1>8
    <3> QED
      BY <1>4, <2>1, <3>1, SumMore
  <2>3. SumFunctionOnSet(g, S \cup {a} \cup U) = SumFunctionOnSet(g, S \cup {a} \cup {u})
    BY <1>8
  <2> QED
    BY <1>3, <1>4, <1>5, <1>6, <1>8, <2>1, <2>2, <2>3
<1> QED
  BY <1>7, <1>8

\* The counters of a range.
TallyTyped(r) ==
    /\ r.endSeq \in Nat
    /\ \A n \in {r.packet_sent_count, r.packet_retrans_count, r.acked_sent, r.data_sent_count,
                 r.data_retrans_count, r.rdb_count, r.syn, r.fin, r.rst,
                 r.packet_received_count} : n \in Nat /\ n < CounterMod

\* A map of ranges whose totals are well defined.
TallyMap(rs) ==
    /\ IsFiniteSet(DOMAIN rs)
    /\ \A k \in DOMAIN rs : k \in Nat /\ k <= rs[k].endSeq /\ TallyTyped(rs[k])

\* The functions that the totals are sums of.
BytesOf(rs) == [k \in DOMAIN rs |-> (rs[k].endSeq - k) * rs[k].data_sent_count]
LengthOf(rs) == [k \in DOMAIN rs |-> rs[k].endSeq - k]
PacketsOf(rs) == [k \in DOMAIN rs |-> rs[k].packet_sent_count + rs[k].packet_retrans_count
                                        + rs[k].acked_sent]
ReceivedOf(rs) == [k \in DOMAIN rs |-> rs[k].packet_received_count]

\* The records are well typed.
LEMMA RangeTallyTyped ==
    ASSUME NEW r \in ByteRanges
    PROVE  TallyTyped(r)
BY CounterModAssumption DEF TallyTyped, ByteRanges, Counters

\* The keys lie in the stream, so there are finitely many.
LEMMA MapTallied ==
    ASSUME NEW rs, NEW n \in Nat, DOMAIN rs \subseteq Nat,
           \A k \in DOMAIN rs : rs[k] \in ByteRanges /\ k <= rs[k].endSeq /\ k <= n
    PROVE  TallyMap(rs)
<1>1. DOMAIN rs \subseteq 0 .. n
  OBVIOUS
<1>2. IsFiniteSet(0 .. n)
  BY FS_Interval
<1>3. IsFiniteSet(DOMAIN rs)
  BY <1>1, <1>2, FS_Subset
<1> QED
  BY <1>3, RangeTallyTyped DEF TallyMap

\* The map of the connection and that of its next state.
LEMMA KeysTallied ==
    /\ TypeOK /\ RangesInStream => TallyMap(ranges)
    /\ TypeOK' /\ RangesInStream' => TallyMap(ranges')
<1>1. ASSUME TypeOK, RangesInStream PROVE TallyMap(ranges)
  <2>1. /\ DOMAIN ranges \subseteq Nat /\ nxt + 1 \in Nat
        /\ \A k \in DOMAIN ranges : ranges[k] \in ByteRanges /\ k <= ranges[k].endSeq /\ k <= nxt + 1
    BY <1>1 DEF TypeOK, rmTypeOK, RangesInStream, Keys
  <2> QED
    BY <2>1, MapTallied
<1>2. ASSUME TypeOK', RangesInStream' PROVE TallyMap(ranges')
  <2>1. DOMAIN ranges' \subseteq Nat /\ \A k \in DOMAIN ranges' : ranges'[k] \in ByteRanges
    BY <1>2 DEF TypeOK, rmTypeOK
  <2>3. nxt' + 1 \in Nat
    <3>1. nxt' \in Nat /\ \A n \in Nat : n + 1 \in Nat
      BY <1>2 DEF TypeOK
    <3> QED
      BY <3>1
  <2>2. \A k \in DOMAIN ranges' : k <= ranges'[k].endSeq /\ k <= nxt' + 1
    BY <1>2 DEF RangesInStream, Keys
  <2> QED
    BY <2>1, <2>2, <2>3, MapTallied
<1> QED
  BY <1>1, <1>2

\* What they add up is a number.
LEMMA TallyValues ==
    ASSUME NEW rs, TallyMap(rs)
    PROVE  \A k \in DOMAIN rs : /\ BytesOf(rs)[k] \in Nat /\ LengthOf(rs)[k] \in Nat
                                /\ PacketsOf(rs)[k] \in Nat /\ ReceivedOf(rs)[k] \in Nat
<1> SUFFICES ASSUME NEW k \in DOMAIN rs
             PROVE  /\ BytesOf(rs)[k] \in Nat /\ LengthOf(rs)[k] \in Nat
                    /\ PacketsOf(rs)[k] \in Nat /\ ReceivedOf(rs)[k] \in Nat
  OBVIOUS
<1>1. /\ k \in Nat /\ rs[k].endSeq \in Nat /\ k <= rs[k].endSeq
      /\ rs[k].data_sent_count \in Nat /\ rs[k].packet_sent_count \in Nat
      /\ rs[k].packet_retrans_count \in Nat /\ rs[k].acked_sent \in Nat
      /\ rs[k].packet_received_count \in Nat
  BY DEF TallyMap, TallyTyped
<1>2. \A m, n \in Nat : m * n \in Nat
  OBVIOUS
<1>3. rs[k].endSeq - k \in Nat
  BY <1>1
<1>4. (rs[k].endSeq - k) * rs[k].data_sent_count \in Nat
  BY <1>1, <1>2, <1>3
<1> QED
  BY <1>1, <1>3, <1>4 DEF BytesOf, LengthOf, PacketsOf, ReceivedOf

\* The range at k is cut: what is in front of a stays at k, what lies from a to
\* upTo is at a, and what is behind at upTo.
Cut(rs, rt, k, a, upTo) ==
    LET behind == IF upTo < rs[k].endSeq THEN {upTo} ELSE {}
    IN /\ k \in DOMAIN rs /\ a \in Nat /\ upTo \in Nat
       /\ k <= a /\ a < upTo /\ upTo <= rs[k].endSeq
       /\ k = a \/ a \notin DOMAIN rs
       /\ behind \cap DOMAIN rs = {}
       /\ DOMAIN rt = DOMAIN rs \cup {a} \cup behind
       /\ \A j \in DOMAIN rs : j # k => rt[j] = rs[j]
       /\ rt[a].endSeq = upTo
       /\ k # a => rt[k].endSeq = a
       /\ \A u \in behind : rt[u].endSeq = rs[k].endSeq

\* What a cut does to a sum.
LEMMA CutSum ==
    ASSUME NEW rs, NEW rt, TallyMap(rs), NEW k, NEW a, NEW upTo, Cut(rs, rt, k, a, upTo),
           NEW f, NEW g, \A x \in DOMAIN rs : f[x] \in Int, \A x \in DOMAIN rt : g[x] \in Int,
           \A x \in DOMAIN rs : x # k => g[x] = f[x]
    PROVE  SumFunctionOnSet(g, DOMAIN rt)
             = SumFunctionOnSet(f, DOMAIN rs) - f[k] + g[a]
               + (IF a = k THEN 0 ELSE g[k]) + (IF upTo < rs[k].endSeq THEN g[upTo] ELSE 0)
<1> DEFINE S == DOMAIN rs
           U == IF upTo < rs[k].endSeq THEN {upTo} ELSE {}
<1>1. IsFiniteSet(S) /\ k \in S /\ U \in {{}, {upTo}}
  BY DEF TallyMap, Cut
<1>2. /\ a = k \/ a \notin S
      /\ DOMAIN rt = S \cup {a} \cup U
  BY DEF Cut
<1>3. U \cap (S \cup {a}) = {}
  <2>1. U \cap S = {} /\ a < upTo /\ a \in Nat /\ upTo \in Nat
    BY DEF Cut
  <2>2. a # upTo
    BY <2>1
  <2> QED
    BY <2>1, <2>2
<1>4. \A x \in S \cup {a} \cup U : g[x] \in Int
  BY <1>2
<1>5. U = {} <=> ~(upTo < rs[k].endSeq)
  OBVIOUS
<1>6. SumFunctionOnSet(g, DOMAIN rt) = SumFunctionOnSet(g, S \cup {a} \cup U)
  BY <1>2
<1> HIDE DEF S, U
<1>7. \A x \in S : f[x] \in Int
  BY DEF S
<1>8. \A x \in S : x # k => g[x] = f[x]
  BY DEF S
<1>9. SumFunctionOnSet(g, S \cup {a} \cup U)
        = SumFunctionOnSet(f, S) - f[k] + g[a]
          + (IF a = k THEN 0 ELSE g[k]) + (IF U = {} THEN 0 ELSE g[upTo])
  <2>1. CutSet(S, k, a, upTo, U, f, g)
    BY <1>1, <1>2, <1>3, <1>4, <1>7, <1>8 DEF CutSet
  <2> QED
    BY <2>1, SumCut
<1> QED
  BY <1>5, <1>6, <1>9 DEF S

\* The bytes, each as often as it was sent: those from a to upTo c times more.
LEMMA CutBytes ==
    ASSUME NEW rs, NEW rt, TallyMap(rs), TallyMap(rt),
           NEW k, NEW a, NEW upTo, Cut(rs, rt, k, a, upTo), NEW c \in {0, 1},
           rt[a].data_sent_count = rs[k].data_sent_count + c,
           k # a => rt[k].data_sent_count = rs[k].data_sent_count,
           upTo < rs[k].endSeq => rt[upTo].data_sent_count = rs[k].data_sent_count
    PROVE  SumFunctionOnSet(BytesOf(rt), DOMAIN rt)
             = SumFunctionOnSet(BytesOf(rs), DOMAIN rs) + c * (upTo - a)
<1> DEFINE f == BytesOf(rs)
           g == BytesOf(rt)
           d == rs[k].data_sent_count
           e == rs[k].endSeq
<1>1. /\ k \in DOMAIN rs /\ a \in Nat /\ upTo \in Nat /\ k \in Nat /\ e \in Nat /\ d \in Nat
      /\ k <= a /\ a < upTo /\ upTo <= e
  BY DEF Cut, TallyMap, TallyTyped
<1>2. /\ \A x \in DOMAIN rs : f[x] \in Int
      /\ \A x \in DOMAIN rt : g[x] \in Int
  BY TallyValues
<1>3. a \in DOMAIN rt /\ k \in DOMAIN rt /\ (upTo < e => upTo \in DOMAIN rt)
  BY DEF Cut
<1>4. \A x \in DOMAIN rs : x # k => g[x] = f[x]
  <2>1. \A x \in DOMAIN rs : x \in DOMAIN rt /\ (x # k => rt[x] = rs[x])
    BY DEF Cut
  <2> QED
    BY <2>1 DEF BytesOf
<1>5. /\ f[k] = (e - k) * d /\ g[a] = (upTo - a) * (d + c)
      /\ a # k => g[k] = (a - k) * d
      /\ upTo < e => g[upTo] = (e - upTo) * d
  BY <1>1, <1>3 DEF BytesOf, Cut
<1> HIDE DEF f, g, d
<1>6. SumFunctionOnSet(g, DOMAIN rt)
        = SumFunctionOnSet(f, DOMAIN rs) - f[k] + g[a]
          + (IF a = k THEN 0 ELSE g[k]) + (IF upTo < e THEN g[upTo] ELSE 0)
  BY <1>2, <1>4, CutSum
<1>7. SumFunctionOnSet(f, DOMAIN rs) \in Int
  BY <1>2, SumInt DEF TallyMap
<1>8. /\ (e - k) * d \in Int /\ (upTo - a) * d \in Int /\ (a - k) * d \in Int /\ (e - upTo) * d \in Int
      /\ (e - k) * d = (a - k) * d + (upTo - a) * d + (e - upTo) * d
      /\ (upTo - a) * (d + c) = (upTo - a) * d + c * (upTo - a)
      /\ a = k => (a - k) * d = 0
      /\ ~(upTo < e) => (e - upTo) * d = 0
  <2>1. e - k \in Int /\ upTo - a \in Int /\ a - k \in Int /\ e - upTo \in Int
    BY <1>1
  <2>2. \A m, n, p, q \in Int : (m + n + p) * q = m * q + n * q + p * q /\ m * q \in Int
    OBVIOUS
  <2>3. e - k = (a - k) + (upTo - a) + (e - upTo)
    BY <1>1
  <2>4. (e - k) * d = (a - k) * d + (upTo - a) * d + (e - upTo) * d
    BY <1>1, <2>1, <2>2, <2>3
  <2>5. (upTo - a) * (d + c) = (upTo - a) * d + c * (upTo - a)
    <3>1. \A m, q \in Int : m * (q + 0) = m * q + 0 * m /\ m * (q + 1) = m * q + 1 * m
      OBVIOUS
    <3> QED
      BY <1>1, <2>1, <3>1
  <2>6. \A q \in Int : 0 * q = 0
    OBVIOUS
  <2>7. ASSUME a = k PROVE (a - k) * d = 0
    <3>1. a - k = 0
      BY <1>1, <2>7
    <3> QED
      BY <1>1, <2>6, <3>1
  <2>8. ASSUME ~(upTo < e) PROVE (e - upTo) * d = 0
    <3>1. e - upTo = 0
      BY <1>1, <2>8
    <3> QED
      BY <1>1, <2>6, <3>1
  <2>9. d \in Int
    BY <1>1
  <2>10. (e - k) * d \in Int /\ (upTo - a) * d \in Int /\ (a - k) * d \in Int /\ (e - upTo) * d \in Int
    BY <2>1, <2>2, <2>9
  <2> QED
    BY <2>4, <2>5, <2>7, <2>8, <2>10
<1>9. c * (upTo - a) \in Int
  BY <1>1
<1>10. SumFunctionOnSet(g, DOMAIN rt) = SumFunctionOnSet(f, DOMAIN rs) + c * (upTo - a)
  <2>1. ASSUME NEW s \in Int, NEW m \in Int, NEW n \in Int, NEW p \in Int, NEW q \in Int
        PROVE  s - (m + n + p) + (n + q) + m + p = s + q
    OBVIOUS
  <2> DEFINE s == SumFunctionOnSet(f, DOMAIN rs)
             m == (a - k) * d
             n == (upTo - a) * d
             p == (e - upTo) * d
             q == c * (upTo - a)
  <2>2. s \in Int /\ m \in Int /\ n \in Int /\ p \in Int /\ q \in Int
    BY <1>7, <1>8, <1>9
  <2>3. SumFunctionOnSet(g, DOMAIN rt) = s - (m + n + p) + (n + q) + m + p
    <3>1. f[k] = m + n + p /\ g[a] = n + q
      BY <1>5, <1>8
    <3>2. (IF a = k THEN 0 ELSE g[k]) = m
      BY <1>5, <1>8
    <3>3. (IF upTo < e THEN g[upTo] ELSE 0) = p
      BY <1>5, <1>8
    <3> HIDE DEF m, n, p, q, s
    <3> QED
      BY <1>6, <3>1, <3>2, <3>3 DEF s
  <2> HIDE DEF m, n, p, q, s
  <2>4. SumFunctionOnSet(g, DOMAIN rt) = s + q
    BY <2>1, <2>2, <2>3
  <2> QED
    BY <2>4 DEF s, q
<1> QED
  BY <1>10 DEF f, g

\* The bytes, each once: none is lost or doubled.
LEMMA CutLength ==
    ASSUME NEW rs, NEW rt, TallyMap(rs), TallyMap(rt),
           NEW k, NEW a, NEW upTo, Cut(rs, rt, k, a, upTo)
    PROVE  SumFunctionOnSet(LengthOf(rt), DOMAIN rt) = SumFunctionOnSet(LengthOf(rs), DOMAIN rs)
<1> DEFINE f == LengthOf(rs)
           g == LengthOf(rt)
           e == rs[k].endSeq
<1>1. /\ k \in DOMAIN rs /\ a \in Nat /\ upTo \in Nat /\ k \in Nat /\ e \in Nat
      /\ k <= a /\ a < upTo /\ upTo <= e
  BY DEF Cut, TallyMap, TallyTyped
<1>2. /\ \A x \in DOMAIN rs : f[x] \in Int
      /\ \A x \in DOMAIN rt : g[x] \in Int
  BY TallyValues
<1>3. a \in DOMAIN rt /\ k \in DOMAIN rt /\ (upTo < e => upTo \in DOMAIN rt)
  BY DEF Cut
<1>4. \A x \in DOMAIN rs : x # k => g[x] = f[x]
  <2>1. \A x \in DOMAIN rs : x \in DOMAIN rt /\ (x # k => rt[x] = rs[x])
    BY DEF Cut
  <2> QED
    BY <2>1 DEF LengthOf
<1>5. /\ f[k] = e - k /\ g[a] = upTo - a
      /\ a # k => g[k] = a - k
      /\ upTo < e => g[upTo] = e - upTo
  BY <1>1, <1>3 DEF LengthOf, Cut
<1> HIDE DEF f, g
<1>6. SumFunctionOnSet(g, DOMAIN rt)
        = SumFunctionOnSet(f, DOMAIN rs) - f[k] + g[a]
          + (IF a = k THEN 0 ELSE g[k]) + (IF upTo < e THEN g[upTo] ELSE 0)
  BY <1>2, <1>4, CutSum
<1>7. SumFunctionOnSet(f, DOMAIN rs) \in Int
  BY <1>2, SumInt DEF TallyMap
<1> QED
  BY <1>1, <1>5, <1>6, <1>7 DEF f, g

\* A count: c more at a, none behind a split.
LEMMA CutCount ==
    ASSUME NEW rs, NEW rt, TallyMap(rs), NEW k, NEW a, NEW upTo, Cut(rs, rt, k, a, upTo),
           NEW f, NEW g, \A x \in DOMAIN rs : f[x] \in Int, \A x \in DOMAIN rt : g[x] \in Int,
           \A x \in DOMAIN rs : x # k => g[x] = f[x],
           NEW c \in Int, g[a] = (IF k = a THEN f[k] ELSE 0) + c,
           k # a => g[k] = f[k], upTo < rs[k].endSeq => g[upTo] = 0
    PROVE  SumFunctionOnSet(g, DOMAIN rt) = SumFunctionOnSet(f, DOMAIN rs) + c
<1>1. SumFunctionOnSet(g, DOMAIN rt)
        = SumFunctionOnSet(f, DOMAIN rs) - f[k] + g[a]
          + (IF a = k THEN 0 ELSE g[k]) + (IF upTo < rs[k].endSeq THEN g[upTo] ELSE 0)
  BY CutSum
<1>2. SumFunctionOnSet(f, DOMAIN rs) \in Int
  BY SumInt DEF TallyMap
<1>3. k \in DOMAIN rs /\ f[k] \in Int
  BY DEF Cut
<1>4. (IF upTo < rs[k].endSeq THEN g[upTo] ELSE 0) = 0
  OBVIOUS
<1>5. CASE k = a
  <2>1. g[a] = f[k] + c
    BY <1>5
  <2> QED
    BY <1>1, <1>2, <1>3, <1>4, <1>5, <2>1
<1>6. CASE k # a
  <2>1. g[a] = 0 + c /\ g[k] = f[k]
    BY <1>6
  <2> QED
    BY <1>1, <1>2, <1>3, <1>4, <1>6, <2>1
<1> QED
  BY <1>5, <1>6

-----------------------------------------------------------------------------
(* A step that registers a part of a segment. *)

\* The totals are the sums of these functions.
LEMMA TotalsAreSums ==
    /\ analysed_bytes_sent = SumFunctionOnSet(BytesOf(ranges), DOMAIN ranges)
    /\ analysed_packet_sent_count_in_dump = SumFunctionOnSet(PacketsOf(ranges), DOMAIN ranges)
    /\ analysed_packet_received_count = SumFunctionOnSet(ReceivedOf(ranges), DOMAIN ranges)
    /\ Total([k \in Keys |-> byte_count(k)]) = SumFunctionOnSet(LengthOf(ranges), DOMAIN ranges)
BY DEF analysed_bytes_sent, analysed_packet_sent_count_in_dump, analysed_packet_received_count,
       Total, Keys, byte_count, BytesOf, PacketsOf, ReceivedOf, LengthOf

\* The same of the next state.
LEMMA TotalsAreSumsNext ==
    /\ analysed_bytes_sent' = SumFunctionOnSet(BytesOf(ranges'), DOMAIN ranges')
    /\ analysed_packet_sent_count_in_dump' = SumFunctionOnSet(PacketsOf(ranges'), DOMAIN ranges')
    /\ analysed_packet_received_count' = SumFunctionOnSet(ReceivedOf(ranges'), DOMAIN ranges')
    /\ Total([k \in Keys |-> byte_count(k)])' = SumFunctionOnSet(LengthOf(ranges'), DOMAIN ranges')
BY DEF analysed_bytes_sent, analysed_packet_sent_count_in_dump, analysed_packet_received_count,
       Total, Keys, byte_count, BytesOf, PacketsOf, ReceivedOf, LengthOf

\* No counter of a range exceeds the total.
LEMMA CountsBelowTotals ==
    ASSUME TallyMap(ranges), NEW k \in Keys
    PROVE  /\ analysed_packet_sent_count_in_dump \in Nat /\ analysed_packet_received_count \in Nat
           /\ ranges[k].packet_sent_count + ranges[k].packet_retrans_count + ranges[k].acked_sent
                <= analysed_packet_sent_count_in_dump
           /\ ranges[k].packet_received_count <= analysed_packet_received_count
<1> DEFINE f == PacketsOf(ranges)
           g == ReceivedOf(ranges)
           S == DOMAIN ranges
<1>1. /\ IsFiniteSet(S) /\ k \in S
      /\ f[k] = ranges[k].packet_sent_count + ranges[k].packet_retrans_count + ranges[k].acked_sent
      /\ g[k] = ranges[k].packet_received_count
  BY DEF TallyMap, Keys, PacketsOf, ReceivedOf
<1>2. \A x \in S : f[x] \in Nat /\ g[x] \in Nat
  BY TallyValues
<1> HIDE DEF f, g, S
<1>3. SumFunctionOnSet(f, S) \in Nat /\ f[k] <= SumFunctionOnSet(f, S)
  BY <1>1, <1>2, SumNat
<1>4. SumFunctionOnSet(g, S) \in Nat /\ g[k] <= SumFunctionOnSet(g, S)
  BY <1>1, <1>2, SumNat
<1> QED
  BY <1>1, <1>3, <1>4, TotalsAreSums DEF f, g, S

\* The part is a cut.
LEMMA TalliesCut ==
    ASSUME TypeOK, NEW k \in Keys, NEW upTo \in Nat, Tallies(k, upTo)
    PROVE  Cut(ranges, ranges', k, frame.start, upTo)
<1>1. frame.start \in Nat
  BY DEF TypeOK, rmTypeOK, Frames
<1> QED
  BY <1>1 DEF Tallies, Cut, Keys

\* Its counters.
PartTally(k) ==
    LET a == frame.start
        r == ranges[k]
        s == ranges'[a]
        packet == IF SENT /\ Outermost THEN 1 ELSE 0
    IN /\ s.data_sent_count = r.data_sent_count + (IF SENT THEN 1 ELSE 0)
       /\ s.packet_received_count = (IF k = a THEN r.packet_received_count ELSE 0)
                                      + (IF ~SENT /\ Outermost THEN 1 ELSE 0)
       /\ conn.bundleCount = 0 =>
            /\ s.packet_sent_count + s.packet_retrans_count
                 = (IF k = a THEN r.packet_sent_count + r.packet_retrans_count ELSE 0) + packet
            /\ s.acked_sent = IF k = a THEN r.acked_sent ELSE 0
            /\ s.data_retrans_count = r.data_retrans_count + (IF SENT THEN 1 ELSE 0)
            /\ s.rdb_count = 0 /\ s.syn = 0 /\ s.rst = 0

\* What is known of the range that the segment covers.
LEMMA CoveredTally ==
    ASSUME ShortTrace, TypeOK, StepInv, TallyInv, op = "insert", ~ZeroLength,
           NEW k \in Keys, k <= frame.start, frame.start < ranges[k].endSeq
    PROVE  LET r == ranges[k]
           IN /\ TallyTyped(r) /\ HasBytes(k) /\ DataTallied(k)
              /\ SENT => r.data_sent_count + 1 < CounterMod
              /\ ~SENT /\ Outermost => r.packet_received_count + 1 < CounterMod
              /\ conn.bundleCount = 0 =>
                   /\ ~seg.is_rdb /\ (SENT => seg.retrans)
                   /\ SENT => r.data_retrans_count + 1 < CounterMod
                   /\ SENT /\ Outermost => /\ r.packet_sent_count + 1 < CounterMod
                                           /\ r.packet_retrans_count + 1 < CounterMod
<1> DEFINE r == ranges[k]
<1>1. /\ TallyMap(ranges) /\ TallyTyped(r)
      /\ k \in Nat /\ frame.start \in Nat /\ r.endSeq \in Nat /\ recvNo \in Nat
      /\ conn.nrPacketsSent \in Nat /\ conn.bundleCount \in Nat
      /\ MaxPackets \in Nat /\ MaxRecv \in Nat /\ CounterMod \in Nat
      /\ MaxPackets < CounterMod /\ MaxRecv < CounterMod
  <2>1. TallyMap(ranges)
    BY KeysTallied DEF StepInv
  <2>2. conn \in ConnCounters /\ recvNo \in Nat
    BY DEF TypeOK
  <2>3. TallyTyped(r) /\ k \in Nat
    BY <2>1 DEF TallyMap, Keys
  <2>4. frame.start \in Nat
    BY DEF StepInv, Typed
  <2> QED
    BY <2>1, <2>2, <2>3, <2>4, BoundsAssumption, CounterModAssumption
    DEF ConnCounters, ShortTrace, TallyTyped
<1>2. HasBytes(k) /\ DataTallied(k)
  <2>1. HasBytes(k)
    BY <1>1 DEF HasBytes
  <2> QED
    BY <2>1 DEF TallyInv, Tallied
<1>3. conn.nrPacketsSent <= MaxPackets /\ recvNo <= MaxRecv
  BY DEF TallyInv, LargestSeen
<1>4. SENT => r.data_sent_count + 1 <= conn.nrPacketsSent
  <2>1. SENT => Inserting /\ r.endSeq > frame.start
    BY <1>1 DEF Inserting
  <2> QED
    BY <1>2, <2>1 DEF DataTallied
<1>5. /\ analysed_packet_sent_count_in_dump \in Nat /\ analysed_packet_received_count \in Nat
      /\ r.packet_sent_count + r.packet_retrans_count + r.acked_sent
           <= analysed_packet_sent_count_in_dump
      /\ r.packet_received_count <= analysed_packet_received_count
  BY <1>1, CountsBelowTotals
<1>6. /\ ~SENT /\ Outermost => analysed_packet_received_count + 1 = recvNo
      /\ conn.bundleCount = 0 /\ SENT /\ Outermost =>
           analysed_packet_sent_count_in_dump + 1 = conn.nrPacketsSent
  BY DEF TallyInv, TotalsPending
<1>7. ASSUME conn.bundleCount = 0 PROVE ~seg.is_rdb /\ (SENT => seg.retrans)
  <2>1. ~seg.is_rdb
    BY <1>1, <1>7 DEF TallyInv, SegmentClassified
  <2>2. ASSUME SENT, ~seg.retrans PROVE FALSE
    <3>1. \A j \in Keys : ranges[j].endSeq <= frame.start
      BY <2>1, <2>2 DEF TallyInv, SegmentClassified, Inserting
    <3> QED
      BY <1>1, <3>1
  <2> QED
    BY <2>1, <2>2
<1>8. /\ r.packet_sent_count \in Nat /\ r.packet_retrans_count \in Nat /\ r.acked_sent \in Nat
      /\ r.data_sent_count \in Nat /\ r.data_retrans_count \in Nat
      /\ r.packet_received_count \in Nat
  BY <1>1 DEF TallyTyped
<1>9. conn.bundleCount = 0 => r.data_sent_count = r.data_retrans_count + 1
  BY <1>2 DEF DataTallied
<1> HIDE DEF r
<1>10. SENT => r.data_sent_count + 1 < CounterMod
  BY <1>1, <1>3, <1>4, <1>8
<1>11. ~SENT /\ Outermost => r.packet_received_count + 1 < CounterMod
  BY <1>1, <1>3, <1>5, <1>6, <1>8
<1>12. conn.bundleCount = 0 /\ SENT => r.data_retrans_count + 1 < CounterMod
  BY <1>1, <1>8, <1>9, <1>10
<1>13. conn.bundleCount = 0 /\ SENT /\ Outermost =>
         r.packet_sent_count + 1 < CounterMod /\ r.packet_retrans_count + 1 < CounterMod
  BY <1>1, <1>3, <1>5, <1>6, <1>8
<1> QED
  BY <1>1, <1>2, <1>7, <1>10, <1>11, <1>12, <1>13 DEF r

\* The part gets them exactly: no counter wraps.
LEMMA TalliesPart ==
    ASSUME ShortTrace, TypeOK, StepInv, TallyInv, NEW k \in Keys, NEW upTo \in Nat,
           Tallies(k, upTo)
    PROVE  PartTally(k)
<1> DEFINE a == frame.start
           r == ranges[k]
           s == ranges'[a]
<1>1. /\ op = "insert" /\ ~ZeroLength /\ k <= a /\ a < r.endSeq
      /\ k = a => CreditTally(s, r, seg.retrans)
      /\ k # a => \E t : SplitTally(t, r) /\ CreditTally(s, t, TRUE)
  <2>1. /\ op = "insert" /\ ~ZeroLength /\ k <= a /\ a < upTo /\ upTo <= r.endSeq
        /\ k = a => CreditTally(s, r, seg.retrans)
        /\ k # a => \E t : SplitTally(t, r) /\ CreditTally(s, t, TRUE)
    BY DEF Tallies
  <2>2. a \in Nat /\ r.endSeq \in Nat
    BY DEF StepInv, Typed
  <2>3. a < r.endSeq
    <3> HIDE DEF a, r
    <3> QED
      BY <2>1, <2>2
  <2> QED
    BY <2>1, <2>3
<1>2. /\ TallyTyped(r) /\ DataTallied(k)
      /\ SENT => r.data_sent_count + 1 < CounterMod
      /\ ~SENT /\ Outermost => r.packet_received_count + 1 < CounterMod
      /\ conn.bundleCount = 0 =>
           /\ ~seg.is_rdb /\ (SENT => seg.retrans)
           /\ SENT => r.data_retrans_count + 1 < CounterMod
           /\ SENT /\ Outermost => /\ r.packet_sent_count + 1 < CounterMod
                                   /\ r.packet_retrans_count + 1 < CounterMod
  BY <1>1, CoveredTally
<1>3. /\ r.packet_sent_count \in Nat /\ r.packet_retrans_count \in Nat /\ r.acked_sent \in Nat
      /\ r.data_sent_count \in Nat /\ r.data_retrans_count \in Nat
      /\ r.packet_received_count \in Nat
  BY <1>2 DEF TallyTyped
<1>4. 0 + 1 < CounterMod
  BY CounterModAssumption
<1>5. conn.bundleCount = 0 => r.syn = 0 /\ r.rst = 0 /\ r.rdb_count = 0
  BY <1>2 DEF DataTallied
<1> HIDE DEF r, s, a
<1>8. CASE k = a
  <2>1. CreditTally(s, r, seg.retrans)
    BY <1>1, <1>8
  <2>2. s.data_sent_count = r.data_sent_count + (IF SENT THEN 1 ELSE 0)
    <3>1. s.data_sent_count = Add(r.data_sent_count, SENT)
      BY <2>1 DEF CreditTally
    <3>2. CASE SENT
      BY <1>2, <1>3, <3>1, <3>2, AddExact
    <3>3. CASE ~SENT
      BY <1>3, <3>1, <3>3 DEF Add
    <3> QED
      BY <3>2, <3>3
  <2>3. s.packet_received_count = r.packet_received_count + (IF ~SENT /\ Outermost THEN 1 ELSE 0)
    <3>1. s.packet_received_count = Add(r.packet_received_count, ~SENT /\ Outermost)
      BY <2>1 DEF CreditTally
    <3>2. CASE ~SENT /\ Outermost
      BY <1>2, <1>3, <3>1, <3>2, AddExact
    <3>3. CASE ~(~SENT /\ Outermost)
      BY <1>3, <3>1, <3>3 DEF Add
    <3> QED
      BY <3>2, <3>3
  <2>4. ASSUME conn.bundleCount = 0
        PROVE  /\ s.packet_sent_count + s.packet_retrans_count
                    = r.packet_sent_count + r.packet_retrans_count + (IF SENT /\ Outermost THEN 1 ELSE 0)
               /\ s.acked_sent = r.acked_sent
               /\ s.data_retrans_count = r.data_retrans_count + (IF SENT THEN 1 ELSE 0)
               /\ s.rdb_count = 0 /\ s.syn = 0 /\ s.rst = 0
    <3>1. /\ s.packet_sent_count = Add(r.packet_sent_count, SENT /\ Outermost /\ ~seg.retrans)
          /\ s.packet_retrans_count = Add(r.packet_retrans_count, SENT /\ Outermost /\ seg.retrans)
          /\ s.acked_sent = r.acked_sent
          /\ s.data_retrans_count = Add(r.data_retrans_count, SENT /\ seg.retrans)
          /\ s.rdb_count = Add(r.rdb_count, SENT /\ seg.is_rdb)
          /\ s.syn = r.syn /\ s.rst = r.rst
      BY <2>1 DEF CreditTally
    <3>2. ~seg.is_rdb /\ (SENT => seg.retrans)
      BY <1>2, <2>4
    <3>3. s.rdb_count = 0 /\ s.syn = 0 /\ s.rst = 0 /\ s.acked_sent = r.acked_sent
      BY <1>5, <2>4, <3>1, <3>2 DEF Add
    <3>4. s.packet_sent_count = r.packet_sent_count
      BY <3>1, <3>2 DEF Add
    <3>5. CASE SENT
      <4>1. s.data_retrans_count = r.data_retrans_count + 1
        <5>1. s.data_retrans_count = Add(r.data_retrans_count, TRUE)
          BY <3>1, <3>2, <3>5 DEF Add
        <5> QED
          BY <1>2, <1>3, <2>4, <3>5, <5>1, AddExact
      <4>2. s.packet_retrans_count = r.packet_retrans_count + (IF Outermost THEN 1 ELSE 0)
        <5>1. CASE Outermost
          <6>1. s.packet_retrans_count = Add(r.packet_retrans_count, TRUE)
            BY <3>1, <3>2, <3>5, <5>1 DEF Add
          <6> QED
            BY <1>2, <1>3, <2>4, <3>5, <5>1, <6>1, AddExact
        <5>2. CASE ~Outermost
          BY <1>3, <3>1, <5>2 DEF Add
        <5> QED
          BY <5>1, <5>2
      <4> QED
        BY <1>3, <3>3, <3>4, <3>5, <4>1, <4>2
    <3>6. CASE ~SENT
      <4>1. /\ s.data_retrans_count = r.data_retrans_count
            /\ s.packet_retrans_count = r.packet_retrans_count
        BY <3>1, <3>6 DEF Add
      <4> QED
        BY <1>3, <3>3, <3>4, <3>6, <4>1
    <3> QED
      BY <3>5, <3>6
  <2> QED
    BY <1>8, <2>2, <2>3, <2>4 DEF PartTally, r, s, a
<1>9. CASE k # a
  <2>1. PICK t : SplitTally(t, r) /\ CreditTally(s, t, TRUE)
    BY <1>1, <1>9
  <2>2. /\ t.packet_sent_count = 0 /\ t.packet_retrans_count = 0 /\ t.acked_sent = 0
        /\ t.data_sent_count = r.data_sent_count
        /\ t.data_retrans_count = r.data_retrans_count
        /\ t.rdb_count = 0 /\ t.syn = 0 /\ t.rst = 0 /\ t.packet_received_count = 0
    BY <2>1 DEF SplitTally
  <2>3. /\ s.packet_sent_count = Add(0, SENT /\ Outermost /\ ~TRUE)
        /\ s.packet_retrans_count = Add(0, SENT /\ Outermost /\ TRUE)
        /\ s.acked_sent = 0
        /\ s.data_sent_count = Add(r.data_sent_count, SENT)
        /\ s.data_retrans_count = Add(r.data_retrans_count, SENT /\ TRUE)
        /\ s.rdb_count = Add(0, SENT /\ seg.is_rdb)
        /\ s.syn = 0 /\ s.rst = 0
        /\ s.packet_received_count = Add(0, ~SENT /\ Outermost)
    <3>1. /\ s.packet_sent_count = Add(t.packet_sent_count, SENT /\ Outermost /\ ~TRUE)
          /\ s.packet_retrans_count = Add(t.packet_retrans_count, SENT /\ Outermost /\ TRUE)
          /\ s.acked_sent = t.acked_sent
          /\ s.data_sent_count = Add(t.data_sent_count, SENT)
          /\ s.data_retrans_count = Add(t.data_retrans_count, SENT /\ TRUE)
          /\ s.rdb_count = Add(t.rdb_count, SENT /\ seg.is_rdb)
          /\ s.syn = t.syn /\ s.rst = t.rst
          /\ s.packet_received_count = Add(t.packet_received_count, ~SENT /\ Outermost)
      BY <2>1 DEF CreditTally
    <3> QED
      BY <2>2, <3>1
  <2>4. s.data_sent_count = r.data_sent_count + (IF SENT THEN 1 ELSE 0)
    <3>1. CASE SENT
      <4>1. s.data_sent_count = Add(r.data_sent_count, TRUE)
        BY <2>3, <3>1 DEF Add
      <4> QED
        BY <1>2, <1>3, <3>1, <4>1, AddExact
    <3>2. CASE ~SENT
      BY <1>3, <2>3, <3>2 DEF Add
    <3> QED
      BY <3>1, <3>2
  <2>5. s.packet_received_count = 0 + (IF ~SENT /\ Outermost THEN 1 ELSE 0)
    <3>1. CASE ~SENT /\ Outermost
      <4>1. s.packet_received_count = Add(0, TRUE)
        BY <2>3, <3>1 DEF Add
      <4> QED
        BY <1>4, <3>1, <4>1, AddExact
    <3>2. CASE ~(~SENT /\ Outermost)
      BY <2>3, <3>2 DEF Add
    <3> QED
      BY <3>1, <3>2
  <2>6. s.packet_sent_count = 0 /\ s.packet_retrans_count = 0 + (IF SENT /\ Outermost THEN 1 ELSE 0)
    <3>1. CASE SENT /\ Outermost
      <4>1. s.packet_retrans_count = Add(0, TRUE) /\ s.packet_sent_count = 0
        BY <2>3, <3>1 DEF Add
      <4>2. Add(0, TRUE) = 0 + 1
        BY <1>4, AddExact
      <4> QED
        BY <3>1, <4>1, <4>2
    <3>2. CASE ~(SENT /\ Outermost)
      BY <2>3, <3>2 DEF Add
    <3> QED
      BY <3>1, <3>2
  <2>7. ASSUME conn.bundleCount = 0
        PROVE  /\ s.data_retrans_count = r.data_retrans_count + (IF SENT THEN 1 ELSE 0)
               /\ s.rdb_count = 0
    <3>1. CASE SENT
      <4>1. s.data_retrans_count = Add(r.data_retrans_count, TRUE)
        BY <2>3, <3>1 DEF Add
      <4>2. s.data_retrans_count = r.data_retrans_count + 1
        BY <1>2, <1>3, <2>7, <3>1, <4>1, AddExact
      <4>3. s.rdb_count = 0
        BY <1>2, <2>3, <2>7 DEF Add
      <4> QED
        BY <3>1, <4>2, <4>3
    <3>2. CASE ~SENT
      BY <1>3, <2>3, <3>2 DEF Add
    <3> QED
      BY <3>1, <3>2
  <2>8. s.packet_sent_count + s.packet_retrans_count = 0 + (IF SENT /\ Outermost THEN 1 ELSE 0)
    BY <2>6
  <2> QED
    BY <1>9, <2>3, <2>4, <2>5, <2>7, <2>8 DEF PartTally, r, s, a
<1> QED
  BY <1>8, <1>9

\* The totals are numbers.
LEMMA SumsTyped ==
    ASSUME NEW rs, TallyMap(rs)
    PROVE  /\ SumFunctionOnSet(BytesOf(rs), DOMAIN rs) \in Nat
           /\ SumFunctionOnSet(LengthOf(rs), DOMAIN rs) \in Nat
           /\ SumFunctionOnSet(PacketsOf(rs), DOMAIN rs) \in Nat
           /\ SumFunctionOnSet(ReceivedOf(rs), DOMAIN rs) \in Nat
<1> DEFINE b == BytesOf(rs)
           l == LengthOf(rs)
           p == PacketsOf(rs)
           v == ReceivedOf(rs)
           S == DOMAIN rs
<1>1. IsFiniteSet(S) /\ \A x \in S : b[x] \in Nat /\ l[x] \in Nat /\ p[x] \in Nat /\ v[x] \in Nat
  BY TallyValues DEF TallyMap
<1> HIDE DEF b, l, p, v, S
<1>2. \A x \in S : b[x] \in Nat
  BY <1>1
<1>3. \A x \in S : l[x] \in Nat
  BY <1>1
<1>4. \A x \in S : p[x] \in Nat
  BY <1>1
<1>5. \A x \in S : v[x] \in Nat
  BY <1>1
<1>6. /\ SumFunctionOnSet(b, S) \in Nat /\ SumFunctionOnSet(l, S) \in Nat
      /\ SumFunctionOnSet(p, S) \in Nat /\ SumFunctionOnSet(v, S) \in Nat
  BY <1>1, <1>2, <1>3, <1>4, <1>5, SumNat
<1> QED
  BY <1>6 DEF b, l, p, v, S

\* What the step adds to the totals.
LEMMA TalliesTotals ==
    ASSUME ShortTrace, TypeOK, StepInv, TallyInv, TypeOK', RangesInStream',
           NEW k \in Keys, NEW upTo \in Nat, Tallies(k, upTo)
    PROVE  /\ analysed_bytes_sent' = analysed_bytes_sent + (IF SENT THEN upTo - frame.start ELSE 0)
           /\ Total([j \in Keys |-> byte_count(j)])' = Total([j \in Keys |-> byte_count(j)])
           /\ analysed_packet_received_count'
                = analysed_packet_received_count + (IF ~SENT /\ Outermost THEN 1 ELSE 0)
           /\ conn.bundleCount = 0 =>
                analysed_packet_sent_count_in_dump'
                  = analysed_packet_sent_count_in_dump + (IF SENT /\ Outermost THEN 1 ELSE 0)
<1> DEFINE a == frame.start
           rs == ranges
           rt == ranges'
           e == ranges[k].endSeq
<1>1. TallyMap(rs) /\ TallyMap(rt) /\ Cut(rs, rt, k, a, upTo)
  BY KeysTallied, TalliesCut DEF StepInv
<1>2. PartTally(k)
  BY TalliesPart
<1>3. /\ \A j \in Keys : j # k => rt[j] = rs[j]
      /\ k # a => SameTally(rt[k], rs[k])
      /\ upTo < e => SplitTally(rt[upTo], rs[k])
      /\ Keys \subseteq DOMAIN rt /\ a \in DOMAIN rt /\ (upTo < e => upTo \in DOMAIN rt)
  BY DEF Tallies, Keys
<1>4. /\ rs[k].data_sent_count \in Nat /\ rs[k].packet_sent_count \in Nat
      /\ rs[k].packet_retrans_count \in Nat /\ rs[k].acked_sent \in Nat
      /\ rs[k].packet_received_count \in Nat
      /\ a \in Nat /\ upTo \in Nat
      /\ rt[a].packet_sent_count \in Nat /\ rt[a].packet_retrans_count \in Nat
  <2>1. TallyTyped(rs[k])
    BY <1>1 DEF TallyMap, Keys
  <2>2. TallyTyped(rt[a])
    BY <1>1, <1>3 DEF TallyMap
  <2>3. a \in Nat
    BY <1>1 DEF Cut
  <2> HIDE DEF rs, rt
  <2> QED
    BY <2>1, <2>2, <2>3 DEF TallyTyped
<1>5. /\ rt[a].data_sent_count = rs[k].data_sent_count + (IF SENT THEN 1 ELSE 0)
      /\ k # a => rt[k].data_sent_count = rs[k].data_sent_count
      /\ upTo < e => rt[upTo].data_sent_count = rs[k].data_sent_count
  BY <1>2, <1>3 DEF PartTally, SameTally, SplitTally
<1>6. SumFunctionOnSet(BytesOf(rt), DOMAIN rt)
        = SumFunctionOnSet(BytesOf(rs), DOMAIN rs) + (IF SENT THEN upTo - a ELSE 0)
  <2> DEFINE c == IF SENT THEN 1 ELSE 0
  <2>1. c \in {0, 1} /\ rt[a].data_sent_count = rs[k].data_sent_count + c
    BY <1>5
  <2>2. c * (upTo - a) = IF SENT THEN upTo - a ELSE 0
    BY <1>4
  <2> HIDE DEF c, a, rs, rt
  <2>3. SumFunctionOnSet(BytesOf(rt), DOMAIN rt)
          = SumFunctionOnSet(BytesOf(rs), DOMAIN rs) + c * (upTo - a)
    <3>1. /\ k # a => rt[k].data_sent_count = rs[k].data_sent_count
          /\ upTo < rs[k].endSeq => rt[upTo].data_sent_count = rs[k].data_sent_count
      BY <1>5 DEF rs
    <3> QED
      BY <1>1, <2>1, <3>1, CutBytes
  <2> QED
    BY <2>2, <2>3
<1>7. SumFunctionOnSet(LengthOf(rt), DOMAIN rt) = SumFunctionOnSet(LengthOf(rs), DOMAIN rs)
  <2> HIDE DEF a, rs, rt
  <2> QED
    BY <1>1, CutLength
<1>8. SumFunctionOnSet(ReceivedOf(rt), DOMAIN rt)
        = SumFunctionOnSet(ReceivedOf(rs), DOMAIN rs) + (IF ~SENT /\ Outermost THEN 1 ELSE 0)
  <2> DEFINE f == ReceivedOf(rs)
             g == ReceivedOf(rt)
             c == IF ~SENT /\ Outermost THEN 1 ELSE 0
  <2>1. /\ \A x \in DOMAIN rs : f[x] \in Int
        /\ \A x \in DOMAIN rt : g[x] \in Int
    BY <1>1, TallyValues
  <2>2. \A x \in DOMAIN rs : x # k => g[x] = f[x]
    BY <1>3 DEF ReceivedOf, Keys
  <2>3. c \in Int /\ g[a] = (IF k = a THEN f[k] ELSE 0) + c
    BY <1>2, <1>3, <1>4 DEF ReceivedOf, PartTally, Keys
  <2>4. (k # a => g[k] = f[k]) /\ (upTo < rs[k].endSeq => g[upTo] = 0)
    BY <1>3 DEF ReceivedOf, SameTally, SplitTally, Keys
  <2> HIDE DEF f, g, c, a, rs, rt
  <2>5. SumFunctionOnSet(g, DOMAIN rt) = SumFunctionOnSet(f, DOMAIN rs) + c
    BY <1>1, <2>1, <2>2, <2>3, <2>4, CutCount
  <2> QED
    BY <2>5 DEF f, g, c
<1>9. ASSUME conn.bundleCount = 0
      PROVE  SumFunctionOnSet(PacketsOf(rt), DOMAIN rt)
               = SumFunctionOnSet(PacketsOf(rs), DOMAIN rs) + (IF SENT /\ Outermost THEN 1 ELSE 0)
  <2> DEFINE f == PacketsOf(rs)
             g == PacketsOf(rt)
             c == IF SENT /\ Outermost THEN 1 ELSE 0
  <2>1. /\ \A x \in DOMAIN rs : f[x] \in Int
        /\ \A x \in DOMAIN rt : g[x] \in Int
    BY <1>1, TallyValues
  <2>2. \A x \in DOMAIN rs : x # k => g[x] = f[x]
    BY <1>3 DEF PacketsOf, Keys
  <2>3. c \in Int /\ g[a] = (IF k = a THEN f[k] ELSE 0) + c
    <3>1. /\ g[a] = rt[a].packet_sent_count + rt[a].packet_retrans_count + rt[a].acked_sent
          /\ f[k] = rs[k].packet_sent_count + rs[k].packet_retrans_count + rs[k].acked_sent
      BY <1>3 DEF PacketsOf, Keys
    <3>2. /\ rt[a].packet_sent_count + rt[a].packet_retrans_count
               = (IF k = a THEN rs[k].packet_sent_count + rs[k].packet_retrans_count ELSE 0) + c
          /\ rt[a].acked_sent = IF k = a THEN rs[k].acked_sent ELSE 0
      BY <1>2, <1>9 DEF PartTally
    <3> HIDE DEF f, g, a, rs, rt
    <3> QED
      BY <1>4, <3>1, <3>2
  <2>4. (k # a => g[k] = f[k]) /\ (upTo < rs[k].endSeq => g[upTo] = 0)
    BY <1>3 DEF PacketsOf, SameTally, SplitTally, Keys
  <2> HIDE DEF f, g, c, a, rs, rt
  <2>5. SumFunctionOnSet(g, DOMAIN rt) = SumFunctionOnSet(f, DOMAIN rs) + c
    BY <1>1, <2>1, <2>2, <2>3, <2>4, CutCount
  <2> QED
    BY <2>5 DEF f, g, c
<1> QED
  BY <1>6, <1>7, <1>8, <1>9, TotalsAreSums, TotalsAreSumsNext

\* A range that the step leaves alone keeps its counts.
LEMMA UntouchedTallied ==
    ASSUME TypeOK, NEW j \in Keys, Tallied(j), ranges'[j] = ranges[j],
           UNCHANGED <<conn, base, nxt, tcp>>,
           Inserting' /\ ranges[j].endSeq > frame'.start =>
             Inserting /\ ranges[j].endSeq > frame.start
    PROVE  Tallied(j)'
<1>1. HasBytes(j)' <=> HasBytes(j)
  BY DEF HasBytes
<1>2. ASSUME EmptyTallied(j) PROVE EmptyTallied(j)'
  BY <1>2 DEF EmptyTallied
<1>3. ASSUME DataTallied(j) PROVE DataTallied(j)'
  <2>1. conn.nrPacketsSent \in Nat /\ ranges[j].data_sent_count \in Nat
    <3>1. ranges[j] \in ByteRanges /\ conn \in ConnCounters
      BY DEF TypeOK, rmTypeOK, Keys
    <3>2. TallyTyped(ranges[j])
      BY <3>1, RangeTallyTyped
    <3> QED
      BY <3>1, <3>2 DEF TallyTyped, ConnCounters
  <2>2. ranges[j].data_sent_count + (IF Inserting' /\ ranges[j].endSeq > frame'.start THEN 1 ELSE 0)
          <= conn.nrPacketsSent
    <3>1. ranges[j].data_sent_count + (IF Inserting /\ ranges[j].endSeq > frame.start THEN 1 ELSE 0)
            <= conn.nrPacketsSent
      BY <1>3 DEF DataTallied
    <3>2. CASE Inserting' /\ ranges[j].endSeq > frame'.start
      BY <3>1, <3>2
    <3>3. CASE ~(Inserting' /\ ranges[j].endSeq > frame'.start)
      BY <2>1, <3>1, <3>3
    <3> QED
      BY <3>2, <3>3
  <2> QED
    BY <1>3, <2>2 DEF DataTallied
<1> QED
  BY <1>1, <1>2, <1>3 DEF Tallied

\* The call after the step.
LEMMA TalliesCall ==
    ASSUME TypeOK, NEW k \in Keys, NEW upTo \in Nat, Tallies(k, upTo)
    PROVE  \/ op' = "idle" /\ upTo = frame.end
           \/ /\ op' = "insert" /\ seg' = seg /\ frame'.start = upTo /\ frame'.end = frame.end
              /\ frame'.itype = frame.itype /\ ~Outermost' /\ ~ZeroLength' /\ upTo < frame.end
              /\ upTo = ranges[k].endSeq
<1>1. frame \in Frames /\ op = "insert"
  BY DEF TypeOK, rmTypeOK, Tallies
<1>2. CASE upTo = frame.end /\ Return
  BY <1>2 DEF Return
<1>3. CASE upTo = ranges[k].endSeq /\ upTo < frame.end /\ Recurse(upTo)
  <2>1. frame' = [frame EXCEPT !.start = upTo, !.level = @ + 1] /\ op' = op /\ seg' = seg
    BY <1>3 DEF Recurse
  <2>2. /\ frame'.start = upTo /\ frame'.end = frame.end /\ frame'.itype = frame.itype
        /\ frame'.level = frame.level + 1
    BY <1>1, <2>1 DEF Frames
  <2>3. frame.level \in Nat /\ frame.end \in Nat
    BY <1>1 DEF Frames
  <2>4. frame.level + 1 # 0 /\ upTo # frame.end
    BY <1>3, <2>3
  <2> QED
    BY <1>1, <1>3, <2>1, <2>2, <2>4 DEF Outermost, ZeroLength
<1> QED
  BY <1>2, <1>3 DEF Tallies

\* The ranges after the step.
LEMMA TalliesRanges ==
    ASSUME ShortTrace, TypeOK, StepInv, TallyInv, TypeOK', Fixed,
           NEW k \in Keys, NEW upTo \in Nat, Tallies(k, upTo), NEW j \in Keys'
    PROVE  Tallied(j)'
<1> DEFINE a == frame.start
           r == ranges[k]
           s == ranges'[j]
<1>1. UNCHANGED <<conn, base, nxt, tcp>>
  BY DEF Fixed, envVars
<1>2. /\ op = "insert" /\ ~ZeroLength /\ k \in Nat /\ a \in Nat /\ r.endSeq \in Nat
      /\ k <= a /\ a < upTo /\ upTo <= r.endSeq
  BY DEF Tallies, StepInv, Typed
<1>3. a < r.endSeq
  BY <1>2
<1>4. /\ TallyTyped(r) /\ DataTallied(k)
  BY <1>2, <1>3, CoveredTally
<1>5. /\ r.packet_sent_count \in Nat /\ r.packet_retrans_count \in Nat /\ r.acked_sent \in Nat
      /\ r.data_sent_count \in Nat /\ r.data_retrans_count \in Nat
      /\ conn.nrPacketsSent \in Nat
  BY <1>4 DEF TallyTyped, TypeOK, ConnCounters
<1>6. /\ SENT => r.data_sent_count + 1 <= conn.nrPacketsSent
      /\ r.data_sent_count <= conn.nrPacketsSent
      /\ conn.bundleCount = 0 =>
           /\ r.syn = 0 /\ r.rst = 0 /\ r.rdb_count = 0
           /\ r.data_sent_count = r.data_retrans_count + 1
           /\ r.packet_sent_count + r.packet_retrans_count <= r.data_retrans_count + 1
  <2>1. /\ r.data_sent_count + (IF Inserting /\ r.endSeq > frame.start THEN 1 ELSE 0)
             <= conn.nrPacketsSent
        /\ conn.bundleCount = 0 =>
             /\ r.syn = 0 /\ r.rst = 0 /\ r.rdb_count = 0
             /\ r.data_sent_count = r.data_retrans_count + 1
             /\ r.packet_sent_count + r.packet_retrans_count <= r.data_retrans_count + 1
    BY <1>4 DEF DataTallied
  <2>2. r.endSeq > frame.start /\ (Inserting <=> SENT)
    BY <1>2, <1>3 DEF Inserting
  <2> HIDE DEF r
  <2> QED
    BY <1>5, <2>1, <2>2
<1>7. Inserting' => frame'.start = upTo /\ SENT
  <2>1. Inserting' => op' = "insert" /\ frame'.itype = "INSERT_SENT"
    BY DEF Inserting, SENT
  <2> QED
    BY <2>1, TalliesCall DEF SENT
<1>8. CASE j \in Keys /\ j # k
  <2>1. ranges'[j] = ranges[j] /\ Tallied(j) /\ ranges[j].endSeq \in Nat
    BY <1>8 DEF Tallies, TallyInv, StepInv, Typed
  <2>2. ASSUME Inserting', ranges[j].endSeq > frame'.start
        PROVE  Inserting /\ ranges[j].endSeq > frame.start
    <3>1. ranges[j].endSeq > upTo /\ SENT
      BY <1>7, <2>2
    <3>2. ranges[j].endSeq > frame.start
      BY <1>2, <2>1, <3>1
    <3> QED
      BY <1>2, <3>1, <3>2 DEF Inserting
  <2> QED
    BY <1>1, <1>8, <2>1, <2>2, UntouchedTallied
<1>9. CASE j = k /\ k # a
  <2>1. s.endSeq = a /\ SameTally(s, r)
    BY <1>9 DEF Tallies
  <2>2. HasBytes(j)'
    BY <1>2, <1>9, <2>1 DEF HasBytes
  <2>3. ~(Inserting' /\ s.endSeq > frame'.start)
    BY <1>2, <1>7, <2>1
  <2>4. /\ s.data_sent_count = r.data_sent_count /\ s.data_retrans_count = r.data_retrans_count
        /\ s.syn = r.syn /\ s.rst = r.rst /\ s.rdb_count = r.rdb_count
        /\ s.packet_sent_count = r.packet_sent_count
        /\ s.packet_retrans_count = r.packet_retrans_count
    BY <2>1 DEF SameTally
  <2>5. DataTallied(j)'
    BY <1>1, <1>5, <1>6, <2>3, <2>4 DEF DataTallied
  <2> QED
    BY <2>2, <2>5 DEF Tallied
<1>10. CASE j = a
  <2>1. s.endSeq = upTo /\ PartTally(k)
    BY <1>10, TalliesPart DEF Tallies
  <2>2. HasBytes(j)'
    BY <1>2, <1>10, <2>1 DEF HasBytes
  <2>3. ~(Inserting' /\ s.endSeq > frame'.start)
    BY <1>2, <1>7, <2>1
  <2>4. /\ s.data_sent_count = r.data_sent_count + (IF SENT THEN 1 ELSE 0)
        /\ conn.bundleCount = 0 =>
             /\ s.packet_sent_count + s.packet_retrans_count
                  = (IF k = a THEN r.packet_sent_count + r.packet_retrans_count ELSE 0)
                    + (IF SENT /\ Outermost THEN 1 ELSE 0)
             /\ s.data_retrans_count = r.data_retrans_count + (IF SENT THEN 1 ELSE 0)
             /\ s.rdb_count = 0 /\ s.syn = 0 /\ s.rst = 0
    BY <1>10, <2>1 DEF PartTally
  <2>5. /\ s.data_sent_count <= conn.nrPacketsSent
        /\ conn.bundleCount = 0 =>
             /\ s.data_sent_count = s.data_retrans_count + 1
             /\ s.packet_sent_count + s.packet_retrans_count <= s.data_retrans_count + 1
    <3> HIDE DEF r, s, a
    <3>1. s.data_sent_count <= conn.nrPacketsSent
      BY <1>5, <1>6, <2>4
    <3>2. ASSUME conn.bundleCount = 0
          PROVE  s.data_sent_count = s.data_retrans_count + 1
      BY <1>5, <1>6, <2>4, <3>2
    <3>3. ASSUME conn.bundleCount = 0
          PROVE  s.packet_sent_count + s.packet_retrans_count <= s.data_retrans_count + 1
      <4>1. CASE SENT
        BY <1>5, <1>6, <2>4, <3>3, <4>1
      <4>2. CASE ~SENT
        BY <1>5, <1>6, <2>4, <3>3, <4>2
      <4> QED
        BY <4>1, <4>2
    <3> QED
      BY <3>1, <3>2, <3>3
  <2>6. s.data_sent_count + 0 = s.data_sent_count
    BY <1>5, <2>4
  <2>7. DataTallied(j)'
    <3>1. s.data_sent_count + (IF Inserting' /\ s.endSeq > frame'.start THEN 1 ELSE 0)
            <= conn.nrPacketsSent
      BY <2>3, <2>5, <2>6
    <3> QED
      BY <1>1, <2>4, <2>5, <3>1 DEF DataTallied
  <2> QED
    BY <2>2, <2>7 DEF Tallied
<1>11. CASE j = upTo /\ upTo < r.endSeq
  <2>1. s.endSeq = r.endSeq /\ SplitTally(s, r)
    BY <1>11 DEF Tallies
  <2>2. HasBytes(j)'
    BY <1>2, <1>11, <2>1 DEF HasBytes
  <2>3. /\ s.packet_sent_count = 0 /\ s.packet_retrans_count = 0
        /\ s.data_sent_count = r.data_sent_count /\ s.data_retrans_count = r.data_retrans_count
        /\ s.rdb_count = 0 /\ s.syn = 0 /\ s.rst = 0
    BY <2>1 DEF SplitTally
  <2>4. s.data_sent_count + (IF Inserting' /\ s.endSeq > frame'.start THEN 1 ELSE 0)
          <= conn.nrPacketsSent
    <3>1. CASE Inserting'
      BY <1>5, <1>6, <1>7, <2>3, <3>1
    <3>2. CASE ~Inserting'
      BY <1>5, <1>6, <2>3, <3>2
    <3> QED
      BY <3>1, <3>2
  <2>5. DataTallied(j)'
    BY <1>1, <1>5, <1>6, <2>3, <2>4 DEF DataTallied
  <2> QED
    BY <2>2, <2>5 DEF Tallied
<1> QED
  BY <1>8, <1>9, <1>10, <1>11 DEF Tallies

\* The totals, with what is left of the segment, after the step.
LEMMA TalliesPending ==
    ASSUME ShortTrace, TypeOK, StepInv, TallyInv, TypeOK', RangesInStream', Fixed,
           NEW k \in Keys, NEW upTo \in Nat, Tallies(k, upTo)
    PROVE  TotalsPending'
<1> DEFINE a == frame.start
           b == analysed_bytes_sent
           p == analysed_packet_sent_count_in_dump
           v == analysed_packet_received_count
           l == Total([j \in Keys |-> byte_count(j)])
<1>1. UNCHANGED <<conn, base, nxt, recvNo>>
  BY DEF Fixed, envVars
<1>2. /\ op = "insert" /\ ~ZeroLength /\ a \in Nat /\ frame.end \in Nat /\ a < upTo
      /\ k <= a /\ upTo <= ranges[k].endSeq /\ ranges[k].endSeq \in Nat /\ k \in Nat
  BY DEF Tallies, StepInv, Typed
<1>3. b \in Nat /\ p \in Nat /\ v \in Nat /\ l \in Nat
  <2>1. TallyMap(ranges)
    BY KeysTallied DEF StepInv
  <2> QED
    BY <2>1, SumsTyped, TotalsAreSums
<1>4. /\ b' = b + (IF SENT THEN upTo - a ELSE 0)
      /\ l' = l
      /\ v' = v + (IF ~SENT /\ Outermost THEN 1 ELSE 0)
      /\ conn.bundleCount = 0 => p' = p + (IF SENT /\ Outermost THEN 1 ELSE 0)
  BY TalliesTotals
<1>5. /\ b + (IF SENT THEN frame.end - a ELSE 0) = conn.totBytesSent
      /\ conn.bundleCount = 0 =>
           /\ p + (IF SENT /\ Outermost THEN 1 ELSE 0) = conn.nrPacketsSent
           /\ l + (IF SENT /\ ~seg.retrans THEN frame.end - a ELSE 0) = nxt - base
      /\ v + (IF ~SENT /\ Outermost THEN 1 ELSE 0) = recvNo
  BY <1>2 DEF TallyInv, TotalsPending, Inserting
<1>6. conn.bundleCount = 0 /\ SENT => seg.retrans
  <2>1. a < ranges[k].endSeq
    BY <1>2
  <2> QED
    BY <1>2, <2>1, CoveredTally
<1>7. /\ Inserting' => SENT /\ frame'.start = upTo /\ frame'.end = frame.end /\ seg' = seg
      /\ SENT /\ ~Inserting' => upTo = frame.end
      /\ ~(op' = "insert" /\ Outermost')
  <2>1. CASE op' = "idle" /\ upTo = frame.end
    BY <2>1 DEF Inserting
  <2>2. CASE /\ op' = "insert" /\ seg' = seg /\ frame'.start = upTo /\ frame'.end = frame.end
             /\ frame'.itype = frame.itype /\ ~Outermost' /\ ~ZeroLength'
    BY <2>2 DEF Inserting, SENT
  <2> QED
    BY <2>1, <2>2, TalliesCall
<1> HIDE DEF a, b, p, v, l
<1>8. b' + (IF Inserting' THEN frame'.end - frame'.start ELSE 0) = conn.totBytesSent
  <2>1. CASE Inserting'
    <3>1. b' + (frame'.end - frame'.start) = b + (upTo - a) + (frame.end - upTo)
      BY <1>4, <1>7, <2>1
    <3>2. b + (upTo - a) + (frame.end - upTo) = b + (frame.end - a)
      BY <1>2, <1>3
    <3> QED
      BY <1>5, <1>7, <2>1, <3>1, <3>2
  <2>2. CASE ~Inserting' /\ SENT
    <3>1. b' = b + (frame.end - a)
      BY <1>4, <1>7, <2>2
    <3>2. (b + (frame.end - a)) + 0 = b + (frame.end - a)
      BY <1>2, <1>3
    <3> QED
      BY <1>5, <2>2, <3>1, <3>2
  <2>3. CASE ~Inserting' /\ ~SENT
    BY <1>3, <1>4, <1>5, <2>3
  <2> QED
    BY <2>1, <2>2, <2>3
<1>9. v' + 0 = recvNo
  <2>1. (v + (IF ~SENT /\ Outermost THEN 1 ELSE 0)) + 0 = v + (IF ~SENT /\ Outermost THEN 1 ELSE 0)
    BY <1>3
  <2> QED
    BY <1>4, <1>5, <2>1
<1>10. ASSUME conn.bundleCount = 0 PROVE p' + 0 = conn.nrPacketsSent
  <2>1. (p + (IF SENT /\ Outermost THEN 1 ELSE 0)) + 0 = p + (IF SENT /\ Outermost THEN 1 ELSE 0)
    BY <1>3
  <2> QED
    BY <1>4, <1>5, <1>10, <2>1
<1>11. ASSUME conn.bundleCount = 0
       PROVE  l' + (IF Inserting' /\ ~seg'.retrans THEN frame'.end - frame'.start ELSE 0) = nxt - base
  <2>1. ~(Inserting' /\ ~seg'.retrans) /\ ~(SENT /\ ~seg.retrans)
    BY <1>6, <1>7, <1>11
  <2> QED
    BY <1>4, <1>5, <1>11, <2>1
<1>12. TotalsPending' <=>
         /\ b' + (IF Inserting' THEN frame'.end - frame'.start ELSE 0) = conn'.totBytesSent
         /\ conn'.bundleCount = 0 =>
              /\ p' + (IF op' = "insert" /\ SENT' /\ Outermost' THEN 1 ELSE 0) = conn'.nrPacketsSent
              /\ l' + (IF Inserting' /\ ~seg'.retrans THEN frame'.end - frame'.start ELSE 0)
                   = nxt' - base'
         /\ v' + (IF op' = "insert" /\ ~SENT' /\ Outermost' THEN 1 ELSE 0) = recvNo'
  BY DEF TotalsPending, b, p, v, l
<1> QED
  BY <1>1, <1>7, <1>8, <1>9, <1>10, <1>11, <1>12

\* The step keeps the invariant.
LEMMA TalliesKeeps ==
    ASSUME ShortTrace, TypeOK, StepInv, TallyInv, TypeOK', RangesInStream', Fixed,
           NEW k \in Keys, NEW upTo \in Nat, Tallies(k, upTo)
    PROVE  TallyInv'
<1> DEFINE a == frame.start
           r == ranges[k]
<1>1. UNCHANGED <<conn, base, nxt, recvNo, wire>>
  BY DEF Fixed, envVars
<1>2. /\ op = "insert" /\ ~ZeroLength /\ a \in Nat /\ frame.end \in Nat /\ a < upTo
      /\ k <= a /\ upTo <= r.endSeq /\ r.endSeq \in Nat /\ k \in Nat
  BY DEF Tallies, StepInv, Typed
<1>3. \/ op' = "idle" /\ upTo = frame.end
      \/ /\ op' = "insert" /\ seg' = seg /\ frame'.start = upTo /\ frame'.end = frame.end
         /\ frame'.itype = frame.itype /\ ~Outermost' /\ ~ZeroLength' /\ upTo < frame.end
         /\ upTo = r.endSeq
  BY TalliesCall
<1>4. Inserting' => Inserting /\ frame'.start = upTo /\ frame'.end = frame.end /\ seg' = seg
  BY <1>2, <1>3 DEF Inserting, SENT
<1>5. LargestSeen'
  BY <1>1, <1>4 DEF TallyInv, LargestSeen
<1>6. Keys \subseteq Keys'
  BY DEF Tallies
<1>7. SegmentClassified'
  <2>1. seg'.is_rdb => conn'.bundleCount > 0
    <3>1. CASE seg' = seg
      BY <1>1, <3>1 DEF TallyInv, SegmentClassified
    <3>2. CASE op' = "idle"
      <4>1. op' # op
        BY <1>2, <3>2
      <4>2. Return
        BY <4>1 DEF Tallies, Recurse
      <4>3. seg' = NoSeg
        BY <4>2 DEF Return
      <4> QED
        BY <4>3 DEF NoSeg
    <3> QED
      BY <1>3, <3>1, <3>2
  <2>2. op' = "insert" =>
          IF ZeroLength' THEN Outermost' /\ ~seg'.retrans /\ ~seg'.is_rdb
          ELSE seg'.flag \in {"none", "fin"}
    BY <1>2, <1>3 DEF TallyInv, SegmentClassified
  <2>3. ASSUME Inserting', ~seg'.is_rdb
        PROVE  /\ seg'.retrans
               /\ \A x \in frame'.start .. frame'.end - 1 :
                    \E h \in Keys' : h <= x /\ x < ranges'[h].endSeq
    <3>1. Inserting /\ ~seg.is_rdb
      BY <1>4, <2>3
    <3>2. seg.retrans /\ \A x \in a .. frame.end - 1 : \E h \in Keys : Covers(h, x)
      <4>1. a < r.endSeq
        BY <1>2
      <4>2. ~(r.endSeq <= frame.start)
        BY <1>2, <4>1
      <4> QED
        BY <3>1, <4>2 DEF TallyInv, SegmentClassified
    <3>3. ASSUME NEW x \in frame'.start .. frame'.end - 1
          PROVE  \E h \in Keys' : h <= x /\ x < ranges'[h].endSeq
      <4>1. x \in upTo .. frame.end - 1
        BY <1>4, <2>3
      <4>2. x \in a .. frame.end - 1 /\ x \in Nat /\ upTo <= x
        BY <1>2, <4>1
      <4>3. PICK h \in Keys : Covers(h, x)
        BY <3>2, <4>2
      <4>4. upTo = r.endSeq
        BY <1>3, <2>3 DEF Inserting
      <4>5. h # k
        <5>1. ASSUME h = k PROVE FALSE
          <6>1. x < r.endSeq
            BY <4>3, <5>1 DEF Covers
          <6> QED
            BY <1>2, <4>2, <4>4, <6>1
        <5> QED
          BY <5>1
      <4>6. ranges'[h] = ranges[h]
        BY <4>5 DEF Tallies
      <4> QED
        BY <1>6, <4>3, <4>6 DEF Covers
    <3> QED
      BY <1>4, <2>3, <3>2, <3>3
  <2> QED
    BY <2>1, <2>2, <2>3 DEF SegmentClassified, Covers
<1>8. EmptyKnown'
  <2>1. \A p \in wire : p.seq >= nxt => p.seq \in Keys
    BY <1>2 DEF TallyInv, EmptyKnown
  <2>2. op' = "insert" => ~ZeroLength'
    BY <1>3
  <2> QED
    BY <1>1, <1>6, <2>1, <2>2 DEF EmptyKnown
<1>9. \A j \in Keys' : Tallied(j)'
  BY TalliesRanges
<1>10. TotalsPending'
  BY TalliesPending
<1> QED
  BY <1>5, <1>7, <1>8, <1>9, <1>10 DEF TallyInv

-----------------------------------------------------------------------------
(* A step that opens a range. *)

\* A call that returns leaves nothing pending.
LEMMA ReturnTallies ==
    ASSUME TallyInv, Fixed, op' = "idle", seg' = NoSeg,
           \A p \in wire : p.seq >= nxt => p.seq \in Keys',
           \A j \in Keys' : Tallied(j)', TotalsPending'
    PROVE  TallyInv'
<1>1. UNCHANGED <<conn, base, nxt, recvNo, wire>>
  BY DEF Fixed, envVars
<1>2. ~Inserting' /\ ~seg'.is_rdb
  BY DEF Inserting, NoSeg
<1>3. LargestSeen'
  BY <1>1, <1>2 DEF TallyInv, LargestSeen
<1>4. SegmentClassified'
  BY <1>2 DEF SegmentClassified
<1>5. EmptyKnown'
  BY <1>1 DEF EmptyKnown
<1> QED
  BY <1>3, <1>4, <1>5 DEF TallyInv

\* The totals of a call that has returned.
LEMMA ReturnPending ==
    ASSUME op' = "idle", TypeOK, TypeOK', RangesInStream', Fixed,
           analysed_bytes_sent' = conn.totBytesSent,
           conn.bundleCount = 0 =>
             /\ analysed_packet_sent_count_in_dump' = conn.nrPacketsSent
             /\ Total([j \in Keys |-> byte_count(j)])' = nxt - base,
           analysed_packet_received_count' = recvNo
    PROVE  TotalsPending'
<1> DEFINE b == analysed_bytes_sent
           p == analysed_packet_sent_count_in_dump
           v == analysed_packet_received_count
           l == Total([j \in Keys |-> byte_count(j)])
<1>1. UNCHANGED <<conn, base, nxt, recvNo>> /\ ~Inserting'
  BY DEF Fixed, envVars, Inserting
<1>2. b' \in Nat /\ p' \in Nat /\ v' \in Nat /\ l' \in Nat
  <2>1. TallyMap(ranges')
    BY KeysTallied
  <2> QED
    BY <2>1, SumsTyped, TotalsAreSumsNext
<1>3. \A n \in Nat : n + 0 = n
  OBVIOUS
<1> HIDE DEF b, p, v, l
<1>4. TotalsPending' <=>
         /\ b' + (IF Inserting' THEN frame'.end - frame'.start ELSE 0) = conn'.totBytesSent
         /\ conn'.bundleCount = 0 =>
              /\ p' + (IF op' = "insert" /\ SENT' /\ Outermost' THEN 1 ELSE 0) = conn'.nrPacketsSent
              /\ l' + (IF Inserting' /\ ~seg'.retrans THEN frame'.end - frame'.start ELSE 0)
                   = nxt' - base'
         /\ v' + (IF op' = "insert" /\ ~SENT' /\ Outermost' THEN 1 ELSE 0) = recvNo'
  BY DEF TotalsPending, b, p, v, l
<1>5. /\ b' = conn.totBytesSent /\ v' = recvNo
      /\ conn.bundleCount = 0 => p' = conn.nrPacketsSent /\ l' = nxt - base
  BY DEF b, p, v, l
<1> QED
  BY <1>1, <1>2, <1>3, <1>4, <1>5

\* The range that the step opens: it is new or has no bytes, and counts one packet.
LEMMA OpenedTally ==
    ASSUME ShortTrace, TypeOK, StepInv, CallInv, TallyInv, Opens, OpenTally
    PROVE  LET a == frame.start
               r == ranges[a]
               s == ranges'[a]
           IN /\ a \in Nat /\ frame.end \in Nat /\ a < frame.end
              /\ a \in Keys => r.endSeq = a
              /\ s.endSeq = frame.end /\ s.data_sent_count = 1
              /\ s.packet_received_count = IF a \in Keys THEN r.packet_received_count ELSE 0
              /\ conn.bundleCount = 0 =>
                   /\ Outermost /\ ~seg.retrans
                   /\ s.packet_sent_count = 1 /\ s.packet_retrans_count = 0
                   /\ a \in Keys => r.packet_sent_count = 0 /\ r.packet_retrans_count = 0
                   /\ s.acked_sent = IF a \in Keys THEN r.acked_sent ELSE 0
                   /\ s.data_retrans_count = 0 /\ s.rdb_count = 0 /\ s.syn = 0 /\ s.rst = 0
<1> DEFINE a == frame.start
           r == ranges[a]
           s == ranges'[a]
<1>1. op = "insert" /\ ~ZeroLength /\ SENT /\ Inserting /\ s.endSeq = frame.end
  BY DEF Opens, Inserting
<1>2. \A k \in Keys : k <= a /\ ranges[k].endSeq <= a
  BY DEF Opens
<1>3. a \in Nat /\ frame.end \in Nat /\ nxt \in Nat /\ base \in Nat
  BY DEF StepInv, Typed
<1>4. a < frame.end /\ base <= a /\ a < nxt
  <2>1. /\ base <= seg.seq /\ seg.seq <= a /\ a < frame.end /\ frame.end <= nxt
    BY <1>1 DEF StepInv, CallInStream
  <2>2. seg.seq \in Nat
    BY DEF StepInv, Typed
  <2> QED
    BY <1>3, <2>1, <2>2
<1>5. a \in Keys => r.endSeq = a /\ ~HasBytes(a) /\ TallyTyped(r)
  <2>1. ASSUME a \in Keys PROVE r.endSeq = a /\ TallyTyped(r)
    <3>1. a <= r.endSeq /\ r.endSeq <= a /\ r.endSeq \in Nat
      BY <1>2, <2>1 DEF StepInv, RangesInStream, Typed
    <3>2. TallyTyped(r)
      BY <2>1, RangeTallyTyped DEF TypeOK, rmTypeOK, Keys
    <3> QED
      BY <1>3, <3>1, <3>2
  <2> QED
    BY <1>3, <2>1 DEF HasBytes
<1>6. Add(0, TRUE) = 1
  <2>1. 0 + 1 < CounterMod /\ 0 + 1 = 1
    BY CounterModAssumption
  <2> QED
    BY <2>1, AddExact
<1>7. s.data_sent_count = 1
  <2>1. CASE a \in Keys
    <3>1. s.data_sent_count = Add(r.data_sent_count, TRUE)
      BY <2>1 DEF Opens
    <3>2. r.data_sent_count = 0
      BY <1>4, <1>5, <2>1 DEF CallInv, EmptyUncounted
    <3> QED
      BY <1>6, <3>1, <3>2
  <2>2. CASE a \notin Keys
    BY <1>6, <2>2 DEF Opens
  <2> QED
    BY <2>1, <2>2
<1>8. s.packet_received_count = IF a \in Keys THEN r.packet_received_count ELSE 0
  BY DEF OpenTally
<1>9. ASSUME conn.bundleCount = 0
      PROVE  /\ Outermost /\ ~seg.retrans
             /\ s.packet_sent_count = 1 /\ s.packet_retrans_count = 0
             /\ a \in Keys => r.packet_sent_count = 0 /\ r.packet_retrans_count = 0
             /\ s.acked_sent = IF a \in Keys THEN r.acked_sent ELSE 0
             /\ s.data_retrans_count = 0 /\ s.rdb_count = 0 /\ s.syn = 0 /\ s.rst = 0
  <2>1. ~seg.is_rdb
    <3>1. conn.bundleCount > 0 => FALSE
      BY <1>9
    <3> QED
      BY <3>1 DEF TallyInv, SegmentClassified
  <2>2. ~seg.retrans
    <3>1. ASSUME seg.retrans PROVE FALSE
      <4>1. \A x \in a .. frame.end - 1 : \E k \in Keys : Covers(k, x)
        BY <1>1, <2>1, <3>1 DEF TallyInv, SegmentClassified
      <4>2. a \in a .. frame.end - 1
        BY <1>3, <1>4
      <4>3. PICK k \in Keys : Covers(k, a)
        BY <4>1, <4>2
      <4>4. a < ranges[k].endSeq /\ ranges[k].endSeq <= a /\ ranges[k].endSeq \in Nat
        BY <1>2, <4>3 DEF Covers, StepInv, Typed
      <4> QED
        BY <1>3, <4>4
    <3> QED
      BY <3>1
  <2>3. Outermost
    BY <1>1, <2>1, <2>2 DEF TallyInv, SegmentClassified
  <2>4. CASE a \in Keys
    <3>1. EmptyTallied(a)
      BY <1>5, <2>4 DEF TallyInv, Tallied
    <3>2. /\ r.packet_sent_count + r.packet_retrans_count = r.syn + r.fin + r.rst
          /\ r.data_retrans_count = 0 /\ r.rdb_count = 0
          /\ r.packet_sent_count = 0 /\ r.packet_retrans_count = 0
      BY <1>4, <1>9, <3>1 DEF EmptyTallied
    <3>3. r.syn \in Nat /\ r.fin \in Nat /\ r.rst \in Nat
      BY <1>5, <2>4 DEF TallyTyped
    <3>4. r.syn = 0 /\ r.rst = 0
      <4> HIDE DEF r
      <4> QED
        BY <3>2, <3>3
    <3>5. /\ s.packet_sent_count = Add(r.packet_sent_count, TRUE)
          /\ s.packet_retrans_count = r.packet_retrans_count
          /\ s.acked_sent = r.acked_sent
          /\ s.data_retrans_count = r.data_retrans_count
          /\ s.rdb_count = r.rdb_count
          /\ s.syn = r.syn /\ s.rst = r.rst
      BY <2>4 DEF OpenTally
    <3> QED
      BY <1>6, <2>2, <2>3, <2>4, <3>2, <3>4, <3>5
  <2>5. CASE a \notin Keys
    <3>1. /\ s.packet_sent_count = Add(0, ~seg.is_rdb)
          /\ s.packet_retrans_count = 0 /\ s.acked_sent = 0
          /\ s.data_retrans_count = 0 /\ s.rdb_count = 0
          /\ s.syn = 0 /\ s.rst = 0
      BY <2>5 DEF OpenTally
    <3>2. s.packet_sent_count = 1
      BY <1>6, <2>1, <3>1 DEF Add
    <3> QED
      BY <2>2, <2>3, <2>5, <3>1, <3>2
  <2> QED
    BY <2>4, <2>5
<1> QED
  BY <1>1, <1>3, <1>4, <1>5, <1>7, <1>8, <1>9

\* Only the range at a is new or changed.
Puts(rs, rt, a) ==
    /\ DOMAIN rt = DOMAIN rs \cup {a}
    /\ \A j \in DOMAIN rs : j # a => rt[j] = rs[j]

\* What that does to a sum.
LEMMA PutSum ==
    ASSUME NEW rs, NEW rt, NEW a, Puts(rs, rt, a), TallyMap(rs), NEW f, NEW g,
           \A x \in DOMAIN rs : f[x] \in Nat, \A x \in DOMAIN rt : g[x] \in Nat,
           \A x \in DOMAIN rs : x # a => g[x] = f[x],
           NEW m \in Int, NEW n \in Int, g[a] = n, m = (IF a \in DOMAIN rs THEN f[a] ELSE 0)
    PROVE  SumFunctionOnSet(g, DOMAIN rt) = SumFunctionOnSet(f, DOMAIN rs) + n - m
<1> DEFINE S == DOMAIN rs
<1>1. IsFiniteSet(S) /\ DOMAIN rt = S \cup {a}
  BY DEF Puts, TallyMap
<1>2. \A x \in S : f[x] \in Int
  OBVIOUS
<1>3. \A x \in S \cup {a} : g[x] \in Int
  BY <1>1
<1>4. \A x \in S \ {a} : g[x] = f[x]
  OBVIOUS
<1>5. SumFunctionOnSet(g, DOMAIN rt) = SumFunctionOnSet(g, S \cup {a})
  BY <1>1
<1> HIDE DEF S
<1>6. SumFunctionOnSet(g, S \cup {a}) = SumFunctionOnSet(f, S) + g[a] - m
  <2>1. PutSet(S, a, f, g, m)
    BY <1>1, <1>2, <1>3, <1>4 DEF PutSet, S
  <2> QED
    BY <2>1, SumPut
<1> QED
  BY <1>5, <1>6 DEF S

\* The range at a has b, l, p and v more of them than before.
PutBy(a, b, l, p, v) ==
    /\ TallyMap(ranges) /\ TallyMap(ranges') /\ Puts(ranges, ranges', a)
    /\ b \in Int /\ l \in Int /\ p \in Int /\ v \in Int
    /\ BytesOf(ranges')[a] - (IF a \in Keys THEN BytesOf(ranges)[a] ELSE 0) = b
    /\ LengthOf(ranges')[a] - (IF a \in Keys THEN LengthOf(ranges)[a] ELSE 0) = l
    /\ PacketsOf(ranges')[a] - (IF a \in Keys THEN PacketsOf(ranges)[a] ELSE 0) = p
    /\ ReceivedOf(ranges')[a] - (IF a \in Keys THEN ReceivedOf(ranges)[a] ELSE 0) = v

\* What it does to the four totals.
LEMMA PutTotals ==
    ASSUME NEW a, NEW b, NEW l, NEW p, NEW v, PutBy(a, b, l, p, v)
    PROVE  /\ analysed_bytes_sent' = analysed_bytes_sent + b
           /\ Total([j \in Keys |-> byte_count(j)])' = Total([j \in Keys |-> byte_count(j)]) + l
           /\ analysed_packet_sent_count_in_dump' = analysed_packet_sent_count_in_dump + p
           /\ analysed_packet_received_count' = analysed_packet_received_count + v
<1> /\ TallyMap(ranges) /\ TallyMap(ranges') /\ Puts(ranges, ranges', a)
    /\ b \in Int /\ l \in Int /\ p \in Int /\ v \in Int
    /\ BytesOf(ranges')[a] - (IF a \in Keys THEN BytesOf(ranges)[a] ELSE 0) = b
    /\ LengthOf(ranges')[a] - (IF a \in Keys THEN LengthOf(ranges)[a] ELSE 0) = l
    /\ PacketsOf(ranges')[a] - (IF a \in Keys THEN PacketsOf(ranges)[a] ELSE 0) = p
    /\ ReceivedOf(ranges')[a] - (IF a \in Keys THEN ReceivedOf(ranges)[a] ELSE 0) = v
  BY DEF PutBy
<1> DEFINE rs == ranges
           rt == ranges'
<1>1. /\ \A x \in DOMAIN rs : /\ BytesOf(rs)[x] \in Nat /\ LengthOf(rs)[x] \in Nat
                              /\ PacketsOf(rs)[x] \in Nat /\ ReceivedOf(rs)[x] \in Nat
      /\ \A x \in DOMAIN rt : /\ BytesOf(rt)[x] \in Nat /\ LengthOf(rt)[x] \in Nat
                              /\ PacketsOf(rt)[x] \in Nat /\ ReceivedOf(rt)[x] \in Nat
  BY TallyValues
<1>2. a \in DOMAIN rt /\ \A x \in DOMAIN rs : x \in DOMAIN rt /\ (x # a => rt[x] = rs[x])
  BY DEF Puts
<1>3. \A x \in DOMAIN rs : x # a =>
        /\ BytesOf(rt)[x] = BytesOf(rs)[x] /\ LengthOf(rt)[x] = LengthOf(rs)[x]
        /\ PacketsOf(rt)[x] = PacketsOf(rs)[x] /\ ReceivedOf(rt)[x] = ReceivedOf(rs)[x]
  BY <1>2 DEF BytesOf, LengthOf, PacketsOf, ReceivedOf
<1>4. /\ SumFunctionOnSet(BytesOf(rs), DOMAIN rs) \in Nat
      /\ SumFunctionOnSet(LengthOf(rs), DOMAIN rs) \in Nat
      /\ SumFunctionOnSet(PacketsOf(rs), DOMAIN rs) \in Nat
      /\ SumFunctionOnSet(ReceivedOf(rs), DOMAIN rs) \in Nat
  BY SumsTyped
<1>5. \A s, m, n \in Int : s + n - m = s + (n - m)
  OBVIOUS
<1>6. Puts(rs, rt, a) /\ TallyMap(rs) /\ (a \in Keys <=> a \in DOMAIN rs)
  BY DEF Keys
<1>7. ASSUME NEW f, NEW g, \A x \in DOMAIN rs : f[x] \in Nat, \A x \in DOMAIN rt : g[x] \in Nat,
             \A x \in DOMAIN rs : x # a => g[x] = f[x], NEW c \in Int,
             g[a] - (IF a \in DOMAIN rs THEN f[a] ELSE 0) = c,
             SumFunctionOnSet(f, DOMAIN rs) \in Nat
      PROVE  SumFunctionOnSet(g, DOMAIN rt) = SumFunctionOnSet(f, DOMAIN rs) + c
  <2> DEFINE m == IF a \in DOMAIN rs THEN f[a] ELSE 0
             n == g[a]
  <2>1. m \in Int /\ n \in Int /\ n - m = c
    BY <1>2, <1>7
  <2>2. g[a] = n /\ m = (IF a \in DOMAIN rs THEN f[a] ELSE 0)
    OBVIOUS
  <2> HIDE DEF m, n, rs, rt
  <2>3. SumFunctionOnSet(g, DOMAIN rt) = SumFunctionOnSet(f, DOMAIN rs) + n - m
    BY <1>6, <1>7, <2>1, <2>2, PutSum
  <2> QED
    BY <1>5, <1>7, <2>1, <2>3
<1>8. SumFunctionOnSet(BytesOf(rt), DOMAIN rt) = SumFunctionOnSet(BytesOf(rs), DOMAIN rs) + b
  <2> DEFINE f == BytesOf(rs)
             g == BytesOf(rt)
  <2>1. /\ \A x \in DOMAIN rs : f[x] \in Nat
        /\ \A x \in DOMAIN rt : g[x] \in Nat
        /\ \A x \in DOMAIN rs : x # a => g[x] = f[x]
        /\ g[a] - (IF a \in DOMAIN rs THEN f[a] ELSE 0) = b
        /\ SumFunctionOnSet(f, DOMAIN rs) \in Nat
    BY <1>1, <1>3, <1>4, <1>6
  <2> HIDE DEF f, g, rs, rt
  <2>2. SumFunctionOnSet(g, DOMAIN rt) = SumFunctionOnSet(f, DOMAIN rs) + b
    BY <1>7, <2>1
  <2> QED
    BY <2>2 DEF f, g
<1>9. SumFunctionOnSet(LengthOf(rt), DOMAIN rt) = SumFunctionOnSet(LengthOf(rs), DOMAIN rs) + l
  <2> DEFINE f == LengthOf(rs)
             g == LengthOf(rt)
  <2>1. /\ \A x \in DOMAIN rs : f[x] \in Nat
        /\ \A x \in DOMAIN rt : g[x] \in Nat
        /\ \A x \in DOMAIN rs : x # a => g[x] = f[x]
        /\ g[a] - (IF a \in DOMAIN rs THEN f[a] ELSE 0) = l
        /\ SumFunctionOnSet(f, DOMAIN rs) \in Nat
    BY <1>1, <1>3, <1>4, <1>6
  <2> HIDE DEF f, g, rs, rt
  <2>2. SumFunctionOnSet(g, DOMAIN rt) = SumFunctionOnSet(f, DOMAIN rs) + l
    BY <1>7, <2>1
  <2> QED
    BY <2>2 DEF f, g
<1>10. SumFunctionOnSet(PacketsOf(rt), DOMAIN rt) = SumFunctionOnSet(PacketsOf(rs), DOMAIN rs) + p
  <2> DEFINE f == PacketsOf(rs)
             g == PacketsOf(rt)
  <2>1. /\ \A x \in DOMAIN rs : f[x] \in Nat
        /\ \A x \in DOMAIN rt : g[x] \in Nat
        /\ \A x \in DOMAIN rs : x # a => g[x] = f[x]
        /\ g[a] - (IF a \in DOMAIN rs THEN f[a] ELSE 0) = p
        /\ SumFunctionOnSet(f, DOMAIN rs) \in Nat
    BY <1>1, <1>3, <1>4, <1>6
  <2> HIDE DEF f, g, rs, rt
  <2>2. SumFunctionOnSet(g, DOMAIN rt) = SumFunctionOnSet(f, DOMAIN rs) + p
    BY <1>7, <2>1
  <2> QED
    BY <2>2 DEF f, g
<1>11. SumFunctionOnSet(ReceivedOf(rt), DOMAIN rt) = SumFunctionOnSet(ReceivedOf(rs), DOMAIN rs) + v
  <2> DEFINE f == ReceivedOf(rs)
             g == ReceivedOf(rt)
  <2>1. /\ \A x \in DOMAIN rs : f[x] \in Nat
        /\ \A x \in DOMAIN rt : g[x] \in Nat
        /\ \A x \in DOMAIN rs : x # a => g[x] = f[x]
        /\ g[a] - (IF a \in DOMAIN rs THEN f[a] ELSE 0) = v
        /\ SumFunctionOnSet(f, DOMAIN rs) \in Nat
    BY <1>1, <1>3, <1>4, <1>6
  <2> HIDE DEF f, g, rs, rt
  <2>2. SumFunctionOnSet(g, DOMAIN rt) = SumFunctionOnSet(f, DOMAIN rs) + v
    BY <1>7, <2>1
  <2> QED
    BY <2>2 DEF f, g
<1> QED
  BY <1>8, <1>9, <1>10, <1>11, TotalsAreSums, TotalsAreSumsNext

\* The step that opens a range keeps the invariant.
LEMMA OpensKeepsTallies ==
    ASSUME ShortTrace, TypeOK, StepInv, CallInv, TallyInv, TypeOK', RangesInStream', Fixed,
           Opens, OpenTally
    PROVE  TallyInv'
<1> DEFINE a == frame.start
           r == ranges[a]
           s == ranges'[a]
           rest == frame.end - a
           b == analysed_bytes_sent
           p == analysed_packet_sent_count_in_dump
           v == analysed_packet_received_count
           l == Total([j \in Keys |-> byte_count(j)])
<1>1. /\ a \in Nat /\ frame.end \in Nat /\ a < frame.end
      /\ a \in Keys => r.endSeq = a
      /\ s.endSeq = frame.end /\ s.data_sent_count = 1
      /\ s.packet_received_count = IF a \in Keys THEN r.packet_received_count ELSE 0
  BY OpenedTally
<1>2. conn.bundleCount = 0 =>
        /\ Outermost /\ ~seg.retrans
        /\ s.packet_sent_count = 1 /\ s.packet_retrans_count = 0
        /\ a \in Keys => r.packet_sent_count = 0 /\ r.packet_retrans_count = 0
        /\ s.acked_sent = IF a \in Keys THEN r.acked_sent ELSE 0
        /\ s.data_retrans_count = 0 /\ s.rdb_count = 0 /\ s.syn = 0 /\ s.rst = 0
  BY OpenedTally
<1>3. op = "insert" /\ ~ZeroLength /\ SENT /\ Inserting /\ op' = "idle" /\ seg' = NoSeg
  BY DEF Opens, Return, Inserting
<1>4. UNCHANGED <<conn, base, nxt, tcp, recvNo, wire>>
  BY DEF Fixed, envVars
<1>5. Puts(ranges, ranges', a) /\ Keys' = Keys \cup {a}
  BY DEF Opens, Puts, Keys
<1>6. TallyMap(ranges) /\ TallyMap(ranges')
  BY KeysTallied DEF StepInv
<1>7. a \in DOMAIN ranges' /\ TallyTyped(s) /\ (a \in Keys => TallyTyped(r))
  <2>1. a \in DOMAIN ranges'
    BY <1>5 DEF Keys
  <2> QED
    BY <1>6, <2>1 DEF TallyMap, Keys
<1>8. /\ BytesOf(ranges')[a] = rest * 1 /\ LengthOf(ranges')[a] = rest
      /\ PacketsOf(ranges')[a] = s.packet_sent_count + s.packet_retrans_count + s.acked_sent
      /\ ReceivedOf(ranges')[a] = s.packet_received_count
  BY <1>1, <1>7 DEF BytesOf, LengthOf, PacketsOf, ReceivedOf
<1>9. a \in Keys =>
        /\ BytesOf(ranges)[a] = (a - a) * r.data_sent_count /\ LengthOf(ranges)[a] = a - a
        /\ PacketsOf(ranges)[a] = r.packet_sent_count + r.packet_retrans_count + r.acked_sent
        /\ ReceivedOf(ranges)[a] = r.packet_received_count
  BY <1>1 DEF BytesOf, LengthOf, PacketsOf, ReceivedOf, Keys
<1>10. /\ a \in Keys => /\ r.data_sent_count \in Nat /\ r.packet_sent_count \in Nat
                        /\ r.packet_retrans_count \in Nat /\ r.acked_sent \in Nat
                        /\ r.packet_received_count \in Nat
       /\ s.packet_sent_count \in Nat /\ s.packet_retrans_count \in Nat /\ s.acked_sent \in Nat
       /\ s.packet_received_count \in Nat
  BY <1>7 DEF TallyTyped
<1> DEFINE pa == PacketsOf(ranges')[a] - (IF a \in Keys THEN PacketsOf(ranges)[a] ELSE 0)
<1>11. /\ rest \in Int /\ pa \in Int
       /\ BytesOf(ranges')[a] - (IF a \in Keys THEN BytesOf(ranges)[a] ELSE 0) = rest
       /\ LengthOf(ranges')[a] - (IF a \in Keys THEN LengthOf(ranges)[a] ELSE 0) = rest
       /\ ReceivedOf(ranges')[a] - (IF a \in Keys THEN ReceivedOf(ranges)[a] ELSE 0) = 0
       /\ conn.bundleCount = 0 => pa = 1
  <2> HIDE DEF r, s, a
  <2>1. rest \in Int /\ rest * 1 = rest /\ rest - 0 = rest
    BY <1>1
  <2> HIDE DEF rest
  <2>2. CASE a \in Keys
    <3>1. (a - a) * r.data_sent_count = 0 /\ a - a = 0
      BY <1>1, <1>10, <2>2
    <3>2. BytesOf(ranges)[a] = 0 /\ LengthOf(ranges)[a] = 0
      BY <1>9, <2>2, <3>1
    <3>3. ReceivedOf(ranges')[a] - ReceivedOf(ranges)[a] = 0
      BY <1>1, <1>8, <1>9, <1>10, <2>2
    <3>4. pa \in Int
      BY <1>8, <1>9, <1>10, <2>2
    <3>5. conn.bundleCount = 0 => pa = 1
      BY <1>2, <1>8, <1>9, <1>10, <2>2
    <3> QED
      BY <1>8, <2>1, <2>2, <3>2, <3>3, <3>4, <3>5
  <2>3. CASE a \notin Keys
    <3>1. pa \in Int /\ (conn.bundleCount = 0 => pa = 1)
      BY <1>2, <1>8, <1>10, <2>3
    <3> QED
      BY <1>1, <1>8, <2>1, <2>3, <3>1
  <2> QED
    BY <2>2, <2>3
<1>12. b' = b + rest /\ l' = l + rest /\ p' = p + pa /\ v' = v + 0
  <2> HIDE DEF a, r, s, rest
  <2>1. PacketsOf(ranges')[a] - (IF a \in Keys THEN PacketsOf(ranges)[a] ELSE 0) = pa /\ 0 \in Int
    OBVIOUS
  <2>2. PutBy(a, rest, rest, pa, 0)
    <3> HIDE DEF pa
    <3> QED
      BY <1>5, <1>6, <1>11, <2>1 DEF PutBy
  <2> HIDE DEF pa
  <2> QED
    BY <2>2, PutTotals
<1>13. b \in Nat /\ p \in Nat /\ v \in Nat /\ l \in Nat
  BY <1>6, SumsTyped, TotalsAreSums
<1>14. /\ b + rest = conn.totBytesSent
       /\ conn.bundleCount = 0 => p + 1 = conn.nrPacketsSent /\ l + rest = nxt - base
       /\ v + 0 = recvNo
  BY <1>2, <1>3 DEF TallyInv, TotalsPending
<1>15. TotalsPending'
  <2>1. /\ b' = conn.totBytesSent /\ v' = recvNo
        /\ conn.bundleCount = 0 => p' = conn.nrPacketsSent /\ l' = nxt - base
    <3> HIDE DEF b, p, v, l, rest, pa
    <3> QED
      BY <1>11, <1>12, <1>14
  <2> QED
    BY <1>3, <2>1, ReturnPending
<1>16. ASSUME NEW j \in Keys' PROVE Tallied(j)'
  <2>1. CASE j # a
    <3>1. j \in Keys /\ Tallied(j) /\ ranges'[j] = ranges[j]
      BY <1>5, <2>1 DEF Opens, TallyInv
    <3>2. ~Inserting'
      BY <1>3 DEF Inserting
    <3> QED
      BY <1>4, <3>1, <3>2, UntouchedTallied
  <2>2. CASE j = a
    <3>1. HasBytes(j)'
      BY <1>1, <2>2 DEF HasBytes
    <3>2. ~Inserting'
      BY <1>3 DEF Inserting
    <3>3. s.data_sent_count + 0 <= conn.nrPacketsSent
      <4>1. conn.nrPacketsSent > 0 /\ conn.nrPacketsSent \in Nat
        BY <1>3 DEF TallyInv, LargestSeen, TypeOK, ConnCounters
      <4> HIDE DEF s
      <4> QED
        BY <1>1, <4>1
    <3>4. conn.bundleCount = 0 =>
            /\ s.syn = 0 /\ s.rst = 0 /\ s.rdb_count = 0
            /\ s.data_sent_count = s.data_retrans_count + 1
            /\ s.packet_sent_count + s.packet_retrans_count <= s.data_retrans_count + 1
      <4> HIDE DEF s
      <4> QED
        BY <1>1, <1>2
    <3>5. DataTallied(j)'
      BY <1>4, <2>2, <3>2, <3>3, <3>4 DEF DataTallied
    <3> QED
      BY <3>1, <3>5 DEF Tallied
  <2> QED
    BY <2>1, <2>2
<1>17. \A q \in wire : q.seq >= nxt => q.seq \in Keys'
  BY <1>3, <1>5 DEF TallyInv, EmptyKnown
<1> QED
  BY <1>3, <1>15, <1>16, <1>17, ReturnTallies

-----------------------------------------------------------------------------
(* A segment without payload. *)

\* One packet more, if it was sent, and as many flags as it has.
FlagExact(s, r) ==
    LET flagged == IF SENT /\ seg.flag # "none" THEN 1 ELSE 0
    IN /\ s.packet_sent_count + s.packet_retrans_count
            = r.packet_sent_count + r.packet_retrans_count + flagged
       /\ s.acked_sent = r.acked_sent + (IF SENT /\ seg.flag = "none" THEN 1 ELSE 0)
       /\ s.syn + s.fin + s.rst = r.syn + r.fin + r.rst + flagged

\* None of the counters of r that the segment may add to is at its limit.
Room(r) ==
    /\ \A n \in {r.packet_sent_count, r.packet_retrans_count, r.acked_sent} : n + 1 < CounterMod
    /\ seg.flag # "none" => \A n \in {r.syn, r.fin, r.rst} : n + 1 < CounterMod

\* The counters then count.
LEMMA FlagCounts ==
    ASSUME NEW r, NEW s, NEW first \in BOOLEAN, TallyTyped(r), SENT => Room(r),
           FlagTally(s, r, first), seg.flag \in Flags
    PROVE  FlagExact(s, r)
<1>1. /\ r.packet_sent_count \in Nat /\ r.packet_retrans_count \in Nat /\ r.acked_sent \in Nat
      /\ r.syn \in Nat /\ r.fin \in Nat /\ r.rst \in Nat
  BY DEF TallyTyped
<1>2. CASE ~SENT
  <2>1. /\ s.packet_sent_count = r.packet_sent_count
        /\ s.packet_retrans_count = r.packet_retrans_count
        /\ s.acked_sent = r.acked_sent
        /\ s.syn = r.syn /\ s.fin = r.fin /\ s.rst = r.rst
    BY <1>2 DEF FlagTally, Add
  <2> QED
    BY <1>1, <1>2, <2>1 DEF FlagExact
<1>3. CASE SENT
  <2>1. /\ Add(r.packet_sent_count, TRUE) = r.packet_sent_count + 1
        /\ Add(r.packet_retrans_count, TRUE) = r.packet_retrans_count + 1
        /\ Add(r.acked_sent, TRUE) = r.acked_sent + 1
    BY <1>1, <1>3, AddExact DEF Room
  <2>2. seg.flag # "none" =>
          /\ Add(r.syn, TRUE) = r.syn + 1 /\ Add(r.fin, TRUE) = r.fin + 1
          /\ Add(r.rst, TRUE) = r.rst + 1
    BY <1>1, <1>3, AddExact DEF Room
  <2>4. seg.flag \in {"none", "syn", "fin", "rst"}
    BY DEF Flags
  <2>5. CASE seg.flag = "none"
    <3>1. /\ s.packet_sent_count = r.packet_sent_count
          /\ s.packet_retrans_count = r.packet_retrans_count
          /\ s.acked_sent = Add(r.acked_sent, TRUE)
          /\ s.syn = r.syn /\ s.fin = r.fin /\ s.rst = r.rst
      BY <1>3, <2>5 DEF FlagTally, Add
    <3>2. s.acked_sent = r.acked_sent + 1
      BY <2>1, <3>1
    <3>3. /\ s.packet_sent_count + s.packet_retrans_count
               = r.packet_sent_count + r.packet_retrans_count + 0
          /\ s.syn + s.fin + s.rst = r.syn + r.fin + r.rst + 0
      BY <1>1, <3>1
    <3> QED
      BY <1>3, <2>5, <3>2, <3>3 DEF FlagExact
  <2>6. CASE seg.flag # "none"
    <3>1. /\ s.acked_sent = r.acked_sent
          /\ \/ /\ s.packet_sent_count = Add(r.packet_sent_count, TRUE)
                /\ s.packet_retrans_count = r.packet_retrans_count
             \/ /\ s.packet_sent_count = r.packet_sent_count
                /\ s.packet_retrans_count = Add(r.packet_retrans_count, TRUE)
      <4>1. CASE first \/ seg.flag = "rst"
        BY <1>3, <2>6, <4>1 DEF FlagTally, Add
      <4>2. CASE ~(first \/ seg.flag = "rst")
        BY <1>3, <2>6, <4>2 DEF FlagTally, Add
      <4> QED
        BY <4>1, <4>2
    <3>2. \/ s.syn = Add(r.syn, TRUE) /\ s.fin = r.fin /\ s.rst = r.rst
          \/ s.syn = r.syn /\ s.fin = Add(r.fin, TRUE) /\ s.rst = r.rst
          \/ s.syn = r.syn /\ s.fin = r.fin /\ s.rst = Add(r.rst, TRUE)
      <4>1. CASE seg.flag = "syn"
        BY <1>3, <4>1 DEF FlagTally, Add
      <4>2. CASE seg.flag = "fin"
        BY <1>3, <4>2 DEF FlagTally, Add
      <4>3. CASE seg.flag = "rst"
        BY <1>3, <4>3 DEF FlagTally, Add
      <4> QED
        BY <2>4, <2>6, <4>1, <4>2, <4>3
    <3>3. s.packet_sent_count + s.packet_retrans_count
            = r.packet_sent_count + r.packet_retrans_count + 1
      <4>1. \/ /\ s.packet_sent_count = r.packet_sent_count + 1
               /\ s.packet_retrans_count = r.packet_retrans_count
            \/ /\ s.packet_sent_count = r.packet_sent_count
               /\ s.packet_retrans_count = r.packet_retrans_count + 1
        BY <2>1, <3>1
      <4> QED
        BY <1>1, <4>1
    <3>4. s.syn + s.fin + s.rst = r.syn + r.fin + r.rst + 1
      <4>1. \/ s.syn = r.syn + 1 /\ s.fin = r.fin /\ s.rst = r.rst
            \/ s.syn = r.syn /\ s.fin = r.fin + 1 /\ s.rst = r.rst
            \/ s.syn = r.syn /\ s.fin = r.fin /\ s.rst = r.rst + 1
        BY <2>2, <2>6, <3>2
      <4> QED
        BY <1>1, <4>1
    <3>5. s.acked_sent = r.acked_sent + 0
      BY <1>1, <3>1
    <3> QED
      BY <1>3, <2>6, <3>3, <3>4, <3>5 DEF FlagExact
  <2> QED
    BY <2>5, <2>6
<1> QED
  BY <1>2, <1>3

\* A segment without payload has been registered at k, where r was before.
Flagged(k, r) ==
    LET s == ranges'[k]
    IN /\ op = "insert" /\ ZeroLength /\ Outermost /\ Return
       /\ k \in Nat /\ TallyTyped(r) /\ s.endSeq = r.endSeq
       /\ Puts(ranges, ranges', k)
       /\ IF k \in Keys THEN r = ranges[k] ELSE r.endSeq = k
       /\ k \notin Keys => /\ SENT /\ r.packet_sent_count = 0 /\ r.packet_retrans_count = 0
                           /\ r.acked_sent = 0 /\ r.syn = 0 /\ r.fin = 0 /\ r.rst = 0
                           /\ r.packet_received_count = 0
                           /\ r.data_retrans_count = 0 /\ r.rdb_count = 0
       /\ k < r.endSeq => s.data_sent_count = r.data_sent_count /\ (SENT => seg.flag = "none")
       /\ SENT /\ seg.flag # "none" => k = frame.start
       /\ \E first \in BOOLEAN : FlagTally(s, r, first)
       /\ seg.flag # "none" => frame.start \in Keys'

\* It has, if there was no range.
LEMMA InsertZeroLengthFlags ==
    ASSUME TypeOK, StepInv, EverySent, TallyInv, InsertZeroLength
    PROVE  Flagged(frame.start, newByteRange(frame.start, frame.start))
<1> DEFINE z == frame.start
           m == newByteRange(z, z)
<1>1. /\ op = "insert" /\ ZeroLength /\ Return
      /\ z \notin Keys /\ Keys' = Keys \cup {z}
      /\ \A k \in Keys : ranges'[k] = ranges[k]
      /\ ranges'[z].endSeq = z
  BY InsertZeroLengthHistory
<1>2. SENT /\ Outermost /\ ~seg.retrans /\ ~seg.is_rdb
  <2>1. start_seq \notin Keys
    BY DEF InsertZeroLength
  <2> QED
    BY <1>1, <2>1 DEF TallyInv, SegmentClassified, EmptyKnown
<1>3. FlagTally(ranges'[z], m, TRUE)
  BY <1>2, InsertZeroLengthTally
<1>4. z \in Nat
  BY DEF StepInv, Typed
<1>5. /\ m \in ByteRanges /\ m.endSeq = z
      /\ m.packet_sent_count = 0 /\ m.packet_retrans_count = 0
      /\ m.acked_sent = 0 /\ m.syn = 0 /\ m.fin = 0 /\ m.rst = 0
      /\ m.packet_received_count = 0 /\ m.data_retrans_count = 0 /\ m.rdb_count = 0
  BY <1>4, NewByteRangeType DEF newByteRange
<1>6. TallyTyped(m)
  BY <1>5, RangeTallyTyped
<1>7. Puts(ranges, ranges', z)
  BY <1>1 DEF Puts, Keys
<1>8. ~(z < z)
  BY <1>4
<1> HIDE DEF m
<1>9. \E first \in BOOLEAN : FlagTally(ranges'[z], m, first)
  BY <1>3
<1>10. /\ ranges'[z].endSeq = m.endSeq /\ ~(z < m.endSeq)
       /\ z \in Keys'
  BY <1>1, <1>5, <1>8
<1>11. Flagged(z, m)
  BY <1>1, <1>2, <1>4, <1>5, <1>6, <1>7, <1>9, <1>10 DEF Flagged
<1> QED
  BY <1>11 DEF m

\* It has, if there was one.
LEMMA UpdateZeroLengthFlags ==
    ASSUME TypeOK, StepInv, EverySent, CallInv, TallyInv, UpdateZeroLength
    PROVE  Flagged(start_seq, ranges[start_seq])
<1> DEFINE z == start_seq
           r == ranges[z]
<1>1. /\ op = "insert" /\ ZeroLength /\ Return
      /\ z \in Keys /\ Keys' = Keys
      /\ \A k \in Keys : k # z => ranges'[k] = ranges[k]
      /\ ranges'[z].endSeq = r.endSeq
      /\ Counts(ranges'[z], r, seg.flag \in {"syn", "fin"})
  BY UpdateZeroLengthHistory
<1>2. Outermost
  BY <1>1 DEF TallyInv, SegmentClassified
<1>3. FlagTally(ranges'[z], r, FALSE)
  BY UpdateZeroLengthTally
<1>4. z \in Nat /\ r.endSeq \in Nat /\ nxt \in Nat /\ base \in Nat
  BY <1>1 DEF StepInv, Typed
<1>5. TallyTyped(r)
  <2>1. r \in ByteRanges
    BY <1>1 DEF TypeOK, rmTypeOK, Keys
  <2> QED
    BY <2>1, RangeTallyTyped
<1>6. seg.flag # "none" => z = frame.start
  BY DEF start_seq
<1>7. ASSUME z < r.endSeq PROVE seg.flag = "none"
  <2>1. ASSUME seg.flag # "none" PROVE FALSE
    <3>1. base <= z /\ r.endSeq <= nxt
      BY <1>1, <1>7 DEF CallInv, EmptyUncounted, HasBytes, StepInv, RangesInStream
    <3>2. base <= frame.start /\ frame.start < nxt
      BY <1>4, <1>6, <1>7, <2>1, <3>1
    <3> QED
      BY <1>1, <2>1, <3>2, FlagsUncounted
  <2> QED
    BY <2>1
<1>8. ASSUME z < r.endSeq PROVE ranges'[z].data_sent_count = r.data_sent_count
  <2>1. ranges'[z].data_sent_count = Add(r.data_sent_count, seg.flag \in {"syn", "fin"} /\ SENT)
    BY <1>1 DEF Counts
  <2> QED
    BY <1>7, <1>8, <2>1 DEF Add
<1>9. Puts(ranges, ranges', z)
  BY <1>1 DEF Puts, Keys
<1>10. \E first \in BOOLEAN : FlagTally(ranges'[z], r, first)
  BY <1>3
<1>11. seg.flag # "none" => frame.start \in Keys'
  BY <1>1, <1>6
<1> HIDE DEF z
<1>12. Flagged(z, r)
  BY <1>1, <1>2, <1>4, <1>5, <1>6, <1>7, <1>8, <1>9, <1>10, <1>11 DEF Flagged
<1> QED
  BY <1>12 DEF z

\* There is room for the segment.
LEMMA FlagRoom ==
    ASSUME ShortTrace, TypeOK, StepInv, TallyInv, NEW k, NEW r, Flagged(k, r)
    PROVE  /\ conn.bundleCount = 0 /\ SENT => Room(r)
           /\ ~SENT => k \in Keys /\ r.packet_received_count + 1 < CounterMod
<1>1. /\ op = "insert" /\ Outermost /\ TallyTyped(r)
      /\ k \in Keys => r = ranges[k]
      /\ k \notin Keys => /\ SENT /\ r.packet_sent_count = 0 /\ r.packet_retrans_count = 0
                          /\ r.acked_sent = 0 /\ r.syn = 0 /\ r.fin = 0 /\ r.rst = 0
      /\ k < r.endSeq /\ SENT => seg.flag = "none"
  BY DEF Flagged
<1>2. /\ r.packet_sent_count \in Nat /\ r.packet_retrans_count \in Nat /\ r.acked_sent \in Nat
      /\ r.syn \in Nat /\ r.fin \in Nat /\ r.rst \in Nat /\ r.packet_received_count \in Nat
  BY <1>1 DEF TallyTyped
<1>3. /\ conn.nrPacketsSent \in Nat /\ recvNo \in Nat
      /\ MaxPackets \in Nat /\ MaxRecv \in Nat /\ CounterMod \in Nat
      /\ MaxPackets < CounterMod /\ MaxRecv < CounterMod
      /\ conn.nrPacketsSent <= MaxPackets /\ recvNo <= MaxRecv
      /\ 0 + 1 < CounterMod
  BY BoundsAssumption, CounterModAssumption
  DEF TypeOK, ConnCounters, ShortTrace, TallyInv, LargestSeen
<1>4. ASSUME k \in Keys
      PROVE  /\ analysed_packet_sent_count_in_dump \in Nat /\ analysed_packet_received_count \in Nat
             /\ r.packet_sent_count + r.packet_retrans_count + r.acked_sent
                  <= analysed_packet_sent_count_in_dump
             /\ r.packet_received_count <= analysed_packet_received_count
  <2>1. TallyMap(ranges)
    BY KeysTallied DEF StepInv
  <2> QED
    BY <1>1, <1>4, <2>1, CountsBelowTotals
<1>5. /\ ~SENT => analysed_packet_received_count + 1 = recvNo
      /\ conn.bundleCount = 0 /\ SENT =>
           analysed_packet_sent_count_in_dump + 1 = conn.nrPacketsSent
  BY <1>1 DEF TallyInv, TotalsPending
<1>6. ASSUME ~SENT PROVE k \in Keys /\ r.packet_received_count + 1 < CounterMod
  BY <1>1, <1>2, <1>3, <1>4, <1>5, <1>6
<1>7. ASSUME conn.bundleCount = 0, SENT PROVE Room(r)
  <2>1. CASE k \notin Keys
    BY <1>1, <1>3, <2>1 DEF Room
  <2>2. CASE k \in Keys
    <3>1. r.packet_sent_count + r.packet_retrans_count + r.acked_sent + 1 <= conn.nrPacketsSent
      BY <1>2, <1>3, <1>4, <1>5, <1>7, <2>2
    <3>2. /\ r.packet_sent_count + 1 < CounterMod /\ r.packet_retrans_count + 1 < CounterMod
          /\ r.acked_sent + 1 < CounterMod
      BY <1>2, <1>3, <3>1
    <3>3. ASSUME seg.flag # "none"
          PROVE  /\ r.syn + 1 < CounterMod /\ r.fin + 1 < CounterMod /\ r.rst + 1 < CounterMod
      <4>1. ~HasBytes(k)
        BY <1>1, <1>7, <2>2, <3>3 DEF HasBytes
      <4>2. r.packet_sent_count + r.packet_retrans_count = r.syn + r.fin + r.rst
        <5>1. EmptyTallied(k)
          BY <2>2, <4>1 DEF TallyInv, Tallied
        <5> QED
          BY <1>1, <1>7, <2>2, <5>1 DEF EmptyTallied
      <4> QED
        BY <1>2, <1>3, <3>1, <4>2
    <3> QED
      BY <3>2, <3>3 DEF Room
  <2> QED
    BY <2>1, <2>2
<1> QED
  BY <1>6, <1>7

\* What the segment adds to the totals.
LEMMA FlagTotals ==
    ASSUME ShortTrace, TypeOK, StepInv, TallyInv, TypeOK', RangesInStream',
           NEW k, NEW r, Flagged(k, r)
    PROVE  /\ analysed_bytes_sent' = analysed_bytes_sent
           /\ Total([j \in Keys |-> byte_count(j)])' = Total([j \in Keys |-> byte_count(j)])
           /\ conn.bundleCount = 0 =>
                analysed_packet_sent_count_in_dump'
                  = analysed_packet_sent_count_in_dump + (IF SENT THEN 1 ELSE 0)
           /\ analysed_packet_received_count'
                = analysed_packet_received_count + (IF SENT THEN 0 ELSE 1)
<1> DEFINE s == ranges'[k]
           b == analysed_bytes_sent
           p == analysed_packet_sent_count_in_dump
           v == analysed_packet_received_count
           l == Total([j \in Keys |-> byte_count(j)])
           pa == PacketsOf(ranges')[k] - (IF k \in Keys THEN PacketsOf(ranges)[k] ELSE 0)
           va == IF SENT THEN 0 ELSE 1
<1>1. /\ k \in Nat /\ TallyTyped(r) /\ s.endSeq = r.endSeq /\ Outermost
      /\ Puts(ranges, ranges', k)
      /\ IF k \in Keys THEN r = ranges[k] ELSE r.endSeq = k
      /\ k \notin Keys => /\ SENT /\ r.packet_sent_count = 0 /\ r.packet_retrans_count = 0
                          /\ r.acked_sent = 0 /\ r.packet_received_count = 0
      /\ k < r.endSeq => s.data_sent_count = r.data_sent_count
  BY DEF Flagged
<1>2. PICK first \in BOOLEAN : FlagTally(s, r, first)
  BY DEF Flagged
<1>3. TallyMap(ranges) /\ TallyMap(ranges')
  BY KeysTallied DEF StepInv
<1>4. k \in DOMAIN ranges' /\ TallyTyped(s) /\ k <= s.endSeq
  BY <1>1, <1>3 DEF Puts, TallyMap
<1>5. /\ r.endSeq \in Nat /\ r.data_sent_count \in Nat /\ s.data_sent_count \in Nat
      /\ r.packet_sent_count \in Nat /\ r.packet_retrans_count \in Nat /\ r.acked_sent \in Nat
      /\ s.packet_sent_count \in Nat /\ s.packet_retrans_count \in Nat /\ s.acked_sent \in Nat
      /\ s.packet_received_count \in Nat /\ r.packet_received_count \in Nat
  BY <1>1, <1>4 DEF TallyTyped
<1>6. /\ BytesOf(ranges')[k] = (r.endSeq - k) * s.data_sent_count
      /\ LengthOf(ranges')[k] = r.endSeq - k
      /\ PacketsOf(ranges')[k] = s.packet_sent_count + s.packet_retrans_count + s.acked_sent
      /\ ReceivedOf(ranges')[k] = s.packet_received_count
  BY <1>1, <1>4 DEF BytesOf, LengthOf, PacketsOf, ReceivedOf
<1>7. k \in Keys =>
        /\ BytesOf(ranges)[k] = (r.endSeq - k) * r.data_sent_count
        /\ LengthOf(ranges)[k] = r.endSeq - k
        /\ PacketsOf(ranges)[k] = r.packet_sent_count + r.packet_retrans_count + r.acked_sent
        /\ ReceivedOf(ranges)[k] = r.packet_received_count
  BY <1>1 DEF BytesOf, LengthOf, PacketsOf, ReceivedOf, Keys
<1> HIDE DEF s
<1>8. BytesOf(ranges')[k] - (IF k \in Keys THEN BytesOf(ranges)[k] ELSE 0) = 0
  <2>1. CASE k < r.endSeq
    <3>1. k \in Keys /\ s.data_sent_count = r.data_sent_count
      BY <1>1, <2>1
    <3>2. (r.endSeq - k) * r.data_sent_count \in Int
      BY <1>1, <1>5
    <3> QED
      BY <1>6, <1>7, <3>1, <3>2
  <2>2. CASE ~(k < r.endSeq)
    <3>1. r.endSeq - k = 0
      BY <1>1, <1>4, <1>5, <2>2
    <3>2. 0 * s.data_sent_count = 0 /\ 0 * r.data_sent_count = 0
      BY <1>5
    <3> QED
      BY <1>6, <1>7, <3>1, <3>2
  <2> QED
    BY <2>1, <2>2
<1>9. LengthOf(ranges')[k] - (IF k \in Keys THEN LengthOf(ranges)[k] ELSE 0) = 0
  <2>1. r.endSeq - k \in Int /\ (k \notin Keys => r.endSeq - k = 0)
    BY <1>1, <1>5
  <2> QED
    BY <1>6, <1>7, <2>1
<1>10. ReceivedOf(ranges')[k] - (IF k \in Keys THEN ReceivedOf(ranges)[k] ELSE 0) = va
  <2>1. s.packet_received_count = Add(r.packet_received_count, ~SENT /\ Outermost)
    BY <1>2 DEF FlagTally
  <2>2. CASE SENT
    <3>1. s.packet_received_count = r.packet_received_count
      BY <2>1, <2>2 DEF Add
    <3> QED
      BY <1>1, <1>5, <1>6, <1>7, <2>2, <3>1
  <2>3. CASE ~SENT
    <3>1. s.packet_received_count = Add(r.packet_received_count, TRUE)
      BY <1>1, <2>1, <2>3 DEF Add
    <3>2. k \in Keys /\ s.packet_received_count = r.packet_received_count + 1
      BY <1>5, <2>3, <3>1, FlagRoom, AddExact
    <3> QED
      BY <1>5, <1>6, <1>7, <2>3, <3>2
  <2> QED
    BY <2>2, <2>3
<1>11. pa \in Int
  BY <1>5, <1>6, <1>7
<1>12. conn.bundleCount = 0 => pa = (IF SENT THEN 1 ELSE 0)
  <2> SUFFICES ASSUME conn.bundleCount = 0 PROVE pa = (IF SENT THEN 1 ELSE 0)
    OBVIOUS
  <2>1. SENT => Room(r)
    BY FlagRoom
  <2>2. seg.flag \in Flags
    BY DEF TypeOK, rmTypeOK, Segments
  <2>3. FlagExact(s, r)
    BY <1>1, <1>2, <2>1, <2>2, FlagCounts
  <2>4. /\ s.packet_sent_count + s.packet_retrans_count
             = r.packet_sent_count + r.packet_retrans_count
               + (IF SENT /\ seg.flag # "none" THEN 1 ELSE 0)
        /\ s.acked_sent = r.acked_sent + (IF SENT /\ seg.flag = "none" THEN 1 ELSE 0)
    BY <2>3 DEF FlagExact
  <2>5. s.packet_sent_count + s.packet_retrans_count + s.acked_sent
          = r.packet_sent_count + r.packet_retrans_count + r.acked_sent + (IF SENT THEN 1 ELSE 0)
    BY <1>5, <2>4
  <2> QED
    BY <1>1, <1>5, <1>6, <1>7, <2>5
<1>13. b' = b + 0 /\ l' = l + 0 /\ p' = p + pa /\ v' = v + va
  <2>1. PacketsOf(ranges')[k] - (IF k \in Keys THEN PacketsOf(ranges)[k] ELSE 0) = pa
        /\ 0 \in Int /\ va \in Int
    OBVIOUS
  <2>2. PutBy(k, 0, 0, pa, va)
    <3> HIDE DEF pa, va
    <3> QED
      BY <1>1, <1>3, <1>8, <1>9, <1>10, <1>11, <2>1 DEF PutBy
  <2> HIDE DEF pa, va
  <2> QED
    BY <2>2, PutTotals
<1>14. b \in Nat /\ l \in Nat
  BY <1>3, SumsTyped, TotalsAreSums
<1> HIDE DEF b, p, v, l, pa
<1>15. b' = b /\ l' = l /\ v' = v + va /\ (conn.bundleCount = 0 => p' = p + (IF SENT THEN 1 ELSE 0))
  BY <1>12, <1>13, <1>14
<1> QED
  BY <1>15 DEF b, p, v, l

\* The range that the segment is registered at keeps its counts right.
LEMMA FlaggedTallied ==
    ASSUME ShortTrace, TypeOK, StepInv, CallInv, TallyInv, TypeOK', Fixed,
           NEW k, NEW r, Flagged(k, r)
    PROVE  Tallied(k)'
<1> DEFINE s == ranges'[k]
<1>1. /\ op = "insert" /\ ZeroLength /\ Outermost /\ op' = "idle"
      /\ k \in Nat /\ TallyTyped(r) /\ s.endSeq = r.endSeq
      /\ IF k \in Keys THEN r = ranges[k] ELSE r.endSeq = k
      /\ k \notin Keys => /\ SENT /\ r.packet_sent_count = 0 /\ r.packet_retrans_count = 0
                          /\ r.syn = 0 /\ r.fin = 0 /\ r.rst = 0
                          /\ r.data_retrans_count = 0 /\ r.rdb_count = 0
      /\ k < r.endSeq => s.data_sent_count = r.data_sent_count /\ (SENT => seg.flag = "none")
      /\ SENT /\ seg.flag # "none" => k = frame.start
  BY DEF Flagged, Return
<1>2. PICK first \in BOOLEAN : FlagTally(s, r, first)
  BY DEF Flagged
<1>3. UNCHANGED <<conn, base, nxt, tcp>> /\ ~Inserting /\ ~Inserting'
  BY <1>1 DEF Fixed, envVars, Inserting
<1>4. /\ r.packet_sent_count \in Nat /\ r.packet_retrans_count \in Nat /\ r.endSeq \in Nat
      /\ r.syn \in Nat /\ r.fin \in Nat /\ r.rst \in Nat /\ r.data_sent_count \in Nat
  BY <1>1 DEF TallyTyped
<1>5. s.data_retrans_count = r.data_retrans_count /\ s.rdb_count = r.rdb_count
  BY <1>2 DEF FlagTally
<1>6. ASSUME ~(SENT /\ seg.flag # "none")
      PROVE  /\ s.packet_sent_count = r.packet_sent_count
             /\ s.packet_retrans_count = r.packet_retrans_count
             /\ s.syn = r.syn /\ s.rst = r.rst
  BY <1>2, <1>6 DEF FlagTally, Add
<1> HIDE DEF s
<1>7. CASE k < r.endSeq
  <2>1. k \in Keys /\ r = ranges[k] /\ HasBytes(k)
    BY <1>1, <1>7 DEF HasBytes
  <2>2. DataTallied(k)
    BY <2>1 DEF TallyInv, Tallied
  <2>3. r.data_sent_count + 0 <= conn.nrPacketsSent
    BY <1>3, <2>1, <2>2 DEF DataTallied
  <2>4. conn.bundleCount = 0 =>
          /\ r.syn = 0 /\ r.rst = 0 /\ r.rdb_count = 0
          /\ r.data_sent_count = r.data_retrans_count + 1
          /\ r.packet_sent_count + r.packet_retrans_count <= r.data_retrans_count + 1
    BY <2>1, <2>2 DEF DataTallied
  <2>5. /\ s.packet_sent_count = r.packet_sent_count
        /\ s.packet_retrans_count = r.packet_retrans_count
        /\ s.syn = r.syn /\ s.rst = r.rst /\ s.data_sent_count = r.data_sent_count
    BY <1>1, <1>6, <1>7
  <2>6. DataTallied(k)'
    <3>1. s.data_sent_count + 0 <= conn.nrPacketsSent
      BY <2>3, <2>5
    <3>2. conn.bundleCount = 0 =>
            /\ s.syn = 0 /\ s.rst = 0 /\ s.rdb_count = 0
            /\ s.data_sent_count = s.data_retrans_count + 1
            /\ s.packet_sent_count + s.packet_retrans_count <= s.data_retrans_count + 1
      BY <1>5, <2>4, <2>5
    <3> QED
      BY <1>3, <3>1, <3>2 DEF DataTallied, s
  <2>7. HasBytes(k)'
    BY <1>1, <1>7 DEF HasBytes, s
  <2> QED
    BY <2>6, <2>7 DEF Tallied
<1>8. CASE ~(k < r.endSeq)
  <2>1. ~HasBytes(k)'
    BY <1>1, <1>8 DEF HasBytes, s
  <2>2. k \in Keys => EmptyTallied(k) /\ r = ranges[k]
    BY <1>1, <1>8 DEF TallyInv, Tallied, HasBytes
  <2>3. ASSUME conn.bundleCount = 0
        PROVE  /\ s.packet_sent_count + s.packet_retrans_count = s.syn + s.fin + s.rst
               /\ s.data_retrans_count = 0 /\ s.rdb_count = 0
               /\ base <= k /\ (tcp = "open" \/ k < nxt) =>
                    s.packet_sent_count = 0 /\ s.packet_retrans_count = 0
    <3>1. /\ r.packet_sent_count + r.packet_retrans_count = r.syn + r.fin + r.rst
          /\ r.data_retrans_count = 0 /\ r.rdb_count = 0
          /\ base <= k /\ (tcp = "open" \/ k < nxt) =>
               r.packet_sent_count = 0 /\ r.packet_retrans_count = 0
      <4>1. CASE k \in Keys
        BY <2>2, <2>3, <4>1 DEF EmptyTallied
      <4>2. CASE k \notin Keys
        BY <1>1, <4>2
      <4> QED
        BY <4>1, <4>2
    <3>2. SENT => Room(r)
      BY <2>3, FlagRoom
    <3>3. seg.flag \in Flags
      BY DEF TypeOK, rmTypeOK, Segments
    <3>4. FlagExact(s, r)
      BY <1>1, <1>2, <3>2, <3>3, FlagCounts
    <3> DEFINE d == IF SENT /\ seg.flag # "none" THEN 1 ELSE 0
    <3>5. /\ s.packet_sent_count + s.packet_retrans_count
               = r.packet_sent_count + r.packet_retrans_count + d
          /\ s.syn + s.fin + s.rst = r.syn + r.fin + r.rst + d
      BY <3>4 DEF FlagExact
    <3> HIDE DEF d
    <3>6. s.packet_sent_count + s.packet_retrans_count = s.syn + s.fin + s.rst
      BY <3>1, <3>5
    <3>7. ASSUME base <= k, tcp = "open" \/ k < nxt
          PROVE  s.packet_sent_count = 0 /\ s.packet_retrans_count = 0
      <4>1. ~(SENT /\ seg.flag # "none")
        <5>1. ASSUME SENT, seg.flag # "none" PROVE FALSE
          <6>1. k = frame.start /\ base <= frame.start
            BY <1>1, <3>7, <5>1
          <6> QED
            BY <1>1, <3>7, <5>1, <6>1, FlagsUncounted
        <5> QED
          BY <5>1
      <4> QED
        BY <1>6, <3>1, <3>7, <4>1
    <3> QED
      BY <1>5, <3>1, <3>6, <3>7
  <2>4. EmptyTallied(k)'
    BY <1>3, <2>3 DEF EmptyTallied, s
  <2> QED
    BY <2>1, <2>4 DEF Tallied
<1> QED
  BY <1>7, <1>8

\* The segment keeps the invariant.
LEMMA FlagKeepsTallies ==
    ASSUME ShortTrace, TypeOK, StepInv, CallInv, TallyInv, TypeOK', RangesInStream', Fixed,
           NEW k, NEW r, Flagged(k, r)
    PROVE  TallyInv'
<1> DEFINE b == analysed_bytes_sent
           p == analysed_packet_sent_count_in_dump
           v == analysed_packet_received_count
           l == Total([j \in Keys |-> byte_count(j)])
<1>1. /\ op = "insert" /\ ZeroLength /\ Outermost /\ op' = "idle" /\ seg' = NoSeg
      /\ Puts(ranges, ranges', k)
      /\ seg.flag # "none" => frame.start \in Keys'
  BY DEF Flagged, Return
<1>2. UNCHANGED <<conn, base, nxt, tcp, recvNo, wire>> /\ ~Inserting /\ ~Inserting'
  BY <1>1 DEF Fixed, envVars, Inserting
<1>3. Keys' = Keys \cup {k} /\ \A j \in Keys : j # k => ranges'[j] = ranges[j]
  BY <1>1 DEF Puts, Keys
<1>4. TotalsPending'
  <2>1. /\ b' = b /\ l' = l
        /\ conn.bundleCount = 0 => p' = p + (IF SENT THEN 1 ELSE 0)
        /\ v' = v + (IF SENT THEN 0 ELSE 1)
    BY FlagTotals
  <2>2. b \in Nat /\ p \in Nat /\ v \in Nat /\ l \in Nat
    <3>1. TallyMap(ranges)
      BY KeysTallied DEF StepInv
    <3> QED
      BY <3>1, SumsTyped, TotalsAreSums
  <2>3. /\ b + 0 = conn.totBytesSent
        /\ conn.bundleCount = 0 =>
             /\ p + (IF SENT THEN 1 ELSE 0) = conn.nrPacketsSent
             /\ l + 0 = nxt - base
        /\ v + (IF ~SENT THEN 1 ELSE 0) = recvNo
    BY <1>1, <1>2 DEF TallyInv, TotalsPending
  <2>4. /\ b' = conn.totBytesSent /\ v' = recvNo
        /\ conn.bundleCount = 0 => p' = conn.nrPacketsSent /\ l' = nxt - base
    <3> HIDE DEF b, p, v, l
    <3> QED
      BY <2>1, <2>2, <2>3
  <2> QED
    BY <1>1, <2>4, ReturnPending
<1>5. ASSUME NEW j \in Keys' PROVE Tallied(j)'
  <2>1. CASE j # k
    <3>1. j \in Keys /\ Tallied(j) /\ ranges'[j] = ranges[j]
      BY <1>3, <2>1 DEF TallyInv
    <3> QED
      BY <1>2, <3>1, UntouchedTallied
  <2>2. CASE j = k
    BY <2>2, FlaggedTallied
  <2> QED
    BY <2>1, <2>2
<1>6. \A q \in wire : q.seq >= nxt => q.seq \in Keys'
  BY <1>1, <1>3 DEF TallyInv, EmptyKnown
<1> QED
  BY <1>1, <1>4, <1>5, <1>6, ReturnTallies

-----------------------------------------------------------------------------
(* A step that registers nothing. *)

\* The totals stay, and what is pending is nothing.
LEMMA QuietTallies ==
    ASSUME TallyInv, UNCHANGED <<conn, base, nxt, tcp, recvNo, seg>>, wire' \subseteq wire,
           op # "insert", op' # "insert", Keys \subseteq Keys', \A j \in Keys' : Tallied(j)',
           analysed_bytes_sent' = analysed_bytes_sent,
           Total([j \in Keys |-> byte_count(j)])' = Total([j \in Keys |-> byte_count(j)]),
           analysed_packet_sent_count_in_dump' = analysed_packet_sent_count_in_dump,
           analysed_packet_received_count' = analysed_packet_received_count
    PROVE  TallyInv'
<1> DEFINE b == analysed_bytes_sent
           p == analysed_packet_sent_count_in_dump
           v == analysed_packet_received_count
           l == Total([j \in Keys |-> byte_count(j)])
<1>1. ~Inserting /\ ~Inserting'
  BY DEF Inserting
<1>2. LargestSeen'
  BY <1>1 DEF TallyInv, LargestSeen
<1>3. SegmentClassified'
  BY <1>1 DEF TallyInv, SegmentClassified
<1>4. EmptyKnown'
  BY DEF TallyInv, EmptyKnown
<1>5. TotalsPending'
  <2>1. /\ b + 0 = conn.totBytesSent /\ v + 0 = recvNo
        /\ conn.bundleCount = 0 => p + 0 = conn.nrPacketsSent /\ l + 0 = nxt - base
    BY <1>1 DEF TallyInv, TotalsPending
  <2>2. b' = b /\ p' = p /\ v' = v /\ l' = l
    OBVIOUS
  <2> HIDE DEF b, p, v, l
  <2>3. /\ b' + 0 = conn'.totBytesSent /\ v' + 0 = recvNo'
        /\ conn'.bundleCount = 0 => p' + 0 = conn'.nrPacketsSent /\ l' + 0 = nxt' - base'
    BY <2>1, <2>2
  <2> QED
    BY <1>1, <2>3 DEF TotalsPending, b, p, v, l
<1> QED
  BY <1>2, <1>3, <1>4, <1>5 DEF TallyInv

\* A step that leaves the ranges alone is one.
LEMMA IdleTallies ==
    ASSUME TypeOK, TallyInv, UNCHANGED <<ranges, conn, base, nxt, tcp, recvNo, seg>>,
           wire' \subseteq wire, op # "insert", op' # "insert"
    PROVE  TallyInv'
<1>1. Keys' = Keys /\ ~Inserting'
  BY DEF Keys, Inserting
<1>2. \A j \in Keys' : Tallied(j)'
  BY <1>1, UntouchedTallied DEF TallyInv
<1>3. /\ analysed_bytes_sent' = analysed_bytes_sent
      /\ Total([j \in Keys |-> byte_count(j)])' = Total([j \in Keys |-> byte_count(j)])
      /\ analysed_packet_sent_count_in_dump' = analysed_packet_sent_count_in_dump
      /\ analysed_packet_received_count' = analysed_packet_received_count
  BY TotalsAreSums, TotalsAreSumsNext
<1> QED
  BY <1>1, <1>2, <1>3, QuietTallies

\* The totals after a turn of processAck's loop.
LEMMA AckTotals ==
    ASSUME TypeOK, StepInv, TypeOK', RangesInStream', processAck
    PROVE  /\ analysed_bytes_sent' = analysed_bytes_sent
           /\ Total([j \in Keys |-> byte_count(j)])' = Total([j \in Keys |-> byte_count(j)])
           /\ analysed_packet_sent_count_in_dump' = analysed_packet_sent_count_in_dump
           /\ analysed_packet_received_count' = analysed_packet_received_count
<1> DEFINE rs == ranges
           rt == ranges'
<1>1. TallyMap(rs) /\ TallyMap(rt)
  BY KeysTallied DEF StepInv
<1>2. /\ \A x \in DOMAIN rs : /\ BytesOf(rs)[x] \in Int /\ LengthOf(rs)[x] \in Int
                              /\ PacketsOf(rs)[x] \in Int /\ ReceivedOf(rs)[x] \in Int
      /\ \A x \in DOMAIN rt : /\ BytesOf(rt)[x] \in Int /\ LengthOf(rt)[x] \in Int
                              /\ PacketsOf(rt)[x] \in Int /\ ReceivedOf(rt)[x] \in Int
  BY <1>1, TallyValues
<1>3. CASE Keys' = Keys /\ \A k \in Keys : SameRange(ranges'[k], ranges[k])
  <2>1. IsFiniteSet(DOMAIN rs) /\ DOMAIN rt = DOMAIN rs
    BY <1>1, <1>3 DEF TallyMap, Keys
  <2>2. \A x \in DOMAIN rs :
          /\ BytesOf(rt)[x] = BytesOf(rs)[x] /\ LengthOf(rt)[x] = LengthOf(rs)[x]
          /\ PacketsOf(rt)[x] = PacketsOf(rs)[x] /\ ReceivedOf(rt)[x] = ReceivedOf(rs)[x]
    BY <1>3, <2>1 DEF Keys, SameRange, SameTally, BytesOf, LengthOf, PacketsOf, ReceivedOf
  <2> HIDE DEF rs, rt
  <2>3. /\ SumFunctionOnSet(BytesOf(rt), DOMAIN rs) = SumFunctionOnSet(BytesOf(rs), DOMAIN rs)
        /\ SumFunctionOnSet(LengthOf(rt), DOMAIN rs) = SumFunctionOnSet(LengthOf(rs), DOMAIN rs)
        /\ SumFunctionOnSet(PacketsOf(rt), DOMAIN rs) = SumFunctionOnSet(PacketsOf(rs), DOMAIN rs)
        /\ SumFunctionOnSet(ReceivedOf(rt), DOMAIN rs) = SumFunctionOnSet(ReceivedOf(rs), DOMAIN rs)
    BY <2>1, <2>2, SumSame
  <2> QED
    BY <2>1, <2>3, TotalsAreSums, TotalsAreSumsNext DEF rs, rt
<1>4. ASSUME NEW k \in Keys, NEW at \in Nat, CutsOnly(k, at)
      PROVE  /\ SumFunctionOnSet(BytesOf(rt), DOMAIN rt) = SumFunctionOnSet(BytesOf(rs), DOMAIN rs)
             /\ SumFunctionOnSet(LengthOf(rt), DOMAIN rt) = SumFunctionOnSet(LengthOf(rs), DOMAIN rs)
             /\ SumFunctionOnSet(PacketsOf(rt), DOMAIN rt) = SumFunctionOnSet(PacketsOf(rs), DOMAIN rs)
             /\ SumFunctionOnSet(ReceivedOf(rt), DOMAIN rt)
                  = SumFunctionOnSet(ReceivedOf(rs), DOMAIN rs)
  <2>1. /\ k \in DOMAIN rs /\ k \in Nat /\ k < at /\ at < rs[k].endSeq /\ rs[k].endSeq \in Nat
        /\ at \notin DOMAIN rs /\ DOMAIN rt = DOMAIN rs \cup {at}
        /\ \A j \in DOMAIN rs : j # k => rt[j] = rs[j]
        /\ rt[k].endSeq = at /\ SameTally(rt[k], rs[k])
        /\ rt[at].endSeq = rs[k].endSeq /\ SplitTally(rt[at], rs[k])
    BY <1>1, <1>4 DEF CutsOnly, Keys, TallyMap, TallyTyped
  <2>2. /\ rs[k].data_sent_count \in Nat
        /\ rt[k].data_sent_count = rs[k].data_sent_count + 0
        /\ rt[at].data_sent_count = rs[k].data_sent_count
    <3>1. TallyTyped(rs[k])
      BY <1>1, <2>1 DEF TallyMap
    <3> HIDE DEF rs, rt
    <3>2. rs[k].data_sent_count \in Nat
      BY <3>1 DEF TallyTyped
    <3> QED
      BY <2>1, <3>2 DEF SameTally, SplitTally
  <2> HIDE DEF rs, rt
  <2>3. Cut(rs, rt, k, k, at)
    <3>1. k <= k /\ at <= rs[k].endSeq /\ DOMAIN rs \cup {k} \cup {at} = DOMAIN rs \cup {at}
      BY <2>1
    <3> QED
      BY <2>1, <3>1 DEF Cut
  <2>4. SumFunctionOnSet(BytesOf(rt), DOMAIN rt)
          = SumFunctionOnSet(BytesOf(rs), DOMAIN rs) + 0 * (at - k)
    BY <1>1, <2>2, <2>3, CutBytes
  <2>5. SumFunctionOnSet(LengthOf(rt), DOMAIN rt) = SumFunctionOnSet(LengthOf(rs), DOMAIN rs)
    BY <1>1, <2>3, CutLength
  <2>6. SumFunctionOnSet(PacketsOf(rt), DOMAIN rt) = SumFunctionOnSet(PacketsOf(rs), DOMAIN rs) + 0
    <3> DEFINE f == PacketsOf(rs)
               g == PacketsOf(rt)
    <3>1. /\ \A x \in DOMAIN rs : f[x] \in Int
          /\ \A x \in DOMAIN rt : g[x] \in Int
      BY <1>2
    <3>2. \A x \in DOMAIN rs : x # k => g[x] = f[x]
      BY <2>1 DEF PacketsOf
    <3>3. g[k] = f[k] /\ g[at] = 0
      BY <2>1 DEF PacketsOf, SameTally, SplitTally
    <3> HIDE DEF f, g
    <3>4. g[k] = (IF k = k THEN f[k] ELSE 0) + 0 /\ 0 \in Int
      BY <2>1, <3>1, <3>3
    <3>5. SumFunctionOnSet(g, DOMAIN rt) = SumFunctionOnSet(f, DOMAIN rs) + 0
      BY <1>1, <2>3, <3>1, <3>2, <3>3, <3>4, CutCount
    <3> QED
      BY <3>5 DEF f, g
  <2>7. SumFunctionOnSet(ReceivedOf(rt), DOMAIN rt) = SumFunctionOnSet(ReceivedOf(rs), DOMAIN rs) + 0
    <3> DEFINE f == ReceivedOf(rs)
               g == ReceivedOf(rt)
    <3>1. /\ \A x \in DOMAIN rs : f[x] \in Int
          /\ \A x \in DOMAIN rt : g[x] \in Int
      BY <1>2
    <3>2. \A x \in DOMAIN rs : x # k => g[x] = f[x]
      BY <2>1 DEF ReceivedOf
    <3>3. g[k] = f[k] /\ g[at] = 0
      BY <2>1 DEF ReceivedOf, SameTally, SplitTally
    <3> HIDE DEF f, g
    <3>4. g[k] = (IF k = k THEN f[k] ELSE 0) + 0 /\ 0 \in Int
      BY <2>1, <3>1, <3>3
    <3>5. SumFunctionOnSet(g, DOMAIN rt) = SumFunctionOnSet(f, DOMAIN rs) + 0
      BY <1>1, <2>3, <3>1, <3>2, <3>3, <3>4, CutCount
    <3> QED
      BY <3>5 DEF f, g
  <2>8. /\ SumFunctionOnSet(BytesOf(rs), DOMAIN rs) \in Nat
        /\ SumFunctionOnSet(PacketsOf(rs), DOMAIN rs) \in Nat
        /\ SumFunctionOnSet(ReceivedOf(rs), DOMAIN rs) \in Nat
    BY <1>1, SumsTyped
  <2>9. 0 * (at - k) = 0
    BY <2>1
  <2> QED
    BY <2>4, <2>5, <2>6, <2>7, <2>8, <2>9
<1>5. CASE \E k \in Keys, at \in Nat : CutsOnly(k, at)
  BY <1>4, <1>5, TotalsAreSums, TotalsAreSumsNext
<1> QED
  BY <1>3, <1>5, AckTallies

\* The turn keeps the invariant.
LEMMA AckKeepsTallies ==
    ASSUME TypeOK, StepInv, TallyInv, TypeOK', RangesInStream', Fixed, processAck
    PROVE  TallyInv'
<1>1. UNCHANGED <<conn, base, nxt, tcp, recvNo, wire>>
  BY DEF Fixed, envVars
<1>2. op = "ack" /\ op' # "insert" /\ seg' = seg
  BY DEF processAck, AckLast, AckBeforeSent, AckMore, AckSplit, AckOld, IgnoreOld, AckReturn
<1>3. ~Inserting /\ ~Inserting'
  BY <1>2 DEF Inserting
<1>4. CASE Keys' = Keys /\ \A k \in Keys : SameRange(ranges'[k], ranges[k])
  <2>1. ASSUME NEW j \in Keys' PROVE Tallied(j)'
    <3> DEFINE r == ranges[j]
               s == ranges'[j]
    <3>1. /\ j \in Keys /\ Tallied(j)
          /\ s.endSeq = r.endSeq /\ s.fin = r.fin
          /\ s.packet_sent_count = r.packet_sent_count
          /\ s.packet_retrans_count = r.packet_retrans_count
          /\ s.data_sent_count = r.data_sent_count
          /\ s.data_retrans_count = r.data_retrans_count
          /\ s.rdb_count = r.rdb_count
          /\ s.syn = r.syn /\ s.rst = r.rst
      BY <1>4 DEF TallyInv, SameRange, SameTally
    <3>2. HasBytes(j)' <=> HasBytes(j)
      BY <3>1 DEF HasBytes
    <3>3. EmptyTallied(j) => EmptyTallied(j)'
      BY <1>1, <3>1 DEF EmptyTallied
    <3>4. DataTallied(j) => DataTallied(j)'
      BY <1>1, <1>3, <3>1 DEF DataTallied
    <3> QED
      BY <3>1, <3>2, <3>3, <3>4 DEF Tallied
  <2>2. Keys \subseteq Keys'
    BY <1>4
  <2> QED
    BY <1>1, <1>2, <2>1, <2>2, AckTotals, QuietTallies
<1>5. CASE \E k \in Keys, at \in Nat : CutsOnly(k, at)
  <2>1. PICK k \in Keys, at \in Nat : CutsOnly(k, at)
    BY <1>5
  <2> DEFINE r == ranges[k]
  <2>2. /\ k < at /\ at < r.endSeq /\ Keys' = Keys \cup {at}
        /\ \A j \in Keys : j # k => ranges'[j] = ranges[j]
        /\ ranges'[k].endSeq = at /\ SameTally(ranges'[k], r)
        /\ ranges'[at].endSeq = r.endSeq /\ SplitTally(ranges'[at], r)
        /\ k \in Nat /\ r.endSeq \in Nat
    BY <2>1 DEF CutsOnly, StepInv, Typed
  <2>3. /\ r.data_sent_count + 0 <= conn.nrPacketsSent
        /\ conn.bundleCount = 0 =>
             /\ r.syn = 0 /\ r.rst = 0 /\ r.rdb_count = 0
             /\ r.data_sent_count = r.data_retrans_count + 1
             /\ r.packet_sent_count + r.packet_retrans_count <= r.data_retrans_count + 1
    <3>1. HasBytes(k)
      BY <2>2 DEF HasBytes
    <3>2. DataTallied(k)
      BY <3>1 DEF TallyInv, Tallied
    <3> QED
      BY <1>3, <3>2 DEF DataTallied
  <2>4. r.data_retrans_count \in Nat
    <3>1. r \in ByteRanges
      BY DEF TypeOK, rmTypeOK, Keys
    <3>2. TallyTyped(r)
      BY <3>1, RangeTallyTyped
    <3> QED
      BY <3>2 DEF TallyTyped
  <2>5. ASSUME NEW j \in Keys' PROVE Tallied(j)'
    <3>1. CASE j \in {k, at}
      <4> DEFINE s == ranges'[j]
      <4>1. HasBytes(j)'
        BY <2>2, <3>1 DEF HasBytes
      <4>2. /\ s.data_sent_count = r.data_sent_count
            /\ s.data_retrans_count = r.data_retrans_count
            /\ conn.bundleCount = 0 =>
                 /\ s.syn = 0 /\ s.rst = 0 /\ s.rdb_count = 0
                 /\ s.packet_sent_count + s.packet_retrans_count <= r.data_retrans_count + 1
        <5>1. CASE j = k
          BY <2>2, <2>3, <5>1 DEF SameTally
        <5>2. CASE j = at
          <6>1. 0 + 0 <= r.data_retrans_count + 1
            BY <2>4
          <6> QED
            BY <2>2, <5>2, <6>1 DEF SplitTally
        <5> QED
          BY <3>1, <5>1, <5>2
      <4>3. DataTallied(j)'
        BY <1>1, <1>3, <2>3, <4>2 DEF DataTallied
      <4> QED
        BY <4>1, <4>3 DEF Tallied
    <3>2. CASE j \notin {k, at}
      <4>1. j \in Keys /\ Tallied(j) /\ ranges'[j] = ranges[j]
        BY <2>2, <3>2 DEF TallyInv
      <4> QED
        BY <1>1, <1>3, <4>1, UntouchedTallied
    <3> QED
      BY <3>1, <3>2
  <2>6. Keys \subseteq Keys'
    BY <2>2
  <2> QED
    BY <1>1, <1>2, <2>5, <2>6, AckTotals, QuietTallies
<1> QED
  BY <1>4, <1>5, AckTallies

-----------------------------------------------------------------------------
(* Every step. *)

\* A call of insertByteRange keeps the invariant.
LEMMA InsertKeepsTallies ==
    ASSUME ShortTrace, TypeOK, StepInv, EverySent, CallInv, TallyInv,
           TypeOK', Typed', RangesInStream', CallInv', Fixed, insertByteRange
    PROVE  TallyInv'
<1>1. CASE InsertZeroLength
  BY <1>1, InsertZeroLengthFlags, FlagKeepsTallies
<1>2. CASE UpdateZeroLength
  BY <1>2, UpdateZeroLengthFlags, FlagKeepsTallies
<1>3. CASE SplitHost
  BY <1>3, SplitHostTallies, TalliesKeeps
<1>4. CASE SpanRange \/ SplitTail \/ UpdateRange
  <2>1. op = "insert" /\ ~ZeroLength
    BY <1>4 DEF SpanRange, SplitTail, UpdateRange, StartFound
  <2>2. seg.flag # "syn" /\ op' \notin Failures
    BY <2>1 DEF TallyInv, SegmentClassified, CallInv
  <2> QED
    BY <1>4, <2>2, CoverTallies, TalliesKeeps
<1>5. CASE FillEmpty
  BY <1>5, FillEmptyOpens, OpensTally, OpensKeepsTallies
<1>6. CASE InsertNew
  <2>1. op = "insert" /\ ~ZeroLength /\ SENT
    BY <1>6, ReceivedIsFound DEF InsertNew
  <2>2. Opens
    BY <1>6, <2>1, InsertNewOpens, SearchSucceeds
  <2> QED
    BY <1>6, <2>2, OpensTally, OpensKeepsTallies
<1>7. CASE FailSynAck
  BY <1>7 DEF FailSynAck, Fail, CallInv, Failures
<1> QED
  BY <1>1, <1>2, <1>3, <1>4, <1>5, <1>6, <1>7 DEF insertByteRange

\* What registerSent counts for a segment with payload.
LEMMA DataCounted ==
    ASSUME CountersInv, ~conn.closed, op = "idle",
           NEW seq \in Nat, NEW endSeq \in Nat, seq < endSeq,
           NEW flag \in Flags, processSent(seq, endSeq, flag)
    PROVE  LET fresh == endSeq > conn.lastLargestEndSeq
               bundle == /\ fresh
                         /\ \/ /\ seq = conn.lastLargestStartSeq
                               /\ conn.lastLargestStartSeq + conn.lastLargestEndSeq # 0
                            \/ seq < conn.lastLargestEndSeq
           IN /\ conn'.nrPacketsSent = conn.nrPacketsSent + 1
              /\ conn'.totBytesSent = conn.totBytesSent + (endSeq - seq)
              /\ conn'.lastLargestStartSeq = seq
              /\ conn'.lastLargestEndSeq = IF fresh THEN endSeq ELSE conn.lastLargestEndSeq
              /\ conn'.bundleCount = IF bundle THEN conn.bundleCount + 1 ELSE conn.bundleCount
              /\ seg'.retrans = ~fresh /\ seg'.is_rdb = bundle
              /\ \A p \in wire' : p \in wire \/ (p.seq \in Nat /\ p.seq < endSeq)
<1> DEFINE s == [seq |-> seq, endSeq |-> endSeq, flag |-> flag,
                 retrans |-> FALSE, is_rdb |-> FALSE, rdb_end_seq |-> 0,
                 time |-> clock + 1, tstamp_tcp |-> tstamp_tcp(clock + 1)]
           L == conn.lastLargestEndSeq
           payload == payloadSize(s)
           packets == conn.nrPacketsSent + 1
           dataPackets == conn.nrDataPacketsSent + 1
           bytes == conn.totBytesSent + payload
           old == L - s.seq
           c == [conn EXCEPT !.nrPacketsSent = packets, !.nrDataPacketsSent = dataPackets,
                             !.lastLargestStartSeq = s.seq, !.totBytesSent = bytes]
<1>1. s \in Segments /\ s.seq = seq /\ s.endSeq = endSeq /\ conn \in ConnCounters
  BY NewSegment DEF CountersInv, TypeOK
<1>2. ~Ignored(s) /\ payload # 0 /\ payload = endSeq - seq
  BY <1>1 DEF Ignored, payloadSize
<1>3. /\ conn' = countData(s) /\ Call(classify(s), "INSERT_SENT")
      /\ wire' = wire \cup OnWire(classify(s))
  BY <1>2 DEF processSent, insertSentRange
<1>4. /\ NewData(s) = (endSeq > L)
      /\ IsBundle(s) = /\ endSeq > L
                       /\ \/ /\ seq = conn.lastLargestStartSeq
                             /\ conn.lastLargestStartSeq + conn.lastLargestEndSeq # 0
                          \/ seq < L
  BY DEF NewData, IsBundle
<1> HIDE DEF s, payload
<1>5. /\ c.nrPacketsSent = packets /\ c.lastLargestStartSeq = seq /\ c.totBytesSent = bytes
      /\ c.lastLargestEndSeq = L /\ c.bundleCount = conn.bundleCount
      /\ DOMAIN c = DOMAIN conn
  <2> HIDE DEF packets, dataPackets, bytes, L
  <2> QED
    BY <1>1 DEF ConnCounters, L
<1>6. countData(s) =
        IF IsBundle(s)
        THEN [c EXCEPT !.bundleCount = @ + 1,
                       !.totRDBBytesSent = @ + old,
                       !.totNewDataSent = @ + (payload - old),
                       !.lastLargestEndSeq = s.endSeq]
        ELSE IF NewData(s)
        THEN [c EXCEPT !.totNewDataSent = @ + payload, !.lastLargestEndSeq = s.endSeq]
        ELSE [c EXCEPT !.nrRetrans = @ + 1, !.totRetransBytesSent = @ + payload]
  BY DEF countData, payload
<1>7. /\ \A f \in {"bundleCount", "lastLargestEndSeq", "nrPacketsSent", "totBytesSent",
                   "lastLargestStartSeq"} : f \in DOMAIN c
  BY <1>1, <1>5 DEF ConnCounters
<1> HIDE DEF c
<1>8. /\ countData(s).nrPacketsSent = packets /\ countData(s).totBytesSent = bytes
      /\ countData(s).lastLargestStartSeq = seq
      /\ countData(s).lastLargestEndSeq = IF NewData(s) THEN endSeq ELSE L
      /\ countData(s).bundleCount = IF IsBundle(s) THEN conn.bundleCount + 1 ELSE conn.bundleCount
  <2>1. IsBundle(s) => NewData(s)
    BY DEF IsBundle
  <2>2. CASE IsBundle(s)
    BY <1>1, <1>5, <1>6, <1>7, <2>1, <2>2
  <2>3. CASE ~IsBundle(s) /\ NewData(s)
    BY <1>1, <1>5, <1>6, <1>7, <2>3
  <2>4. CASE ~IsBundle(s) /\ ~NewData(s)
    BY <1>1, <1>5, <1>6, <1>7, <2>4
  <2> QED
    BY <2>2, <2>3, <2>4
<1>9. /\ classify(s).retrans = ~NewData(s) /\ classify(s).is_rdb = IsBundle(s)
      /\ classify(s).seq = seq /\ classify(s).endSeq = endSeq
  <2> DEFINE b == IsBundle(s)
             n == ~NewData(s)
  <2>1. classify(s) = [s EXCEPT !.is_rdb = b, !.retrans = n, !.rdb_end_seq = IF b THEN L ELSE 0]
    BY <1>2 DEF classify, payload
  <2> HIDE DEF b, n
  <2>2. /\ classify(s).retrans = n /\ classify(s).is_rdb = b
        /\ classify(s).seq = seq /\ classify(s).endSeq = endSeq
    BY <1>1, <2>1 DEF Segments
  <2> QED
    BY <2>2 DEF b, n
<1>10. \A p \in OnWire(classify(s)) : p.seq \in Nat /\ p.seq < endSeq
  <2>1. payloadSize(classify(s)) # 0
    BY <1>9 DEF payloadSize
  <2>2. OnWire(classify(s)) \subseteq {[seq |-> x, ts |-> classify(s).tstamp_tcp] : x \in seq .. endSeq - 1}
    BY <1>9, <2>1 DEF OnWire
  <2>3. \A x \in seq .. endSeq - 1 : x \in Nat /\ x < endSeq
    OBVIOUS
  <2> QED
    BY <2>2, <2>3
<1>11. seg' = classify(s)
  BY <1>3 DEF Call
<1>12. packets = conn.nrPacketsSent + 1 /\ bytes = conn.totBytesSent + (endSeq - seq)
  BY <1>2
<1> HIDE DEF packets, bytes
<1> QED
  BY <1>3, <1>4, <1>8, <1>9, <1>10, <1>11, <1>12

\* What it counts for one without.
LEMMA EmptyCounted ==
    ASSUME CountersInv, ~conn.closed, op = "idle",
           NEW seq \in Nat, NEW flag \in Flags, processSent(seq, seq, flag)
    PROVE  /\ conn'.nrPacketsSent = conn.nrPacketsSent + 1
           /\ conn'.totBytesSent = conn.totBytesSent
           /\ conn'.lastLargestStartSeq = conn.lastLargestStartSeq
           /\ conn'.lastLargestEndSeq = conn.lastLargestEndSeq
           /\ conn'.bundleCount = conn.bundleCount
           /\ ~seg'.retrans /\ ~seg'.is_rdb
           /\ \A p \in wire' : p \in wire \/ (p.seq = seg'.seq /\ seg'.flag # "none")
<1> DEFINE s == [seq |-> seq, endSeq |-> seq, flag |-> flag,
                 retrans |-> FALSE, is_rdb |-> FALSE, rdb_end_seq |-> 0,
                 time |-> clock + 1, tstamp_tcp |-> tstamp_tcp(clock + 1)]
           packets == conn.nrPacketsSent + 1
           b == conn.closed \/ Reused(s)
<1>1. /\ s \in Segments /\ s.seq = seq /\ s.endSeq = seq /\ s.flag = flag
      /\ s.retrans = FALSE /\ s.is_rdb = FALSE /\ conn \in ConnCounters
  BY NewSegment DEF CountersInv, TypeOK
<1>2. ~Ignored(s) /\ payloadSize(s) = 0
  BY <1>1 DEF Ignored, payloadSize
<1>3. /\ conn' = [conn EXCEPT !.nrPacketsSent = packets, !.closed = b]
      /\ Call(classify(s), "INSERT_SENT")
      /\ wire' = wire \cup OnWire(classify(s))
  BY <1>2 DEF processSent, insertSentRange
<1>4. /\ conn'.nrPacketsSent = packets
      /\ conn'.totBytesSent = conn.totBytesSent
      /\ conn'.lastLargestStartSeq = conn.lastLargestStartSeq
      /\ conn'.lastLargestEndSeq = conn.lastLargestEndSeq
      /\ conn'.bundleCount = conn.bundleCount
  <2> HIDE DEF packets, b
  <2> QED
    BY <1>1, <1>3 DEF ConnCounters
<1> HIDE DEF s
<1>5. /\ classify(s).retrans = FALSE /\ classify(s).is_rdb = FALSE
      /\ classify(s).endSeq = classify(s).seq /\ classify(s).flag = flag /\ classify(s).seq \in Nat
  BY <1>1, <1>2 DEF classify, Segments
<1>6. \A p \in OnWire(classify(s)) : p.seq = classify(s).seq /\ classify(s).flag # "none"
  <2>1. payloadSize(classify(s)) = 0
    BY <1>5 DEF payloadSize
  <2> QED
    BY <2>1 DEF OnWire
<1>7. seg' = classify(s)
  BY <1>3 DEF Call
<1> QED
  BY <1>3, <1>4, <1>5, <1>6, <1>7

\* A segment that is about to be registered leaves the counts of the ranges right.
LEMMA SendsTallied ==
    ASSUME TypeOK, TypeOK', TallyInv, Sends, conn'.nrPacketsSent = conn.nrPacketsSent + 1,
           conn'.bundleCount = 0 => conn.bundleCount = 0
    PROVE  \A j \in Keys' : Tallied(j)'
<1>1. /\ UNCHANGED <<ranges, base>> /\ Keys' = Keys /\ op = "idle" /\ ~Inserting
      /\ nxt' # nxt => tcp = "open"
      /\ tcp' = "open" => tcp = "open"
  BY DEF Sends, Keys, Inserting
<1> SUFFICES ASSUME NEW j \in Keys PROVE Tallied(j)'
  BY <1>1
<1> DEFINE r == ranges[j]
<1>2. Tallied(j) /\ r' = r
  BY <1>1 DEF TallyInv
<1>3. HasBytes(j)' <=> HasBytes(j)
  BY <1>1 DEF HasBytes
<1>4. ASSUME EmptyTallied(j) PROVE EmptyTallied(j)'
  <2>1. tcp' = "open" \/ j < nxt' => tcp = "open" \/ j < nxt
    BY <1>1
  <2> QED
    BY <1>1, <1>4, <2>1 DEF EmptyTallied
<1>5. ASSUME DataTallied(j) PROVE DataTallied(j)'
  <2>1. conn.nrPacketsSent \in Nat /\ r.data_sent_count \in Nat
    <3>1. ranges[j] \in ByteRanges /\ conn \in ConnCounters
      BY DEF TypeOK, rmTypeOK, Keys
    <3>2. TallyTyped(ranges[j])
      BY <3>1, RangeTallyTyped
    <3> QED
      BY <3>1, <3>2 DEF TallyTyped, ConnCounters
  <2>2. r.data_sent_count + 0 <= conn.nrPacketsSent
    BY <1>1, <1>5 DEF DataTallied
  <2>3. \A d \in {0, 1} : r.data_sent_count + d <= conn'.nrPacketsSent
    <3> HIDE DEF r
    <3> QED
      BY <2>1, <2>2
  <2>4. r.data_sent_count + (IF Inserting' /\ r.endSeq > frame'.start THEN 1 ELSE 0)
          <= conn'.nrPacketsSent
    BY <2>3
  <2> QED
    BY <1>1, <1>5, <2>4 DEF DataTallied
<1> QED
  BY <1>2, <1>3, <1>4, <1>5 DEF Tallied

\* It is what the totals lack.
LEMMA SendsPending ==
    ASSUME TypeOK, TypeOK', StepInv, TallyInv, Sends,
           conn'.nrPacketsSent = conn.nrPacketsSent + 1,
           NEW d \in Nat, d = seg'.endSeq - seg'.seq,
           conn'.totBytesSent = conn.totBytesSent + d,
           conn'.bundleCount = 0 =>
             conn.bundleCount = 0 /\ nxt' = nxt + (IF seg'.retrans THEN 0 ELSE d)
    PROVE  TotalsPending'
<1> DEFINE b == analysed_bytes_sent
           p == analysed_packet_sent_count_in_dump
           v == analysed_packet_received_count
           l == Total([j \in Keys |-> byte_count(j)])
<1>1. /\ UNCHANGED <<ranges, base, recvNo>> /\ op = "idle" /\ op' = "insert" /\ ~Inserting
      /\ SENT' /\ Outermost' /\ frame'.start = seg'.seq /\ frame'.end = seg'.endSeq
  BY DEF Sends, Inserting, SENT, Outermost
<1>2. b' = b /\ p' = p /\ v' = v /\ l' = l
  BY <1>1, TotalsAreSums, TotalsAreSumsNext
<1>3. b \in Nat /\ p \in Nat /\ v \in Nat /\ l \in Nat
  <2>1. TallyMap(ranges)
    BY KeysTallied DEF StepInv
  <2> QED
    BY <2>1, SumsTyped, TotalsAreSums
<1>4. /\ b + 0 = conn.totBytesSent /\ v + 0 = recvNo
      /\ conn.bundleCount = 0 => p + 0 = conn.nrPacketsSent /\ l + 0 = nxt - base
  BY <1>1 DEF TallyInv, TotalsPending
<1>5. nxt \in Nat /\ base \in Nat /\ seg'.seq \in Nat /\ seg'.endSeq \in Nat
  BY DEF TypeOK, rmTypeOK, Segments
<1>6. ~Inserting' => d = 0
  BY <1>1, <1>5 DEF Inserting, ZeroLength
<1> HIDE DEF b, p, v, l
<1>7. b' + d = conn'.totBytesSent /\ v' + 0 = recvNo' /\ (Inserting' \/ d = 0)
  BY <1>1, <1>2, <1>3, <1>4, <1>6
<1>8. ASSUME conn'.bundleCount = 0
      PROVE  /\ p' + 1 = conn'.nrPacketsSent
             /\ l' + (IF seg'.retrans THEN 0 ELSE d) = nxt' - base'
  <2>1. p' + 1 = conn'.nrPacketsSent
    BY <1>2, <1>3, <1>4, <1>8
  <2> DEFINE e == IF seg'.retrans THEN 0 ELSE d
  <2>2. e \in Nat /\ nxt' = nxt + e /\ base' = base
    BY <1>1, <1>8
  <2> HIDE DEF e
  <2>3. l' + e = nxt' - base'
    <3>1. l = nxt - base /\ l' = l
      BY <1>2, <1>3, <1>4, <1>8
    <3>2. (nxt - base) + e = (nxt + e) - base
      BY <1>5, <2>2
    <3> QED
      BY <2>2, <3>1, <3>2
  <2> QED
    BY <2>1, <2>3 DEF e
<1>9. TotalsPending' <=>
         /\ b' + (IF Inserting' THEN frame'.end - frame'.start ELSE 0) = conn'.totBytesSent
         /\ conn'.bundleCount = 0 =>
              /\ p' + (IF op' = "insert" /\ SENT' /\ Outermost' THEN 1 ELSE 0) = conn'.nrPacketsSent
              /\ l' + (IF Inserting' /\ ~seg'.retrans THEN frame'.end - frame'.start ELSE 0)
                   = nxt' - base'
         /\ v' + (IF op' = "insert" /\ ~SENT' /\ Outermost' THEN 1 ELSE 0) = recvNo'
  BY DEF TotalsPending, b, p, v, l
<1>10. (IF Inserting' THEN frame'.end - frame'.start ELSE 0) = d
  BY <1>1, <1>7
<1>11. (IF Inserting' /\ ~seg'.retrans THEN frame'.end - frame'.start ELSE 0)
         = IF seg'.retrans THEN 0 ELSE d
  BY <1>1, <1>7
<1> QED
  BY <1>1, <1>7, <1>8, <1>9, <1>10, <1>11

\* A segment with payload: it begins within the stream, or at its end.
LEMMA DataKeepsTallies ==
    ASSUME CountersInv, PartitionInv, TypeOK', TallyInv, Sends, conn.nrPacketsSent < MaxPackets,
           NEW seq \in Nat, NEW endSeq \in Nat, seq < endSeq,
           NEW flag \in {"none", "fin"}, processSent(seq, endSeq, flag),
           base <= seq, seq <= nxt, nxt' = IF endSeq > nxt THEN endSeq ELSE nxt
    PROVE  TallyInv'
<1> DEFINE L == conn.lastLargestEndSeq
           S == conn.lastLargestStartSeq
<1>1. /\ TypeOK /\ StepInv /\ ~conn.closed
  BY TypedFrom DEF CountersInv, PartitionInv, StepInv
<1>2. /\ nxt \in Nat /\ base \in {0, 1} /\ L \in Nat /\ S \in Nat /\ MaxPackets \in Nat
      /\ conn.nrPacketsSent \in Nat /\ conn.bundleCount \in Nat /\ conn.totBytesSent \in Nat
      /\ recvNo \in Nat
  BY <1>1, CounterFields, BoundsAssumption DEF TypeOK
<1>3. /\ UNCHANGED <<ranges, base, recvNo>> /\ Keys' = Keys /\ op = "idle" /\ ~Inserting
      /\ op' = "insert" /\ SENT' /\ Outermost'
      /\ frame'.start = seg'.seq /\ frame'.end = seg'.endSeq
      /\ nxt' # nxt => tcp = "open"
  BY DEF Sends, Keys, Inserting, SENT, Outermost
<1>4. seg'.seq = seq /\ seg'.endSeq = endSeq /\ seg'.flag = flag
  <2>1. flag \in Flags
    BY DEF Flags
  <2> QED
    BY <1>1, <1>3, <2>1, DataCall, SentCall
<1>5. /\ conn'.nrPacketsSent = conn.nrPacketsSent + 1
      /\ conn'.totBytesSent = conn.totBytesSent + (endSeq - seq)
      /\ conn'.lastLargestStartSeq = seq
      /\ conn'.lastLargestEndSeq = IF endSeq > L THEN endSeq ELSE L
      /\ conn'.bundleCount = IF endSeq > L /\ ((seq = S /\ S + L # 0) \/ seq < L)
                             THEN conn.bundleCount + 1 ELSE conn.bundleCount
      /\ seg'.retrans = ~(endSeq > L)
      /\ seg'.is_rdb = (endSeq > L /\ ((seq = S /\ S + L # 0) \/ seq < L))
      /\ \A p \in wire' : p \in wire \/ (p.seq \in Nat /\ p.seq < endSeq)
  BY <1>1, <1>3, DataCounted DEF Flags
<1>6. IF nxt = base THEN L = 0 /\ S = 0 ELSE L = nxt /\ S < nxt
  BY DEF TallyInv, LargestSeen
<1> HIDE DEF L, S
<1>7. /\ endSeq > L <=> endSeq > nxt
      /\ endSeq > L /\ ((seq = S /\ S + L # 0) \/ seq < L) <=> endSeq > nxt /\ seq < nxt
  BY <1>2, <1>6
<1>8. /\ seg'.retrans <=> ~(endSeq > nxt)
      /\ seg'.is_rdb <=> endSeq > nxt /\ seq < nxt
      /\ conn'.bundleCount = IF endSeq > nxt /\ seq < nxt
                             THEN conn.bundleCount + 1 ELSE conn.bundleCount
      /\ conn'.lastLargestEndSeq = IF endSeq > nxt THEN endSeq ELSE L
  BY <1>5, <1>7
<1>9. /\ ~ZeroLength' /\ Inserting' /\ frame'.start = seq /\ frame'.end = endSeq
  BY <1>3, <1>4 DEF ZeroLength, Inserting
<1>10. LargestSeen'
  <2>1. conn.nrPacketsSent + 1 <= MaxPackets /\ conn.nrPacketsSent + 1 > 0
    BY <1>2
  <2>2. recvNo <= MaxRecv
    BY DEF TallyInv, LargestSeen
  <2>3. nxt' # base' /\ conn'.lastLargestEndSeq = nxt' /\ conn'.lastLargestStartSeq < nxt'
    <3>1. CASE endSeq > nxt
      BY <1>2, <1>3, <1>5, <1>8, <3>1
    <3>2. CASE ~(endSeq > nxt)
      <4>1. nxt # base /\ L = nxt /\ seq < nxt
        BY <1>2, <1>6, <3>2
      <4> QED
        BY <1>3, <1>5, <1>8, <3>2, <4>1
    <3> QED
      BY <3>1, <3>2
  <2> QED
    BY <1>3, <1>5, <2>1, <2>2, <2>3 DEF LargestSeen
<1>11. SegmentClassified'
  <2>1. seg'.is_rdb => conn'.bundleCount > 0
    BY <1>2, <1>8
  <2>2. seg'.flag \in {"none", "fin"}
    BY <1>4
  <2>3. ASSUME ~seg'.is_rdb, seg'.retrans
        PROVE  \A x \in seq .. endSeq - 1 : \E k \in Keys : k <= x /\ x < ranges[k].endSeq
    <3>1. \A x \in seq .. endSeq - 1 : x \in base .. nxt - 1
      BY <1>2, <1>8, <2>3
    <3>2. op \notin Failures
      BY <1>3 DEF Failures
    <3>3. \A x \in base .. nxt - 1 : \E k \in Keys : Covers(k, x)
      BY <1>1, <1>3, <3>2 DEF StepInv, Frontier
    <3> QED
      BY <3>1, <3>3 DEF Covers
  <2>4. ASSUME ~seg'.is_rdb, ~seg'.retrans, NEW k \in Keys
        PROVE  ranges[k].endSeq <= seq
    <3>1. seq = nxt /\ nxt' # nxt
      BY <1>2, <1>8, <2>4
    <3>2. /\ k \in Nat /\ ranges[k].endSeq \in Nat /\ k <= ranges[k].endSeq
          /\ k < ranges[k].endSeq => ranges[k].endSeq <= nxt
          /\ k <= nxt
      BY <1>1, <1>3, <3>1 DEF StepInv, Typed, RangesInStream
    <3> QED
      BY <1>2, <3>1, <3>2
  <2> QED
    BY <1>3, <1>9, <2>1, <2>2, <2>3, <2>4 DEF SegmentClassified, Covers
<1>12. EmptyKnown'
  <2>1. ASSUME NEW p \in wire', p.seq >= nxt' PROVE p.seq \in Keys
    <3>1. CASE p \in wire
      <4>1. p.seq \in Nat
        BY <1>1, <3>1 DEF TypeOK, StampedBytes
      <4>2. p.seq >= nxt
        BY <1>2, <2>1, <4>1
      <4> QED
        BY <1>3, <3>1, <4>2 DEF TallyInv, EmptyKnown
    <3>2. CASE p.seq \in Nat /\ p.seq < endSeq
      BY <1>2, <2>1, <3>2
    <3> QED
      BY <1>5, <3>1, <3>2
  <2> QED
    BY <1>3, <2>1 DEF EmptyKnown
<1>13. conn'.bundleCount = 0 => conn.bundleCount = 0
  BY <1>2, <1>8
<1>14. \A j \in Keys' : Tallied(j)'
  BY <1>1, <1>5, <1>13, SendsTallied
<1>15. TotalsPending'
  <2> DEFINE d == endSeq - seq
  <2>1. d \in Nat /\ d = seg'.endSeq - seg'.seq /\ conn'.totBytesSent = conn.totBytesSent + d
    BY <1>4, <1>5
  <2>2. conn'.bundleCount = 0 => nxt' = nxt + (IF seg'.retrans THEN 0 ELSE d)
    <3> SUFFICES ASSUME conn'.bundleCount = 0 PROVE nxt' = nxt + (IF seg'.retrans THEN 0 ELSE d)
      OBVIOUS
    <3>1. ~(endSeq > nxt /\ seq < nxt)
      BY <1>2, <1>8
    <3>2. CASE endSeq > nxt
      BY <1>2, <1>8, <3>1, <3>2
    <3>3. CASE ~(endSeq > nxt)
      BY <1>2, <1>8, <3>3
    <3> QED
      BY <3>2, <3>3
  <2> HIDE DEF d
  <2> QED
    BY <1>1, <1>5, <1>13, <2>1, <2>2, SendsPending
<1> QED
  BY <1>10, <1>11, <1>12, <1>14, <1>15 DEF TallyInv

\* A segment without payload.
LEMMA EmptyKeepsTallies ==
    ASSUME CountersInv, PartitionInv, TypeOK', TallyInv, Sends, conn.nrPacketsSent < MaxPackets,
           NEW seq \in Nat, NEW flag \in Flags, processSent(seq, seq, flag),
           flag = "syn" => seq <= SynSlack, nxt' = nxt
    PROVE  TallyInv'
<1>1. /\ TypeOK /\ StepInv /\ ~conn.closed
  BY TypedFrom DEF CountersInv, PartitionInv, StepInv
<1>2. /\ nxt \in Nat /\ MaxPackets \in Nat
      /\ conn.nrPacketsSent \in Nat /\ conn.bundleCount \in Nat /\ conn.totBytesSent \in Nat
  BY <1>1, CounterFields, BoundsAssumption DEF TypeOK
<1>3. /\ UNCHANGED <<ranges, base, recvNo>> /\ Keys' = Keys /\ op = "idle"
      /\ op' = "insert" /\ SENT' /\ Outermost'
      /\ frame'.start = seg'.seq /\ frame'.end = seg'.endSeq
  BY DEF Sends, Keys, SENT, Outermost
<1>4. seg'.endSeq = seg'.seq
  BY <1>1, <1>3, EmptyCall
<1>5. /\ conn'.nrPacketsSent = conn.nrPacketsSent + 1
      /\ conn'.totBytesSent = conn.totBytesSent
      /\ conn'.lastLargestStartSeq = conn.lastLargestStartSeq
      /\ conn'.lastLargestEndSeq = conn.lastLargestEndSeq
      /\ conn'.bundleCount = conn.bundleCount
      /\ ~seg'.retrans /\ ~seg'.is_rdb
      /\ \A p \in wire' : p \in wire \/ (p.seq = seg'.seq /\ seg'.flag # "none")
  BY <1>1, <1>3, EmptyCounted
<1>6. ZeroLength' /\ ~Inserting'
  BY <1>3, <1>4 DEF ZeroLength, Inserting
<1>7. LargestSeen'
  <2>1. conn.nrPacketsSent + 1 <= MaxPackets
    BY <1>2
  <2>2. recvNo <= MaxRecv
    BY DEF TallyInv, LargestSeen
  <2> QED
    BY <1>3, <1>5, <1>6, <2>1, <2>2 DEF TallyInv, LargestSeen
<1>8. SegmentClassified'
  BY <1>3, <1>5, <1>6 DEF SegmentClassified
<1>9. EmptyKnown'
  <2>1. ASSUME NEW p \in wire', p.seq >= nxt'
        PROVE  p.seq \in Keys \/ (seg'.flag # "none" /\ frame'.start = p.seq)
    BY <1>3, <1>5, <2>1 DEF TallyInv, EmptyKnown
  <2> QED
    BY <1>3, <1>6, <2>1 DEF EmptyKnown
<1>10. \A j \in Keys' : Tallied(j)'
  BY <1>1, <1>5, SendsTallied
<1>11. TotalsPending'
  <2>1. seg'.seq \in Nat
    BY DEF TypeOK, rmTypeOK, Segments
  <2>2. /\ 0 \in Nat /\ 0 = seg'.endSeq - seg'.seq /\ conn'.totBytesSent = conn.totBytesSent + 0
        /\ nxt' = nxt + (IF seg'.retrans THEN 0 ELSE 0)
    BY <1>2, <1>4, <1>5, <2>1
  <2> QED
    BY <1>1, <1>5, <2>2, SendsPending
<1> QED
  BY <1>7, <1>8, <1>9, <1>10, <1>11 DEF TallyInv

\* Every step of the sender.
LEMMA SendStepKeepsTallies ==
    ASSUME CompleteCapture, CountersInv, PartitionInv, TypeOK', TallyInv, SendStep
    PROVE  TallyInv'
<1>1. /\ nxt \in Nat /\ nxt + 1 \in Nat /\ base \in {0, 1} /\ base <= nxt /\ reuse = {}
      /\ SndNxt \in Nat /\ SynOffsets \subseteq Nat
      /\ MaxPayload \in Nat /\ MaxSeq \in Nat /\ SynSlack \in Nat
  BY BoundsAssumption DEF CountersInv, PartitionInv, TypeOK, SndNxt
<1>2. {"none", "fin", "syn", "rst"} \subseteq Flags
  BY DEF Flags
<1>3. Established => conn.nrPacketsSent < MaxPackets
  BY DEF Established, CanSend
<1>4. Sends
  BY SendStepSends
<1>5. CASE SendSyn
  <2>1. processSent(0, 0, "syn") /\ nxt' = nxt /\ conn.nrPacketsSent < MaxPackets
    BY <1>5 DEF SendSyn, CanSend
  <2>2. 0 \in Nat /\ 0 <= SynSlack /\ "syn" \in Flags
    BY <1>1, <1>2
  <2> QED
    BY <1>4, <2>1, <2>2, EmptyKeepsTallies
<1>6. CASE SendPureAck
  <2>1. processSent(SndNxt, SndNxt, "none") /\ nxt' = nxt /\ Established
    BY <1>6 DEF SendPureAck
  <2> QED
    BY <1>1, <1>2, <1>3, <1>4, <2>1, EmptyKeepsTallies
<1>7. CASE SendFin
  <2>1. processSent(nxt, nxt, "fin") /\ nxt' = nxt /\ Established
    BY <1>7 DEF SendFin
  <2> QED
    BY <1>1, <1>2, <1>3, <1>4, <2>1, EmptyKeepsTallies
<1>8. CASE SendRst
  <2>1. processSent(SndNxt, SndNxt, "rst") /\ nxt' = nxt /\ Established
    BY <1>8 DEF SendRst
  <2> QED
    BY <1>1, <1>2, <1>3, <1>4, <2>1, EmptyKeepsTallies
<1>9. CASE SendKeepAlive
  BY <1>9 DEF SendKeepAlive, CompleteCapture
<1>10. ASSUME NEW d \in SynOffsets, SendOtherSyn(d) PROVE TallyInv'
  <2>1. d \in Nat /\ d <= SynSlack
    BY <1>1 DEF CompleteCapture
  <2>2. processSent(d, d, "syn") /\ nxt' = nxt /\ conn.nrPacketsSent < MaxPackets
    BY <1>10 DEF SendOtherSyn, CanSend
  <2> QED
    BY <1>2, <1>4, <2>1, <2>2, EmptyKeepsTallies
<1>11. ASSUME NEW n \in 1 .. MaxPayload,
              \/ SendReused(n)
              \/ \E flag \in {"none", "fin"} :
                   \/ SendNew(n, flag)
                   \/ \E s \in 0 .. MaxSeq : Retransmit(s, n, flag)
              \/ \E s \in 0 .. MaxSeq : SendBundle(s, n)
       PROVE  TallyInv'
  <2>1. n \in Nat /\ n >= 1
    BY <1>1
  <2>2. \A s \in Nat : s + n \in Nat /\ s < s + n
    BY <2>1
  <2>3. CASE SendReused(n)
    BY <1>1, <2>3 DEF SendReused
  <2>4. ASSUME NEW flag \in {"none", "fin"}, SendNew(n, flag) PROVE TallyInv'
    <3>1. processSent(nxt, nxt + n, flag) /\ Established /\ nxt' = nxt + n
      BY <2>4 DEF SendNew
    <3>2. nxt <= nxt /\ nxt' = IF nxt + n > nxt THEN nxt + n ELSE nxt
      BY <1>1, <2>1, <3>1
    <3> QED
      BY <1>1, <1>3, <1>4, <2>2, <3>1, <3>2, DataKeepsTallies
  <2>5. ASSUME NEW flag \in {"none", "fin"}, NEW s \in 0 .. MaxSeq, Retransmit(s, n, flag)
        PROVE  TallyInv'
    <3>1. processSent(s, s + n, flag) /\ Established /\ nxt' = nxt /\ base <= s /\ s + n <= nxt
      BY <2>5 DEF Retransmit
    <3>2. s \in Nat /\ s <= nxt /\ nxt' = IF s + n > nxt THEN s + n ELSE nxt
      BY <1>1, <2>1, <3>1
    <3> QED
      BY <1>3, <1>4, <2>2, <3>1, <3>2, DataKeepsTallies
  <2>6. ASSUME NEW s \in 0 .. MaxSeq, SendBundle(s, n) PROVE TallyInv'
    <3>1. /\ processSent(s, s + n, "none") /\ Established /\ base <= s /\ s < nxt
          /\ s + n > nxt /\ nxt' = s + n
      BY <2>6 DEF SendBundle
    <3>2. s \in Nat /\ s <= nxt /\ nxt' = IF s + n > nxt THEN s + n ELSE nxt
      BY <1>1, <3>1
    <3>3. "none" \in {"none", "fin"}
      OBVIOUS
    <3> QED
      BY <1>3, <1>4, <2>2, <3>1, <3>2, <3>3, DataKeepsTallies
  <2> QED
    BY <1>11, <2>3, <2>4, <2>5, <2>6
<1> QED
  BY <1>5, <1>6, <1>7, <1>8, <1>9, <1>10, <1>11 DEF SendStep

\* A segment of the receiver's trace that is about to be registered.
LEMMA RecvKeepsTallies ==
    ASSUME CompleteCapture, TypeOK, StepInv, PassesInOrder, TallyInv, NEW s \in Nat, NEW n \in 0 .. MaxPayload,
           NEW flag \in {"none", "syn", "fin"}, NEW ts, processRecvd(s, s + n, flag, ts)
    PROVE  TallyInv'
<1> DEFINE e == s + n
           last == IF s = e THEN e + 1 ELSE e
           g == [seq |-> s, endSeq |-> e, flag |-> flag, retrans |-> FALSE,
                 is_rdb |-> FALSE, rdb_end_seq |-> 0,
                 time |-> clock + 1, tstamp_tcp |-> ts]
<1>1. g.seq = s /\ g.endSeq = e /\ g.flag = flag /\ ~g.retrans /\ ~g.is_rdb
  OBVIOUS
<1>2. /\ insertReceivedRange(g)
      /\ phase = "recv" /\ recvNo < MaxRecv /\ recvNo' = recvNo + 1
      /\ wire' \subseteq wire
      /\ UNCHANGED <<ranges, conn, base, nxt, tcp>>
  BY DEF processRecvd
<1>3. \/ s < e /\ flag = "none"
      \/ s = e /\ flag = "none" /\ SentEmpty(s, flag)
      \/ s = e /\ s \in {nxt, SndNxt} /\ flag = "fin" /\ Delivers(s, s + 1, ts)
      \/ s = e /\ s = 0 /\ base = 1 /\ flag = "syn"
  BY DEF processRecvd, CompleteCapture
<1> HIDE DEF g
<1>4. /\ op = "idle" /\ op' = "insert" /\ seg'.flag = flag /\ ~seg'.retrans /\ ~seg'.is_rdb
      /\ frame'.start = s /\ frame'.end = e /\ frame'.level = 0 /\ frame'.itype = "INSERT_RECV"
  BY <1>1, <1>2 DEF insertReceivedRange, Call
<1>5. /\ nxt \in Nat /\ n \in Nat /\ e \in Nat /\ recvNo \in Nat /\ MaxRecv \in Nat
      /\ (SndNxt = nxt \/ SndNxt = nxt + 1)
  BY BoundsAssumption DEF TypeOK, SndNxt
<1>6. Keys' = Keys /\ ~SENT' /\ ~Inserting /\ ~Inserting' /\ Outermost' /\ (ZeroLength' <=> s = e)
  BY <1>2, <1>4 DEF Keys, SENT, ZeroLength, Inserting, Outermost
<1>7. LargestSeen'
  <2>1. recvNo + 1 <= MaxRecv
    BY <1>2, <1>5
  <2> QED
    BY <1>2, <1>6, <2>1 DEF TallyInv, LargestSeen
<1>8. SegmentClassified'
  BY <1>3, <1>4, <1>6 DEF SegmentClassified
<1>9. s = e => s \in Keys \/ (flag = "none" /\ s - 1 \in Keys)
  <2>1. CASE s = e /\ flag = "none"
    BY <1>3, <2>1 DEF SentEmpty
  <2>2. CASE s = e /\ flag = "fin"
    <3>1. Delivers(s, s + 1, ts) /\ s >= nxt
      BY <1>3, <1>5, <2>2
    <3>2. s \in s .. (s + 1) - 1
      OBVIOUS
    <3>3. [seq |-> s, ts |-> ts] \in wire
      BY <3>1, <3>2 DEF Delivers, Piece
    <3>4. \A p \in wire : p.seq >= nxt => p.seq \in Keys
      BY <1>4 DEF TallyInv, EmptyKnown
    <3> QED
      BY <3>1, <3>3, <3>4
  <2>3. CASE s = e /\ flag = "syn"
    BY <1>2, <1>3, <2>3 DEF PassesInOrder
  <2> QED
    BY <2>1, <2>2, <2>3
<1>10. EmptyKnown'
  <2>1. \A p \in wire' : p.seq >= nxt' => p.seq \in Keys'
    BY <1>2, <1>4, <1>6 DEF TallyInv, EmptyKnown
  <2>2. ZeroLength' => start_seq' \in Keys'
    BY <1>4, <1>6, <1>9 DEF start_seq
  <2> QED
    BY <2>1, <2>2 DEF EmptyKnown
<1>11. \A j \in Keys' : Tallied(j)'
  BY <1>2, <1>6, UntouchedTallied DEF TallyInv
<1>12. TotalsPending'
  <2> DEFINE b == analysed_bytes_sent
             p == analysed_packet_sent_count_in_dump
             v == analysed_packet_received_count
             l == Total([j \in Keys |-> byte_count(j)])
  <2>1. b' = b /\ p' = p /\ v' = v /\ l' = l
    BY <1>2, TotalsAreSums, TotalsAreSumsNext
  <2>2. v \in Nat
    <3>1. TallyMap(ranges)
      BY KeysTallied DEF StepInv
    <3> QED
      BY <3>1, SumsTyped, TotalsAreSums
  <2>3. /\ b + 0 = conn.totBytesSent /\ v + 0 = recvNo
        /\ conn.bundleCount = 0 => p + 0 = conn.nrPacketsSent /\ l + 0 = nxt - base
    BY <1>4, <1>6 DEF TallyInv, TotalsPending
  <2> HIDE DEF b, p, v, l
  <2>4. /\ b' + 0 = conn'.totBytesSent /\ v' + 1 = recvNo'
        /\ conn'.bundleCount = 0 => p' + 0 = conn'.nrPacketsSent /\ l' + 0 = nxt' - base'
    BY <1>2, <2>1, <2>2, <2>3
  <2> QED
    BY <1>4, <1>6, <2>4 DEF TotalsPending, b, p, v, l
<1> QED
  BY <1>7, <1>8, <1>10, <1>11, <1>12 DEF TallyInv

-----------------------------------------------------------------------------
(* The invariant. *)

\* It holds before the first packet.
LEMMA InitTallies ==
    ASSUME Init
    PROVE  TallyInv
<1>1. /\ Keys = {} /\ DOMAIN ranges = {} /\ op = "idle" /\ wire = {} /\ nxt = base /\ recvNo = 0
      /\ base \in {0, 1} /\ MaxPackets \in Nat /\ MaxRecv \in Nat /\ ~Inserting
      /\ conn.nrPacketsSent = 0 /\ conn.totBytesSent = 0 /\ conn.bundleCount = 0
      /\ conn.lastLargestEndSeq = 0 /\ conn.lastLargestStartSeq = 0
      /\ ~seg.is_rdb
  BY BoundsAssumption DEF Init, rmInit, Keys, Inserting, NoSeg
<1>2. /\ analysed_bytes_sent = 0 /\ analysed_packet_sent_count_in_dump = 0
      /\ analysed_packet_received_count = 0
      /\ Total([j \in Keys |-> byte_count(j)]) = 0
  BY <1>1, SumEmpty, TotalsAreSums
<1>3. LargestSeen /\ SegmentClassified /\ EmptyKnown
  BY <1>1 DEF LargestSeen, SegmentClassified, EmptyKnown
<1>4. TotalsPending
  <2>1. nxt - base = 0
    BY <1>1
  <2> QED
    BY <1>1, <1>2, <2>1 DEF TotalsPending
<1> QED
  BY <1>1, <1>3, <1>4 DEF TallyInv

\* Every step keeps it.
LEMMA NextTallies ==
    ASSUME RegularTrace, ShortTrace, RegularInv, RegularInv', TallyInv, [Next]_vars
    PROVE  TallyInv'
<1>1. /\ TypeOK /\ TypeOK' /\ Typed' /\ StepInv /\ RangesInStream' /\ EverySent
      /\ CountersInv /\ PartitionInv /\ PassesInOrder /\ CallInv /\ CallInv'
  <2>1. /\ TypeOK /\ TypeOK' /\ CountersInv /\ PartitionInv /\ AckInv /\ CallInv /\ CallInv'
        /\ RangesInStream'
    BY DEF CountersInv, InOrderInv, RegularInv, PartitionInv
  <2>2. Typed /\ Typed'
    BY <2>1, TypedFrom, TypedNext
  <2> QED
    BY <2>1, <2>2 DEF StepInv, PartitionInv, AckInv
<1>2. CompleteCapture
  BY DEF RegularTrace, InOrderCapture
<1>3. CASE UNCHANGED vars
  <2>1. UNCHANGED <<ranges, op, frame, seg, conn, base, nxt, tcp, recvNo, wire>>
    BY <1>3 DEF vars, rmVars, envVars
  <2>2. UNCHANGED <<Keys, SENT, ZeroLength, Outermost, Inserting, start_seq>>
    BY <2>1 DEF Keys, SENT, ZeroLength, Outermost, Inserting, start_seq
  <2>3. LargestSeen' /\ SegmentClassified' /\ EmptyKnown'
    BY <2>1, <2>2 DEF TallyInv, LargestSeen, SegmentClassified, EmptyKnown, Covers
  <2>4. \A j \in Keys' : Tallied(j)'
    BY <1>1, <2>1, <2>2, UntouchedTallied DEF TallyInv
  <2>5. /\ analysed_bytes_sent' = analysed_bytes_sent
        /\ Total([j \in Keys |-> byte_count(j)])' = Total([j \in Keys |-> byte_count(j)])
        /\ analysed_packet_sent_count_in_dump' = analysed_packet_sent_count_in_dump
        /\ analysed_packet_received_count' = analysed_packet_received_count
    BY <2>1, TotalsAreSums, TotalsAreSumsNext
  <2>6. TotalsPending'
    BY <2>1, <2>2, <2>5 DEF TallyInv, TotalsPending
  <2> QED
    BY <2>3, <2>4, <2>6 DEF TallyInv
<1>4. CASE RangeManagerStep
  <2>1. Fixed
    BY <1>4 DEF RangeManagerStep, Fixed
  <2>2. CASE insertByteRange
    BY <1>1, <2>1, <2>2, InsertKeepsTallies
  <2>3. CASE processAck
    BY <1>1, <2>1, <2>3, AckKeepsTallies
  <2> QED
    BY <1>4, <2>2, <2>3 DEF RangeManagerStep
<1>5. CASE SendStep
  BY <1>1, <1>2, <1>5, SendStepKeepsTallies
<1>6. ASSUME NEW n \in 1 .. MaxPayload, DropNew(n) PROVE FALSE
  BY <1>2, <1>6 DEF DropNew, CompleteCapture
<1>7. ASSUME NEW a \in 0 .. MaxSeq + 2, NEW echo \in BOOLEAN, AckArrives(a, echo)
      PROVE  TallyInv'
  <2>1. /\ UNCHANGED <<ranges, conn, base, nxt, tcp, recvNo, seg>> /\ wire' \subseteq wire
        /\ op = "idle" /\ op' = "idle"
    BY <1>7 DEF AckArrives, rmVars
  <2> QED
    BY <1>1, <2>1, IdleTallies
<1>8. ASSUME NEW s \in 0 .. MaxSeq + 1, NEW n \in 0 .. MaxPayload,
             NEW flag \in {"none", "syn", "fin"},
             NEW ts \in {0} \cup {p.ts : p \in wire \cup arrived}, processRecvd(s, s + n, flag, ts)
      PROVE  TallyInv'
  <2>1. s \in Nat
    BY BoundsAssumption
  <2> QED
    BY <1>1, <1>2, <1>8, <2>1, RecvKeepsTallies
<1>9. CASE StartAcks \/ StartRecv
  <2>1. /\ UNCHANGED <<ranges, conn, base, nxt, tcp, recvNo, seg>> /\ wire' \subseteq wire
        /\ op = "idle" /\ op' = "idle"
    BY <1>9 DEF StartAcks, StartRecv, rmVars
  <2> QED
    BY <1>1, <2>1, IdleTallies
<1>10. CASE processAcks
  <2>1. /\ UNCHANGED <<ranges, conn, base, nxt, tcp, recvNo, seg>> /\ wire' \subseteq wire
        /\ op = "idle" /\ op' \in {"idle", "ack"}
    BY <1>10 DEF processAcks, CallAck
  <2> QED
    BY <1>1, <2>1, IdleTallies
<1> QED
  BY <1>3, <1>4, <1>5, <1>6, <1>7, <1>8, <1>9, <1>10, NextCases

\* What a statistic of a regular trace may rely on.
CountedInv == RegularInv /\ TallyInv

\* Together the invariants hold of a regular trace that is short enough.
LEMMA CountedHolds ==
    ASSUME RegularTrace, ShortTrace
    PROVE  Spec => []CountedInv
<1>1. Spec => []RegularInv
  BY RegularHolds
<1>2. Init => TallyInv
  BY InitTallies
<1>3. RegularInv /\ RegularInv' /\ TallyInv /\ [Next]_vars => TallyInv'
  BY NextTallies
<1>4. RegularInv /\ TallyInv => CountedInv
  BY DEF CountedInv
<1> QED
  BY <1>1, <1>2, <1>3, <1>4, PTL DEF Spec

-----------------------------------------------------------------------------
(* What the statistics add up. *)

\* The inductive invariant of the totals: with what is left of the segment in
\* hand they are the counters of registerSent, and each range knows how often it
\* was sent, in how many packets, and which of them were retransmissions.
THEOREM TalliesHold ==
    ASSUME RegularTrace, ShortTrace
    PROVE  Spec => []TallyInv
<1>1. CountedInv => TallyInv
  BY DEF CountedInv
<1> QED
  BY <1>1, CountedHolds, PTL

\* calculateRealLoss adds up the bytes of every transmission of every range: the
\* bytes of all the packets that registerSent has counted, however the ranges
\* were split, filled and bundled.
THEOREM BytesAlwaysAccounted ==
    ASSUME RegularTrace, ShortTrace
    PROVE  Spec => []BytesAccounted
<1>1. CountedInv => BytesAccounted
  <2> SUFFICES ASSUME CountedInv, op = "idle" PROVE analysed_bytes_sent = conn.totBytesSent
    BY DEF BytesAccounted
  <2> DEFINE b == analysed_bytes_sent
  <2>1. b + 0 = conn.totBytesSent
    BY DEF CountedInv, TallyInv, TotalsPending, Inserting
  <2>2. b \in Nat
    <3>1. TallyMap(ranges)
      BY KeysTallied DEF CountedInv, RegularInv, InOrderInv, CountersInv, PartitionInv
    <3> QED
      BY <3>1, SumsTyped, TotalsAreSums
  <2> HIDE DEF b
  <2>3. b = conn.totBytesSent
    BY <2>1, <2>2
  <2> QED
    BY <2>3 DEF b
<1> QED
  BY <1>1, CountedHolds, PTL

\* The packets of the ranges are the packets of the trace, as long as no segment
\* bundles old and new data.
THEOREM PacketsAlwaysAccounted ==
    ASSUME RegularTrace, ShortTrace
    PROVE  Spec => []PacketsAccounted
<1>1. CountedInv => PacketsAccounted
  <2> SUFFICES ASSUME CountedInv, op = "idle", conn.bundleCount = 0
               PROVE  analysed_packet_sent_count_in_dump = conn.nrPacketsSent
    BY DEF PacketsAccounted
  <2> DEFINE p == analysed_packet_sent_count_in_dump
  <2>1. p + 0 = conn.nrPacketsSent
    BY DEF CountedInv, TallyInv, TotalsPending
  <2>2. p \in Nat
    <3>1. TallyMap(ranges)
      BY KeysTallied DEF CountedInv, RegularInv, InOrderInv, CountersInv, PartitionInv
    <3> QED
      BY <3>1, SumsTyped, TotalsAreSums
  <2> HIDE DEF p
  <2>3. p = conn.nrPacketsSent
    BY <2>1, <2>2
  <2> QED
    BY <2>3 DEF p
<1> QED
  BY <1>1, CountedHolds, PTL

\* Every segment of the receiver's trace is counted for exactly one range, also
\* when its bytes are spread over several.
THEOREM RecvdPacketsAlwaysAccounted ==
    ASSUME RegularTrace, ShortTrace
    PROVE  Spec => []RecvdPacketsAccounted
<1>1. CountedInv => RecvdPacketsAccounted
  <2> SUFFICES ASSUME CountedInv, op = "idle" PROVE analysed_packet_received_count = recvNo
    BY DEF RecvdPacketsAccounted
  <2> DEFINE v == analysed_packet_received_count
  <2>1. v + 0 = recvNo
    BY DEF CountedInv, TallyInv, TotalsPending
  <2>2. v \in Nat
    <3>1. TallyMap(ranges)
      BY KeysTallied DEF CountedInv, RegularInv, InOrderInv, CountersInv, PartitionInv
    <3> QED
      BY <3>1, SumsTyped, TotalsAreSums
  <2> HIDE DEF v
  <2>3. v = recvNo
    BY <2>1, <2>2
  <2> QED
    BY <2>3 DEF v
<1> QED
  BY <1>1, CountedHolds, PTL

\* The facts about a range that the sums below are made of, between two calls.
LEMMA RangeCounts ==
    ASSUME CountedInv, op = "idle", conn.bundleCount = 0, NEW k \in Keys
    PROVE  /\ k \in Nat /\ byte_count(k) \in Nat /\ TallyTyped(ranges[k])
           /\ IsFiniteSet(Keys)
           /\ HasBytes(k) <=> byte_count(k) # 0
           /\ HasBytes(k) =>
                /\ ranges[k].syn = 0 /\ ranges[k].rst = 0 /\ ranges[k].rdb_count = 0
                /\ ranges[k].data_sent_count = ranges[k].data_retrans_count + 1
                /\ ranges[k].packet_sent_count + ranges[k].packet_retrans_count
                     <= ranges[k].data_retrans_count + 1
           /\ ~HasBytes(k) =>
                /\ ranges[k].packet_sent_count + ranges[k].packet_retrans_count
                     = ranges[k].syn + ranges[k].fin + ranges[k].rst
                /\ ranges[k].data_retrans_count = 0
<1>1. TallyMap(ranges)
  BY KeysTallied DEF CountedInv, RegularInv, InOrderInv, CountersInv, PartitionInv
<1>2. k \in Nat /\ ranges[k].endSeq \in Nat /\ k <= ranges[k].endSeq /\ TallyTyped(ranges[k])
      /\ IsFiniteSet(Keys)
  BY <1>1 DEF TallyMap, Keys, TallyTyped
<1>3. byte_count(k) \in Nat /\ (HasBytes(k) <=> byte_count(k) # 0)
  BY <1>2 DEF byte_count, HasBytes
<1>4. Tallied(k)
  BY DEF CountedInv, TallyInv
<1> QED
  BY <1>2, <1>3, <1>4 DEF Tallied, DataTallied, EmptyTallied

\* The adjusted number of packets, which counts a range with data as one packet
\* and one more for each retransmission, is never less than the number in the
\* dump: no packet is counted for a range that it did not transmit.
THEOREM PacketsAlwaysAdjusted ==
    ASSUME RegularTrace, ShortTrace
    PROVE  Spec => []PacketsAdjusted
<1>1. CountedInv => PacketsAdjusted
  <2> SUFFICES ASSUME CountedInv, op = "idle", conn.bundleCount = 0
               PROVE  analysed_packet_sent_count >= analysed_packet_sent_count_in_dump
    BY DEF PacketsAdjusted
  <2> DEFINE f == [k \in Keys |-> ranges[k].packet_sent_count + ranges[k].packet_retrans_count
                                    + ranges[k].acked_sent]
             g == [k \in Keys |->
                     ranges[k].syn + ranges[k].rst
                       + (IF byte_count(k) = 0 THEN ranges[k].fin ELSE 1)
                       + ranges[k].data_retrans_count + ranges[k].acked_sent]
  <2>1. IsFiniteSet(Keys)
    <3>1. TallyMap(ranges)
      BY KeysTallied DEF CountedInv, RegularInv, InOrderInv, CountersInv, PartitionInv
    <3> QED
      BY <3>1 DEF TallyMap, Keys
  <2>2. ASSUME NEW k \in Keys PROVE f[k] \in Int /\ g[k] \in Int /\ f[k] <= g[k]
    <3> DEFINE r == ranges[k]
               c == byte_count(k)
    <3>1. /\ c \in Nat /\ (HasBytes(k) <=> c # 0)
          /\ HasBytes(k) =>
               /\ r.syn = 0 /\ r.rst = 0
               /\ r.packet_sent_count + r.packet_retrans_count <= r.data_retrans_count + 1
          /\ ~HasBytes(k) =>
               /\ r.packet_sent_count + r.packet_retrans_count = r.syn + r.fin + r.rst
               /\ r.data_retrans_count = 0
      BY RangeCounts
    <3>2. /\ r.syn \in Nat /\ r.rst \in Nat /\ r.fin \in Nat /\ r.acked_sent \in Nat
          /\ r.packet_sent_count \in Nat /\ r.packet_retrans_count \in Nat
          /\ r.data_retrans_count \in Nat
      BY RangeCounts DEF TallyTyped
    <3>3. /\ f[k] = r.packet_sent_count + r.packet_retrans_count + r.acked_sent
          /\ g[k] = r.syn + r.rst + (IF c = 0 THEN r.fin ELSE 1) + r.data_retrans_count
                      + r.acked_sent
      OBVIOUS
    <3> HIDE DEF f, g, r, c
    <3>4. CASE c = 0
      BY <3>1, <3>2, <3>3, <3>4
    <3>5. CASE c # 0
      BY <3>1, <3>2, <3>3, <3>5
    <3> QED
      BY <3>4, <3>5
  <2> HIDE DEF f, g
  <2>3. SumFunctionOnSet(f, Keys) <= SumFunctionOnSet(g, Keys)
    BY <2>1, <2>2, SumMonotone
  <2>4. /\ SumFunctionOnSet(f, Keys) \in Int /\ SumFunctionOnSet(g, Keys) \in Int
    BY <2>1, <2>2, SumInt
  <2>5. SumFunctionOnSet(g, Keys) >= SumFunctionOnSet(f, Keys)
    BY <2>3, <2>4
  <2> QED
    BY <2>5 DEF f, g, analysed_packet_sent_count, analysed_packet_sent_count_in_dump, Total
<1> QED
  BY <1>1, CountedHolds, PTL

\* The first and the last range with data, if the capture begins with the SYN:
\* they are the ends of the stream.
LEMMA UniqueBytes ==
    ASSUME CountedInv, op = "idle", base = 1
    PROVE  getNumUniqueBytes = nxt - base
<1>1. /\ TypeOK /\ Typed /\ Disjoint /\ RangesInStream /\ Frontier /\ EmptyUncounted /\ PassesInOrder
      /\ base <= nxt
  BY TypedFrom DEF CountedInv, RegularInv, InOrderInv, CountersInv, PartitionInv, CallInv, AckInv
<1>2. nxt \in Nat /\ \A k \in Keys : k \in Nat /\ ranges[k].endSeq \in Nat /\ k <= ranges[k].endSeq
  BY <1>1 DEF TypeOK, Typed, RangesInStream
<1>3. \A x \in base .. nxt - 1 : \E k \in Keys : Covers(k, x)
  BY <1>1 DEF Frontier, Inserting, Failures
<1>4. \A k \in WithData : k \in Keys /\ base <= k /\ k < ranges[k].endSeq /\ ranges[k].endSeq <= nxt
  <2> SUFFICES ASSUME NEW k \in WithData
               PROVE  k \in Keys /\ base <= k /\ k < ranges[k].endSeq /\ ranges[k].endSeq <= nxt
    OBVIOUS
  <2>1. k \in Keys /\ byte_count(k) # 0
    BY DEF WithData
  <2>2. k < ranges[k].endSeq
    BY <1>2, <2>1 DEF byte_count
  <2> QED
    BY <1>1, <2>1, <2>2 DEF EmptyUncounted, HasBytes, RangesInStream
<1>5. \A k \in Keys : k < ranges[k].endSeq => k \in WithData
  BY <1>2 DEF WithData, byte_count
<1>6. CASE nxt = base
  <2>1. WithData = {}
    BY <1>2, <1>4, <1>6
  <2>2. first_data_seq = 0 /\ last_data_seq = 0
    BY <2>1 DEF first_data_seq, last_data_seq
  <2> QED
    BY <1>6, <2>2 DEF getNumUniqueBytes
<1>7. CASE nxt > base
  <2>1. first_data_seq = base
    <3>1. base \in base .. nxt - 1
      BY <1>2, <1>7
    <3>2. PICK k \in Keys : Covers(k, base)
      BY <1>3, <3>1
    <3>3. k <= base /\ base < ranges[k].endSeq
      BY <3>2 DEF Covers
    <3>4. k \in WithData
      BY <1>2, <1>5, <3>3
    <3>5. k = base
      BY <1>2, <1>4, <3>3, <3>4
    <3>6. base \in WithData /\ \A y \in WithData : base <= y
      BY <1>4, <3>4, <3>5
    <3>7. \A m \in WithData : (\A y \in WithData : m <= y) => m = base
      BY <1>2, <1>4, <3>6
    <3>8. Min(WithData) = base
      BY <3>6, <3>7 DEF Min
    <3> QED
      BY <3>6, <3>8 DEF first_data_seq
  <2>2. last_data_seq = nxt
    <3> DEFINE searched == {k \in WithData : ~IsFirst(k)}
    <3>1. nxt - 1 \in base .. nxt - 1
      BY <1>2, <1>7
    <3>2. PICK k \in Keys : Covers(k, nxt - 1)
      BY <1>3, <3>1
    <3>3. k <= nxt - 1 /\ nxt - 1 < ranges[k].endSeq
      BY <3>2 DEF Covers
    <3>4. k \in WithData
      BY <1>2, <1>5, <3>3
    <3>5. ranges[k].endSeq = nxt
      BY <1>2, <1>4, <3>3, <3>4
    <3>6. ~IsFirst(k)
      <4>1. 0 \in Keys
        BY <1>1, <3>2 DEF PassesInOrder
      <4>2. ~(k <= 0)
        BY <1>2, <1>4, <3>4
      <4> QED
        BY <4>1, <4>2 DEF IsFirst
    <3>7. ASSUME NEW y \in searched PROVE y <= k
      <4>1. y \in WithData /\ y \in Keys
        BY <1>4
      <4>2. k < y => ranges[k].endSeq <= y
        BY <1>1, <4>1 DEF Disjoint
      <4> QED
        BY <1>2, <1>4, <3>5, <4>1, <4>2
    <3>8. k \in searched /\ \A y \in searched : k >= y /\ y \in Nat
      BY <1>2, <1>4, <3>4, <3>6, <3>7
    <3>9. \A m \in searched : (\A y \in searched : m >= y) => m = k
      BY <1>2, <3>8
    <3> HIDE DEF searched
    <3>10. Max(searched) = k
      BY <3>8, <3>9 DEF Max
    <3> QED
      BY <3>5, <3>8, <3>10 DEF last_data_seq, searched
  <2> QED
    BY <2>1, <2>2 DEF getNumUniqueBytes
<1> QED
  BY <1>1, <1>2, <1>6, <1>7

\* The redundant bytes that calculateRealLoss adds up range by range are the
\* bytes sent less the length of the stream, "which should be equal": if no
\* segment bundles old and new data and the capture begins with the SYN.
THEOREM RedundantBytesAlwaysAgree ==
    ASSUME RegularTrace, ShortTrace
    PROVE  Spec => []RedundantBytesAgreeUnbundled
<1>1. CountedInv => RedundantBytesAgreeUnbundled
  <2> SUFFICES ASSUME CountedInv, op = "idle", conn.bundleCount = 0, base = 1
               PROVE  analysed_bytes_sent - getNumUniqueBytes = analysed_redundant_bytes
    BY DEF RedundantBytesAgreeUnbundled, RedundantBytesAgree
  <2> DEFINE f == [k \in Keys |-> byte_count(k)]
             g == [k \in Keys |->
                     byte_count(k) * (ranges[k].data_retrans_count + ranges[k].rdb_count)]
             h == [k \in Keys |-> byte_count(k) * ranges[k].data_sent_count]
  <2>1. IsFiniteSet(Keys)
    <3>1. TallyMap(ranges)
      BY KeysTallied DEF CountedInv, RegularInv, InOrderInv, CountersInv, PartitionInv
    <3> QED
      BY <3>1 DEF TallyMap, Keys
  <2>2. ASSUME NEW k \in Keys PROVE f[k] \in Int /\ g[k] \in Int /\ h[k] = f[k] + g[k]
    <3> DEFINE r == ranges[k]
               c == byte_count(k)
    <3>1. /\ c \in Nat /\ (HasBytes(k) <=> c # 0)
          /\ HasBytes(k) =>
               r.rdb_count = 0 /\ r.data_sent_count = r.data_retrans_count + 1
      BY RangeCounts
    <3>2. r.data_sent_count \in Nat /\ r.data_retrans_count \in Nat /\ r.rdb_count \in Nat
      BY RangeCounts DEF TallyTyped
    <3>3. f[k] = c /\ g[k] = c * (r.data_retrans_count + r.rdb_count) /\ h[k] = c * r.data_sent_count
      OBVIOUS
    <3> HIDE DEF f, g, h, r, c
    <3>4. \A m, n \in Nat : m * n \in Nat /\ m * (n + 1) = m + m * (n + 0) /\ 0 * n = 0
      OBVIOUS
    <3>5. g[k] \in Int
      <4>1. r.data_retrans_count + r.rdb_count \in Nat
        BY <3>2
      <4> QED
        BY <3>1, <3>3, <3>4, <4>1
    <3>6. CASE c = 0
      <4>1. r.data_retrans_count + r.rdb_count \in Nat
        BY <3>2
      <4>2. h[k] = 0 /\ f[k] = 0 /\ g[k] = 0
        BY <3>2, <3>3, <3>4, <3>6, <4>1
      <4> QED
        BY <4>2
    <3>7. CASE c # 0
      <4>1. h[k] = c * (r.data_retrans_count + 1) /\ g[k] = c * (r.data_retrans_count + 0)
        BY <3>1, <3>3, <3>7
      <4> QED
        BY <3>1, <3>2, <3>3, <3>4, <3>5, <4>1
    <3> QED
      BY <3>6, <3>7
  <2> HIDE DEF f, g, h
  <2>3. SumFunctionOnSet(h, Keys) = SumFunctionOnSet(f, Keys) + SumFunctionOnSet(g, Keys)
    BY <2>1, <2>2, SumAdd
  <2>4. SumFunctionOnSet(f, Keys) \in Int /\ SumFunctionOnSet(g, Keys) \in Int
    BY <2>1, <2>2, SumInt
  <2>5. SumFunctionOnSet(f, Keys) = nxt - base
    <3>1. Total(f) + 0 = nxt - base
      BY DEF CountedInv, TallyInv, TotalsPending, Inserting, f
    <3> QED
      BY <2>4, <3>1 DEF Total
  <2>6. getNumUniqueBytes = nxt - base
    BY UniqueBytes
  <2>7. /\ analysed_bytes_sent = SumFunctionOnSet(h, Keys)
        /\ analysed_redundant_bytes = SumFunctionOnSet(g, Keys)
    BY DEF analysed_bytes_sent, analysed_redundant_bytes, Total, g, h
  <2> QED
    BY <2>3, <2>4, <2>5, <2>6, <2>7
<1> QED
  BY <1>1, CountedHolds, PTL

=============================================================================
