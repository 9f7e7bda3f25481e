---------------------------- MODULE SojournProofs ----------------------------
(***************************************************************************)
(* The sojourn input, for every capture that misses nothing: reading it    *)
(* changes nothing that the traces have left, the recursion over the       *)
(* ranges of a write always gets on, and reading only stops at a write     *)
(* that the trace does not have in full.  For every regular trace: a part  *)
(* of a range has the time of the write that carried its bytes, which is   *)
(* not after any packet of the range.                                      *)
(***************************************************************************)
EXTENDS CallProofs, SumProofs, Sojourn

-----------------------------------------------------------------------------
(* The traces are read as without the sojourn input. *)

\* A step is one of the traces, or leaves all of Connection's state alone.
LEMMA SojournStep ==
    ASSUME SojNext
    PROVE  \/ input = "off" /\ Next /\ UNCHANGED sojVars
           \/ UNCHANGED vars /\ (StartSojourn \/ insertSojourn
                \/ \E n \in 1 .. MaxPayload, time \in 0 .. clock : calculateSojournTime(n, time))
BY DEF SojNext, StartSojourn, calculateSojournTime, insertSojourn, SojournInside, SojournUnknown,
       SojournSpan, SojournWithin, Lookup

\* Every behaviour with a sojourn input is one of Connection: what is proved of
\* the traces holds with the input as well.
THEOREM SojournReadsOnly == SojSpec => Spec
<1>1. SojInit => Init
  BY DEF SojInit
<1>2. [SojNext]_allVars => [Next]_vars
  <2>1. SojNext => [Next]_vars
    BY SojournStep
  <2>2. UNCHANGED allVars => UNCHANGED vars
    BY DEF allVars
  <2> QED
    BY <2>1, <2>2
<1> QED
  BY <1>1, <1>2, PTL DEF SojSpec, Spec

-----------------------------------------------------------------------------
(* Types. *)

Parts == [seq : Nat, time : Nat]

\* A call of insertByteRange has a write to look up.
SojTyped == SojTypeOK /\ (input = "insert" => writes # <<>>)

\* The last write, and where the writes end.
LEMMA WriteType ==
    ASSUME TypeOK, SojTypeOK
    PROVE  /\ writes # <<>> => Write \in Writes
           /\ Written \in Nat /\ LastWritten \in Nat
<1>1. writes # <<>> => Write \in Writes
  <2> SUFFICES ASSUME writes # <<>> PROVE Write \in Writes
    OBVIOUS
  <2>1. Len(writes) \in 1 .. Len(writes)
    BY DEF SojTypeOK
  <2> QED
    BY <2>1 DEF SojTypeOK, Write
<1>2. writes # <<>> => Write.endSeq \in Nat /\ Write.time \in Nat
  BY <1>1 DEF Writes
<1>3. base \in Nat
  BY DEF TypeOK
<1> QED
  BY <1>1, <1>2, <1>3 DEF Written, LastWritten

\* The end of a range.
LEMMA EndType ==
    ASSUME TypeOK, NEW k \in Keys
    PROVE  k \in Nat /\ ranges[k].endSeq \in Nat
BY DEF TypeOK, rmTypeOK, Keys, ByteRanges

\* A time is added to a range, or none is.
LEMMA AttributeType ==
    ASSUME TypeOK, SojTypeOK, writes # <<>>, NEW k \in Keys, NEW seq \in Nat,
           sojourn_tstamps \in [Keys -> Seq(Parts)],
           addSegmentEnteredKernelTime(k, seq)
    PROVE  sojourn_tstamps' \in [Keys -> Seq(Parts)]
<1>1. Write.time \in Nat
  BY WriteType DEF Writes
<1>2. [seq |-> seq, time |-> Write.time] \in Parts
  BY <1>1 DEF Parts
<1> DEFINE part == [seq |-> seq, time |-> Write.time]
<1>3. part \in Parts
  BY <1>2
<1>4. \/ sojourn_tstamps' = sojourn_tstamps
      \/ sojourn_tstamps' = [sojourn_tstamps EXCEPT ![k] = Append(@, part)]
  BY DEF addSegmentEnteredKernelTime
<1> HIDE DEF part
<1>5. Append(sojourn_tstamps[k], part) \in Seq(Parts)
  BY <1>3
<1> QED
  BY <1>4, <1>5

\* Every step keeps the types.
LEMMA SojNextTyped ==
    ASSUME TypeOK, SojTyped, [SojNext]_allVars
    PROVE  SojTyped'
<1>1. SojTypeOK /\ (input = "insert" => writes # <<>>)
  BY DEF SojTyped
<1>2. CASE input = "off" /\ Next /\ UNCHANGED sojVars
  BY <1>1, <1>2 DEF SojTyped, SojTypeOK, sojVars
<1>3. CASE UNCHANGED allVars
  BY <1>1, <1>3 DEF SojTyped, SojTypeOK, allVars, vars, rmVars, sojVars, Keys
<1>4. CASE UNCHANGED vars /\ StartSojourn
  <2>1. /\ input' = "reading" /\ writes' = writes /\ sojFrame' = sojFrame
        /\ sojourn_tstamps' = [k \in Keys |-> <<>>]
    BY <1>4 DEF StartSojourn
  <2>2. Keys' = Keys
    BY <1>4 DEF vars, rmVars, Keys
  <2>3. sojourn_tstamps' \in [Keys' -> Seq([seq : Nat, time : Nat])]
    BY <2>1, <2>2
  <2> QED
    BY <1>1, <2>1, <2>3 DEF SojTyped, SojTypeOK
<1>5. ASSUME UNCHANGED vars, NEW n \in 1 .. MaxPayload, NEW time \in 0 .. clock,
             calculateSojournTime(n, time)
      PROVE  SojTyped'
  <2>1. /\ input = "reading" /\ input' = "insert"
        /\ writes' = Append(writes, [seq |-> Written, endSeq |-> Written + n, time |-> time])
        /\ sojFrame' = [start |-> Written, level |-> 0]
        /\ sojourn_tstamps' = sojourn_tstamps
    BY <1>5 DEF calculateSojournTime
  <2>2. Written \in Nat /\ n \in Nat /\ time \in Nat
    BY <1>1, WriteType, BoundsAssumption DEF TypeOK
  <2> DEFINE w == [seq |-> Written, endSeq |-> Written + n, time |-> time]
  <2>3. w \in Writes
    BY <2>2 DEF Writes
  <2>4. sojFrame' \in SojFrames
    BY <2>1, <2>2 DEF SojFrames
  <2>5. writes' = Append(writes, w) /\ writes \in Seq(Writes)
    BY <1>1, <2>1 DEF SojTypeOK
  <2> HIDE DEF w
  <2>6. writes' \in Seq(Writes) /\ writes' # <<>>
    BY <2>3, <2>5
  <2>7. Keys' = Keys
    BY <1>5 DEF vars, rmVars, Keys
  <2> QED
    BY <1>1, <2>1, <2>4, <2>6, <2>7 DEF SojTyped, SojTypeOK
<1>6. CASE UNCHANGED vars /\ insertSojourn
  <2>1. input = "insert" /\ writes' = writes /\ writes # <<>>
    BY <1>1, <1>6 DEF insertSojourn, SojournInside, SojournUnknown, SojournSpan, SojournWithin, Lookup
  <2>2. Keys' = Keys
    BY <1>6 DEF vars, rmVars, Keys
  <2>3. sojourn_tstamps \in [Keys -> Seq(Parts)]
    BY <1>1, <2>1 DEF SojTypeOK, Parts
  <2>4. Write.endSeq \in Nat
    BY <1>1, <2>1, WriteType DEF Writes
  <2>5. /\ input' \in {"insert", "reading", "stopped", "recursion_level"}
        /\ \/ sojFrame' = sojFrame
           \/ \E k \in Keys : sojFrame' = [start |-> ranges[k].endSeq, level |-> sojFrame.level + 1]
        /\ \/ sojourn_tstamps' = sojourn_tstamps
           \/ \E k \in Keys : addSegmentEnteredKernelTime(k, Write.endSeq)
           \/ \E k \in Keys : addSegmentEnteredKernelTime(k, ranges[k].endSeq)
    BY <1>6, <2>1 DEF insertSojourn, SojournInside, SojournUnknown, SojournSpan, SojournWithin,
                      SojReturn, SojRecurse
  <2>6. sojFrame' \in SojFrames
    <3>1. sojFrame \in SojFrames /\ sojFrame.level + 1 \in Nat
      BY <1>1 DEF SojTypeOK, SojFrames
    <3>2. \A k \in Keys : ranges[k].endSeq \in Nat
      BY EndType
    <3> QED
      BY <2>5, <3>1, <3>2 DEF SojFrames
  <2>7. sojourn_tstamps' \in [Keys -> Seq(Parts)]
    <3>1. \A k \in Keys : ranges[k].endSeq \in Nat
      BY EndType
    <3> QED
      BY <1>1, <2>1, <2>3, <2>4, <2>5, <3>1, AttributeType
  <2> QED
    BY <1>1, <2>1, <2>2, <2>5, <2>6, <2>7 DEF SojTyped, SojTypeOK, Parts
<1> QED
  BY <1>2, <1>3, <1>4, <1>5, <1>6, SojournStep

\* Every lookup of a write ends with values of the right types: the start of a
\* recursive call is the end of a range, and the times are kept per range.
THEOREM SojournTypeCorrect == SojSpec => []SojTypeOK
<1>1. SojInit => SojTyped
  BY DEF SojInit, SojTyped, SojTypeOK, SojFrames
<1>2. TypeOK /\ SojTyped /\ [SojNext]_allVars => SojTyped'
  BY SojNextTyped
<1>3. SojSpec => []TypeOK
  BY SojournReadsOnly, TypeCorrect, PTL
<1>4. SojTyped => SojTypeOK
  BY DEF SojTyped
<1> QED
  BY <1>1, <1>2, <1>3, <1>4, PTL DEF SojSpec

-----------------------------------------------------------------------------
(* Reading stops where the trace does. *)

\* A byte of the stream is in one range, and between two calls it is in one.
LEMMA ByteHeld ==
    ASSUME PartitionInv, op = "idle", NEW x \in base .. nxt - 1
    PROVE  \E k \in Keys : Covers(k, x)
<1>1. ~Inserting /\ op \notin Failures
  BY DEF Inserting, Failures
<1> QED
  BY <1>1 DEF PartitionInv, Frontier

\* The last range reaches the end of the stream, if it starts within.
LEMMA LastReachesEnd ==
    ASSUME TypeOK, PartitionInv, op = "idle", NEW k \in Keys, IsLast(k), base <= k
    PROVE  ranges[k].endSeq >= nxt
<1> SUFFICES ASSUME ranges[k].endSeq < nxt PROVE FALSE
  BY EndType DEF TypeOK
<1>1. k <= ranges[k].endSeq /\ k \in Nat /\ ranges[k].endSeq \in Nat
  BY EndType DEF PartitionInv, RangesInStream
<1>2. ranges[k].endSeq \in base .. nxt - 1
  BY <1>1 DEF TypeOK
<1>3. PICK j \in Keys : Covers(j, ranges[k].endSeq)
  BY <1>2, ByteHeld
<1>4. j <= k /\ j \in Nat /\ ranges[j].endSeq \in Nat
  BY EndType DEF IsLast
<1>5. j # k
  BY <1>1, <1>3 DEF Covers
<1>6. ranges[j].endSeq <= k
  BY <1>1, <1>4, <1>5 DEF PartitionInv, Disjoint
<1> QED
  BY <1>1, <1>3, <1>4, <1>6 DEF Covers

\* A range without bytes lies at the end of the stream or behind it.
LEMMA EmptyAtEnd ==
    ASSUME TypeOK, PartitionInv, op = "idle", NEW k \in Keys, ~HasBytes(k), base <= k
    PROVE  k >= nxt
<1> SUFFICES ASSUME k < nxt PROVE FALSE
  BY EndType DEF TypeOK
<1>1. k \in Nat /\ ranges[k].endSeq \in Nat /\ ranges[k].endSeq <= k
  BY EndType DEF HasBytes
<1>2. k \in base .. nxt - 1
  BY <1>1 DEF TypeOK
<1>3. PICK j \in Keys : Covers(j, k)
  BY <1>2, ByteHeld
<1>4. j <= k /\ j \in Nat /\ ranges[j].endSeq \in Nat /\ j # k /\ ranges[j].endSeq > k
  BY <1>1, <1>3, EndType DEF Covers
<1>5. ranges[j].endSeq <= k
  BY <1>1, <1>4 DEF PartitionInv, Disjoint
<1> QED
  BY <1>1, <1>4, <1>5

\* The state of the traces is the same after a step of the sojourn input.
LEMMA TracesKept ==
    ASSUME UNCHANGED vars
    PROVE  /\ op' = op /\ base' = base /\ nxt' = nxt /\ clock' = clock /\ wire' = wire
           /\ ranges' = ranges /\ Keys' = Keys /\ recvNo' = recvNo /\ tcp' = tcp
           /\ FinSent' = FinSent
BY DEF vars, rmVars, envVars, Keys, FinSent

\* A further line of the input keeps what is known of the writes.
LEMMA WriteKeepsLookup ==
    ASSUME TypeOK, SojTyped, LookupInv, UNCHANGED vars,
           NEW n \in 1 .. MaxPayload, NEW time \in 0 .. clock, calculateSojournTime(n, time)
    PROVE  LookupInv'
<1> DEFINE w == [seq |-> Written, endSeq |-> Written + n, time |-> time]
<1>1. /\ input = "reading" /\ input' = "insert"
      /\ writes' = Append(writes, w)
      /\ sojFrame' = [start |-> Written, level |-> 0]
      /\ FinSent => Written + n <= nxt
  BY DEF calculateSojournTime
<1>2. SojTypeOK /\ writes \in Seq(Writes)
  BY DEF SojTyped, SojTypeOK
<1>3. Written \in Nat /\ n \in Nat /\ n >= 1 /\ n <= MaxPayload /\ base \in Nat /\ MaxPayload \in Nat
  BY <1>2, WriteType, BoundsAssumption DEF TypeOK
<1>4. w.seq = Written /\ w.endSeq = Written + n
  OBVIOUS
<1>5. \A i \in DOMAIN writes :
        /\ base <= writes[i].seq /\ writes[i].seq < writes[i].endSeq
        /\ writes[i].endSeq - writes[i].seq <= MaxPayload
  BY DEF LookupInv, WritesInOrder
<1>6. \A i, j \in DOMAIN writes : i < j => writes[i].endSeq <= writes[j].seq
  BY DEF LookupInv, WritesInOrder
<1>7. DOMAIN writes = 1 .. Len(writes) /\ Len(writes) \in Nat
  BY <1>2
<1>8. \A i \in DOMAIN writes : writes[i].seq \in Nat /\ writes[i].endSeq \in Nat
  <2>1. \A i \in DOMAIN writes : writes[i] \in Writes
    BY <1>2
  <2> QED
    BY <2>1 DEF Writes
<1> HIDE DEF w
<1>9. /\ Len(writes') = Len(writes) + 1
      /\ DOMAIN writes' = 1 .. Len(writes) + 1
      /\ writes'[Len(writes) + 1] = w
      /\ \A i \in 1 .. Len(writes) : writes'[i] = writes[i]
      /\ writes' # <<>>
  BY <1>1, <1>2
<1>10. Written >= base /\ \A i \in DOMAIN writes : writes[i].endSeq <= Written
  <2>1. CASE writes = <<>>
    BY <2>1, <1>3, <1>7 DEF Written
  <2>2. CASE writes # <<>>
    <3>1. Len(writes) \in DOMAIN writes
      BY <1>2, <1>7, <2>2
    <3>2. Written = writes[Len(writes)].endSeq
      BY <2>2 DEF Written, Write
    <3>3. base <= Written
      BY <1>3, <1>5, <1>8, <3>1, <3>2
    <3>4. ASSUME NEW i \in DOMAIN writes PROVE writes[i].endSeq <= Written
      <4>1. CASE i = Len(writes)
        BY <4>1, <3>2, <1>8
      <4>2. CASE i # Len(writes)
        <5>1. i < Len(writes)
          BY <4>2, <1>7
        <5>2. writes[i].endSeq <= writes[Len(writes)].seq
          BY <5>1, <1>6, <3>1
        <5> QED
          BY <5>2, <1>5, <1>8, <3>1, <3>2
      <4> QED
        BY <4>1, <4>2
    <3> QED
      BY <1>3, <3>3, <3>4
  <2> QED
    BY <2>1, <2>2
<1>11. /\ op' = op /\ base' = base /\ nxt' = nxt /\ FinSent' = FinSent /\ recvNo' = recvNo
  BY TracesKept
<1>12. WritesInOrder'
  <2>1. ASSUME NEW i \in DOMAIN writes'
        PROVE  /\ base' <= writes'[i].seq /\ writes'[i].seq < writes'[i].endSeq
               /\ writes'[i].endSeq - writes'[i].seq <= MaxPayload
    <3>1. CASE i \in DOMAIN writes
      BY <3>1, <1>5, <1>7, <1>9, <1>11
    <3>2. CASE i \notin DOMAIN writes
      <4>1. writes'[i] = w
        BY <3>2, <1>7, <1>9
      <4> QED
        BY <4>1, <1>3, <1>4, <1>10, <1>11
    <3> QED
      BY <3>1, <3>2
  <2>2. ASSUME NEW i \in DOMAIN writes', NEW j \in DOMAIN writes', i < j
        PROVE  writes'[i].endSeq <= writes'[j].seq
    <3>1. i \in DOMAIN writes /\ writes'[i] = writes[i]
      BY <2>2, <1>7, <1>9
    <3>2. CASE j \in DOMAIN writes
      BY <2>2, <3>1, <3>2, <1>6, <1>7, <1>9
    <3>3. CASE j \notin DOMAIN writes
      <4>1. writes'[j] = w
        BY <3>3, <1>7, <1>9
      <4> QED
        BY <3>1, <4>1, <1>4, <1>10
    <3> QED
      BY <3>2, <3>3
  <2> QED
    BY <2>1, <2>2 DEF WritesInOrder
<1>13. Write' = w
  BY <1>9 DEF Write
<1>14. WriteInProgress'
  <2>1. sojFrame'.start = Written /\ sojFrame'.level = 0
    BY <1>1
  <2>2. Write'.seq = Written /\ Write'.endSeq = Written + n
    BY <1>4, <1>13
  <2> QED
    BY <1>1, <1>3, <1>9, <1>11, <2>1, <2>2 DEF WriteInProgress
<1> QED
  BY <1>1, <1>11, <1>12, <1>14 DEF LookupInv, SojournStopsAtEnd

\* So does each call of insertByteRange: it returns, or it goes on with the
\* bytes behind a range that has some, or the trace has no more.
LEMMA LookupKeepsLookup ==
    ASSUME RecursionLevel >= MaxPayload, TypeOK, PartitionInv, SojTyped, LookupInv,
           UNCHANGED vars, insertSojourn
    PROVE  LookupInv'
<1>1. input = "insert" /\ writes' = writes /\ writes # <<>> /\ op = "idle"
  BY DEF insertSojourn, SojournInside, SojournUnknown, SojournSpan, SojournWithin, Lookup,
         SojTyped, LookupInv
<1>2. Write' = Write /\ Written' = Write.endSeq /\ Written = Write.endSeq
  BY <1>1, TracesKept DEF Write, Written
<1>3. /\ op' = op /\ base' = base /\ nxt' = nxt /\ FinSent' = FinSent /\ recvNo' = recvNo
  BY TracesKept
<1>4. WritesInOrder'
  BY <1>1, <1>3 DEF LookupInv, WritesInOrder
<1>5. Write \in Writes
  BY <1>1, WriteType DEF SojTyped
<1>6. Write.seq \in Nat /\ Write.endSeq \in Nat
  BY <1>5 DEF Writes
<1>7. sojFrame.start \in Nat /\ sojFrame.level \in Nat
  BY DEF SojTyped, SojTypeOK, SojFrames
<1>8. /\ Write.seq <= sojFrame.start /\ sojFrame.start < Write.endSeq
      /\ sojFrame.level <= sojFrame.start - Write.seq
      /\ FinSent => Write.endSeq <= nxt
  BY <1>1 DEF LookupInv, WriteInProgress
<1>9. base <= Write.seq /\ Write.endSeq - Write.seq <= MaxPayload
  <2>1. Len(writes) \in DOMAIN writes
    BY <1>1 DEF SojTyped, SojTypeOK
  <2> QED
    BY <2>1 DEF LookupInv, WritesInOrder, Write
<1>10. base \in Nat /\ nxt \in Nat /\ MaxPayload \in Nat /\ RecursionLevel \in Nat
  BY BoundsAssumption, RecursionLevelAssumption DEF TypeOK
<1>11. base <= sojFrame.start
  BY <1>6, <1>7, <1>8, <1>9, <1>10
<1>12. ASSUME SojReturn PROVE LookupInv'
  BY <1>1, <1>3, <1>4, <1>12 DEF SojReturn, LookupInv, WriteInProgress, SojournStopsAtEnd
<1>13. ASSUME NEW j \in Keys, NEW e \in Nat, e = ranges[j].endSeq, j < e,
              sojFrame.start < e, e < Write.endSeq, SojRecurse(e)
       PROVE  LookupInv'
  <2>1. input' = "insert" /\ sojFrame'.start = e /\ sojFrame'.level = sojFrame.level + 1
    BY <1>1, <1>13 DEF SojRecurse
  <2>2. Write.seq <= e /\ sojFrame.level + 1 <= e - Write.seq
    BY <1>6, <1>7, <1>8, <1>13
  <2>3. ~\E k \in Keys : Inside(k)'
    <3> SUFFICES ASSUME NEW k \in Keys, k < e, ranges[k].endSeq > e PROVE FALSE
      BY <2>1, TracesKept DEF Inside, IsPrev
    <3>1. k \in Nat /\ j \in Nat /\ ranges[k].endSeq \in Nat
      BY EndType
    <3>2. k < j => ranges[k].endSeq <= j
      BY DEF PartitionInv, Disjoint
    <3>3. j < k => ranges[j].endSeq <= k
      BY DEF PartitionInv, Disjoint
    <3> QED
      BY <1>13, <3>1, <3>2, <3>3
  <2>4. WriteInProgress'
    <3>1. ~(\E k \in Keys : Inside(k))'
      BY <2>3, TracesKept
    <3> QED
      BY <1>1, <1>2, <1>3, <1>8, <1>13, <2>1, <2>2, <3>1 DEF WriteInProgress
  <2> QED
    BY <1>1, <1>3, <1>4, <2>1, <2>4 DEF LookupInv, SojournStopsAtEnd
<1>14. CASE SojournInside
  <2>1. PICK k \in Keys :
          /\ Inside(k)
          /\ IF Write.endSeq <= ranges[k].endSeq
             THEN addSegmentEnteredKernelTime(k, Write.endSeq) /\ SojReturn
             ELSE SojRecurse(ranges[k].endSeq) /\ UNCHANGED sojourn_tstamps
    BY <1>14 DEF SojournInside
  <2>2. /\ ranges[k].endSeq \in Nat /\ sojFrame.start < ranges[k].endSeq
        /\ k < ranges[k].endSeq
    BY <1>7, <2>1, EndType DEF Inside, IsPrev
  <2>3. CASE Write.endSeq <= ranges[k].endSeq
    BY <2>1, <2>3, <1>12
  <2>4. CASE ~(Write.endSeq <= ranges[k].endSeq)
    <3>1. ranges[k].endSeq < Write.endSeq /\ SojRecurse(ranges[k].endSeq)
      BY <2>1, <2>2, <2>4, <1>6
    <3> QED
      BY <3>1, <2>2, <1>13
  <2> QED
    BY <2>3, <2>4
<1>15. CASE SojournUnknown
  BY <1>12, <1>15 DEF SojournUnknown
<1>16. CASE SojournWithin
  BY <1>12, <1>16 DEF SojournWithin
<1>17. CASE SojournSpan
  <2> DEFINE k == sojFrame.start
  <2>1. /\ k \in Keys /\ ranges[k].endSeq < Write.endSeq
        /\ IF IsLast(k) THEN input' = "stopped" /\ UNCHANGED sojFrame
           ELSE IF sojFrame.level > RecursionLevel
           THEN input' = "recursion_level" /\ UNCHANGED sojFrame
           ELSE SojRecurse(ranges[k].endSeq)
    BY <1>17 DEF SojournSpan
  <2>2. ranges[k].endSeq \in Nat /\ k <= ranges[k].endSeq
    BY <2>1, EndType DEF PartitionInv, RangesInStream
  <2>3. ~(sojFrame.level > RecursionLevel)
    BY <1>6, <1>7, <1>8, <1>9, <1>10
  <2>4. CASE IsLast(k)
    <3>1. ranges[k].endSeq >= nxt
      BY <2>1, <2>4, <1>1, <1>11, LastReachesEnd
    <3>2. Written' > nxt'
      BY <3>1, <2>1, <2>2, <1>2, <1>3, <1>6, <1>10
    <3>3. input' = "stopped"
      BY <2>1, <2>4
    <3> QED
      BY <1>1, <1>3, <1>4, <3>2, <3>3 DEF LookupInv, SojournStopsAtEnd, WriteInProgress
  <2>5. CASE ~IsLast(k)
    <3>1. SojRecurse(ranges[k].endSeq)
      BY <2>1, <2>3, <2>5
    <3>2. HasBytes(k)
      <4> SUFFICES ASSUME ~HasBytes(k) PROVE FALSE
        OBVIOUS
      <4>1. k >= nxt
        BY <2>1, <1>1, <1>11, EmptyAtEnd
      <4>2. PICK j \in Keys : ~(j <= k)
        BY <2>5 DEF IsLast
      <4>3. j > nxt
        BY <4>1, <4>2, <1>7, <1>10, EndType
      <4>4. FinSent
        BY <4>3 DEF FinSent
      <4> QED
        BY <4>1, <4>4, <1>6, <1>7, <1>8, <1>10
    <3>3. sojFrame.start < ranges[k].endSeq
      BY <3>2 DEF HasBytes
    <3> QED
      BY <3>1, <3>3, <2>1, <2>2, <1>13
  <2> QED
    BY <2>4, <2>5
<1> QED
  BY <1>14, <1>15, <1>16, <1>17 DEF insertSojourn

\* Every step keeps what is known of the writes.
LEMMA SojNextLookup ==
    ASSUME RecursionLevel >= MaxPayload, TypeOK, PartitionInv, SojTyped, LookupInv,
           [SojNext]_allVars
    PROVE  LookupInv'
<1>1. CASE input = "off" /\ Next /\ UNCHANGED sojVars
  <2>1. input' = "off" /\ writes' = <<>>
    BY <1>1 DEF sojVars, LookupInv
  <2> QED
    BY <2>1 DEF LookupInv, WritesInOrder, WriteInProgress, SojournStopsAtEnd
<1>2. CASE UNCHANGED allVars
  <2>1. UNCHANGED vars /\ UNCHANGED sojVars
    BY <1>2 DEF allVars
  <2>2. Write' = Write /\ Written' = Written /\ \A k \in Keys : Inside(k)' <=> Inside(k)
    BY <2>1, TracesKept DEF Write, Written, sojVars, Inside, IsPrev
  <2> QED
    BY <2>1, <2>2, TracesKept DEF LookupInv, WritesInOrder, WriteInProgress, SojournStopsAtEnd, sojVars
<1>3. CASE UNCHANGED vars /\ StartSojourn
  <2>1. input = "off" /\ op = "idle" /\ recvNo = 0 /\ input' = "reading" /\ writes' = writes
    BY <1>3 DEF StartSojourn
  <2>2. writes' = <<>>
    BY <2>1 DEF LookupInv
  <2> QED
    BY <1>3, <2>1, <2>2, TracesKept DEF LookupInv, WritesInOrder, WriteInProgress, SojournStopsAtEnd
<1> QED
  BY <1>1, <1>2, <1>3, SojournStep, WriteKeepsLookup, LookupKeepsLookup

\* For a capture that misses nothing, and segments and writes with no more bytes
\* than the recursion may be deep, calculateSojournTime only stops reading at a
\* write that the trace does not have in full, and never with the exception for
\* a recursion that goes too deep: every call that recurses has passed a range
\* with bytes, and the last range reaches the end of the stream.
THEOREM SojournAlwaysStopsAtEnd ==
    ASSUME CompleteCapture, RecursionLevel >= MaxPayload
    PROVE  SojSpec => []SojournStopsAtEnd
<1>1. SojInit => SojTyped /\ LookupInv
  BY DEF SojInit, SojTyped, SojTypeOK, SojFrames, LookupInv, WritesInOrder, WriteInProgress,
         SojournStopsAtEnd
<1>2. TypeOK /\ PartitionInv /\ SojTyped /\ LookupInv /\ [SojNext]_allVars
        => SojTyped' /\ LookupInv'
  BY SojNextTyped, SojNextLookup
<1>3. SojSpec => []TypeOK
  BY SojournReadsOnly, TypeCorrect, PTL
<1>4. SojSpec => []PartitionInv
  BY SojournReadsOnly, PartitionHolds, PTL
<1>5. LookupInv => SojournStopsAtEnd
  BY DEF LookupInv
<1> QED
  BY <1>1, <1>2, <1>3, <1>4, <1>5, PTL DEF SojSpec

-----------------------------------------------------------------------------
(* Packets and the network. *)

\* Timestamps grow with the time.
LEMMA StampMonotone ==
    ASSUME NEW t \in Nat, NEW u \in Nat, t <= u
    PROVE  tstamp_tcp(t) \in Nat /\ tstamp_tcp(t) <= tstamp_tcp(u)
<1>1. TsTick \in Nat /\ TsTick > 0
  BY TsTickAssumption
<1>2. \A T, a, b \in Nat : T > 0 /\ a <= b =>
        a \div T \in Nat /\ b \div T \in Nat /\ a \div T <= b \div T
  OBVIOUS
<1>3. /\ t \div TsTick \in Nat /\ u \div TsTick \in Nat
      /\ t \div TsTick <= u \div TsTick
  BY <1>1, <1>2
<1> QED
  BY <1>3 DEF tstamp_tcp

\* A list has the packets that it has.
LEMMA PacketsFromItself ==
    ASSUME NEW q
    PROVE  PacketsFrom(q, q, FALSE)
BY DEF PacketsFrom, OnlyPackets

\* A range made from another one, which has the packets of that one and the
\* segment in hand if c holds, keeps to what is on the wire.
LEMMA PacketsPass ==
    ASSUME TypeOK, Typed', NEW k \in Keys, PacketsOnWire(k), NEW j \in Keys',
           j = k \/ (k < j /\ j < ranges[k].endSeq),
           ranges'[j].endSeq <= ranges[k].endSeq,
           HasBytes(k) <=> j < ranges'[j].endSeq,
           NEW c \in BOOLEAN,
           PacketsFrom(ranges'[j].sent_tstamp_pcap, ranges[k].sent_tstamp_pcap, c),
           wire \subseteq wire', clock' \in Nat, clock <= clock', base' = base,
           tcp' = "open" \/ k < nxt' => tcp = "open" \/ k < nxt,
           c => /\ HasBytes(k)
                /\ seg.time \in 1 .. clock
                /\ \A x \in j .. ranges'[j].endSeq - 1 :
                     [seq |-> x, ts |-> tstamp_tcp(seg.time)] \in wire
    PROVE  PacketsOnWire(j)'
<1>1. /\ k \in Nat /\ j \in Nat /\ ranges[k].endSeq \in Nat /\ ranges'[j].endSeq \in Nat
      /\ clock \in Nat
  BY EndType DEF TypeOK, Typed
<1>2. \A t \in PacketsOf(j)' : t \in PacketsOf(k) \/ (c /\ t = seg.time)
  BY DEF PacketsOf, PacketsFrom, OnlyPackets
<1>3. ASSUME NEW t \in PacketsOf(j)'
      PROVE  /\ t \in 1 .. clock'
             /\ \A x \in j .. ranges'[j].endSeq - 1 :
                  [seq |-> x, ts |-> tstamp_tcp(t)] \in wire'
  <2>1. CASE t \in PacketsOf(k)
    <3>1. /\ t \in 1 .. clock
          /\ \A x \in k .. ranges[k].endSeq - 1 : [seq |-> x, ts |-> tstamp_tcp(t)] \in wire
      BY <2>1 DEF PacketsOnWire
    <3>2. t \in 1 .. clock'
      BY <1>1, <3>1
    <3>3. j .. ranges'[j].endSeq - 1 \subseteq k .. ranges[k].endSeq - 1
      BY <1>1
    <3> QED
      BY <3>1, <3>2, <3>3
  <2>2. CASE c /\ t = seg.time
    BY <1>1, <2>2
  <2> QED
    BY <1>2, <2>1, <2>2
<1>4. ASSUME ~(j < ranges'[j].endSeq)
      PROVE  /\ \A t, u \in PacketsOf(j)' : t = u
             /\ base' <= j /\ (tcp' = "open" \/ j < nxt') => PacketsOf(j)' = {}
  <2>1. ~HasBytes(k) /\ ~c
    BY <1>4
  <2>2. j = k
    BY <1>1, <2>1 DEF HasBytes
  <2>3. \A t \in PacketsOf(j)' : t \in PacketsOf(k)
    BY <1>2, <2>1
  <2>4. /\ \A t, u \in PacketsOf(k) : t = u
        /\ base <= k /\ (tcp = "open" \/ k < nxt) => PacketsOf(k) = {}
    BY <2>1 DEF PacketsOnWire
  <2> QED
    BY <2>2, <2>3, <2>4
<1> QED
  BY <1>3, <1>4 DEF PacketsOnWire, HasBytes

\* A range that does not change keeps to what is on the wire.
LEMMA SamePackets ==
    ASSUME TypeOK, Typed', NEW k \in Keys, PacketsOnWire(k), k \in Keys', ranges'[k] = ranges[k],
           wire \subseteq wire', clock' \in Nat, clock <= clock', base' = base,
           tcp' = "open" \/ k < nxt' => tcp = "open" \/ k < nxt
    PROVE  PacketsOnWire(k)'
<1>1. ranges[k].endSeq \in Nat /\ k \in Nat
  BY EndType
<1>2. ranges'[k].endSeq <= ranges[k].endSeq /\ (HasBytes(k) <=> k < ranges'[k].endSeq)
  BY <1>1 DEF HasBytes
<1>3. PacketsFrom(ranges'[k].sent_tstamp_pcap, ranges[k].sent_tstamp_pcap, FALSE)
  BY PacketsFromItself
<1> QED
  BY <1>2, <1>3, PacketsPass

\* A step of insertByteRange or processAck keeps WireInv if it leaves every
\* range with packets that are on the wire.
LEMMA StepKeepsWire ==
    ASSUME WireInv, Fixed, recvNo = 0 => \A j \in Keys' : PacketsOnWire(j)',
           recvNo = 0 /\ op' = "insert" =>
             /\ op = "insert" /\ UNCHANGED seg /\ frame'.itype = frame.itype
             /\ frame'.end = frame.end /\ frame.start <= frame'.start,
           Typed, Typed'
    PROVE  WireInv'
<1>1. UNCHANGED <<clock, base, nxt, tcp, recvNo, wire>>
  BY DEF Fixed, envVars
<1> SUFFICES ASSUME recvNo = 0 PROVE SegmentOnWire' /\ SentInOrder'
  BY <1>1 DEF WireInv
<1>2. SegmentOnWire /\ SentInOrder
  BY DEF WireInv
<1>3. SentInOrder'
  BY <1>1, <1>2 DEF SentInOrder
<1>4. SegmentOnWire'
  <2> SUFFICES ASSUME op' = "insert"
               PROVE  /\ SENT' /\ seg'.time \in 1 .. clock'
                      /\ \A x \in frame'.start .. frame'.end - 1 :
                           [seq |-> x, ts |-> tstamp_tcp(seg'.time)] \in wire'
    BY DEF SegmentOnWire
  <2>1. /\ SENT /\ seg.time \in 1 .. clock
        /\ \A x \in frame.start .. frame.end - 1 :
             [seq |-> x, ts |-> tstamp_tcp(seg.time)] \in wire
    BY <1>2 DEF SegmentOnWire
  <2>2. frame'.start .. frame'.end - 1 \subseteq frame.start .. frame.end - 1
    BY DEF Typed
  <2> QED
    BY <1>1, <2>1, <2>2 DEF SENT
<1> QED
  BY <1>3, <1>4

\* Registering bytes of a segment keeps WireInv.
LEMMA RegistersKeepsWire ==
    ASSUME TypeOK, Typed', StepInv, WireInv, Fixed, NEW upTo \in Nat, Registers(upTo),
           Return \/ (upTo < frame.end /\ Recurse(upTo))
    PROVE  WireInv'
<1>1. /\ op = "insert" /\ frame.start < upTo /\ upTo <= frame.end
      /\ ranges'[frame.start].endSeq = upTo
      /\ \A j \in Keys' : \E k \in Keys :
           PartOf(j, k) /\ Counts(ranges'[j], ranges[k], j = frame.start)
  BY DEF Registers
<1>2. UNCHANGED <<clock, base, nxt, tcp, recvNo, wire>> /\ clock \in Nat
  BY DEF Fixed, envVars, TypeOK
<1>3. ASSUME recvNo = 0, NEW j \in Keys' PROVE PacketsOnWire(j)'
  <2>1. PICK k \in Keys : PartOf(j, k) /\ Counts(ranges'[j], ranges[k], j = frame.start)
    BY <1>1
  <2>2. /\ j = k \/ (k < j /\ j < ranges[k].endSeq)
        /\ ranges'[j].endSeq <= ranges[k].endSeq
        /\ HasBytes(k) <=> j < ranges'[j].endSeq
    BY <2>1 DEF PartOf
  <2>3. PacketsOnWire(k) /\ SegmentOnWire
    BY <1>3 DEF WireInv
  <2>4. SENT /\ seg.time \in 1 .. clock
        /\ \A x \in frame.start .. frame.end - 1 :
             [seq |-> x, ts |-> tstamp_tcp(seg.time)] \in wire
    BY <1>1, <2>3 DEF SegmentOnWire
  <2>5. ASSUME NEW c \in BOOLEAN, c = (j = frame.start) PROVE PacketsOnWire(j)'
    <3>1. PacketsFrom(ranges'[j].sent_tstamp_pcap, ranges[k].sent_tstamp_pcap, c)
      <4>1. (j = frame.start /\ SENT) = c
        BY <2>4, <2>5
      <4> QED
        BY <2>1, <4>1 DEF Counts
    <3>2. ASSUME c
          PROVE  /\ HasBytes(k) /\ seg.time \in 1 .. clock
                 /\ \A x \in j .. ranges'[j].endSeq - 1 :
                      [seq |-> x, ts |-> tstamp_tcp(seg.time)] \in wire
      <4>1. j = frame.start /\ ranges'[j].endSeq = upTo
        BY <1>1, <2>5, <3>2
      <4>2. j .. ranges'[j].endSeq - 1 \subseteq frame.start .. frame.end - 1
        BY <1>1, <4>1 DEF StepInv, Typed
      <4> QED
        BY <1>1, <2>2, <2>4, <4>1, <4>2
    <3>3. clock <= clock' /\ wire \subseteq wire' /\ clock' \in Nat
      BY <1>2
    <3> QED
      BY <1>2, <2>2, <2>3, <3>1, <3>2, <3>3, PacketsPass
  <2> QED
    BY <2>5
<1>4. ASSUME op' = "insert"
      PROVE  /\ UNCHANGED seg /\ frame'.itype = frame.itype
             /\ frame'.end = frame.end /\ frame.start <= frame'.start
  <2>1. Recurse(upTo)
    BY <1>4 DEF Return
  <2>2. frame \in Frames
    BY DEF TypeOK, rmTypeOK
  <2>3. frame'.start = upTo /\ frame'.end = frame.end /\ frame'.itype = frame.itype /\ UNCHANGED seg
    BY <2>1, <2>2 DEF Recurse, Frames
  <2> QED
    BY <1>1, <2>3 DEF StepInv, Typed
<1> QED
  BY <1>1, <1>3, <1>4, StepKeepsWire DEF StepInv

\* So does opening a range: one without bytes that is filled has no packets.
LEMMA OpensKeepsWire ==
    ASSUME TypeOK, Typed', StepInv, WireInv, Fixed, Opens
    PROVE  WireInv'
<1> DEFINE a == frame.start
           r == ranges'[a]
<1>1. /\ op = "insert" /\ ~ZeroLength /\ SENT /\ Return /\ Keys' = Keys \cup {a}
      /\ \A k \in Keys : ranges[k].endSeq <= a /\ (k # a => ranges'[k] = ranges[k])
      /\ r.endSeq = frame.end
      /\ \A t \in PacketTimes(r.sent_tstamp_pcap) :
           t = seg.time \/ (a \in Keys /\ t \in PacketTimes(ranges[a].sent_tstamp_pcap))
  BY DEF Opens
<1>2. UNCHANGED <<clock, base, nxt, tcp, recvNo, wire>> /\ clock \in Nat
  BY DEF Fixed, envVars, TypeOK
<1>3. /\ base \in Nat /\ nxt \in Nat /\ a \in Nat /\ frame.end \in Nat
      /\ base <= a /\ a < frame.end /\ a < nxt
  BY <1>1 DEF StepInv, Typed, CallInStream
<1>4. ASSUME recvNo = 0, NEW j \in Keys' PROVE PacketsOnWire(j)'
  <2>1. SegmentOnWire /\ \A k \in Keys : PacketsOnWire(k)
    BY <1>4 DEF WireInv
  <2>2. CASE j # a
    <3>1. j \in Keys /\ ranges'[j] = ranges[j] /\ PacketsOnWire(j)
      BY <1>1, <2>1, <2>2
    <3>2. clock <= clock' /\ wire \subseteq wire' /\ clock' \in Nat
      BY <1>2
    <3> QED
      BY <1>2, <3>1, <3>2, SamePackets
  <2>3. CASE j = a
    <3>1. ASSUME a \in Keys PROVE PacketTimes(ranges[a].sent_tstamp_pcap) = {}
      <4>1. ~HasBytes(a)
        BY <1>1, <1>3, <3>1, EndType DEF HasBytes
      <4>2. PacketsOf(a) = {}
        BY <1>3, <2>1, <3>1, <4>1 DEF PacketsOnWire
      <4> QED
        BY <4>2 DEF PacketsOf
    <3>2. \A t \in PacketsOf(j)' : t = seg.time
      BY <1>1, <2>3, <3>1 DEF PacketsOf
    <3>3. /\ seg.time \in 1 .. clock
          /\ \A x \in j .. ranges'[j].endSeq - 1 :
               [seq |-> x, ts |-> tstamp_tcp(seg.time)] \in wire
      BY <1>1, <2>1, <2>3 DEF SegmentOnWire
    <3>4. HasBytes(j)'
      BY <1>1, <1>3, <2>3 DEF HasBytes
    <3> QED
      BY <1>2, <2>3, <3>2, <3>3, <3>4 DEF PacketsOnWire
  <2> QED
    BY <2>2, <2>3
<1>5. op' = "idle"
  BY <1>1 DEF Return
<1> QED
  BY <1>4, <1>5, StepKeepsWire DEF StepInv

\* So does a segment without payload: a range has one SYN, FIN or RST that is
\* a packet, and none where data may follow.
LEMMA EmptyKeepsWire ==
    ASSUME TypeOK, Typed', StepInv, EverySent, CallInv, WireInv, Fixed,
           InsertZeroLength \/ UpdateZeroLength
    PROVE  WireInv'
<1>1. UNCHANGED <<clock, base, nxt, tcp, recvNo, wire>> /\ clock \in Nat
  BY DEF Fixed, envVars, TypeOK
<1>2. clock <= clock' /\ wire \subseteq wire' /\ clock' \in Nat
  BY <1>1
<1>3. CASE InsertZeroLength
  <2> DEFINE z == frame.start
             r == ranges'[z]
  <2>1. /\ op = "insert" /\ ZeroLength /\ Return /\ z \notin Keys /\ Keys' = Keys \cup {z}
        /\ \A k \in Keys : ranges'[k] = ranges[k]
        /\ r.endSeq = z
        /\ \A u \in PacketTimes(r.sent_tstamp_pcap) : seg.flag # "none" /\ u = seg.time
    BY <1>3, InsertZeroLengthHistory
  <2>2. z \in Nat /\ op' = "idle"
    BY <2>1 DEF StepInv, Typed, Return
  <2>3. ASSUME recvNo = 0, NEW j \in Keys' PROVE PacketsOnWire(j)'
    <3>1. SegmentOnWire /\ \A k \in Keys : PacketsOnWire(k)
      BY <2>3 DEF WireInv
    <3>2. CASE j # z
      <4>1. j \in Keys /\ ranges'[j] = ranges[j] /\ PacketsOnWire(j)
        BY <2>1, <3>1, <3>2
      <4> QED
        BY <1>1, <1>2, <4>1, SamePackets
    <3>3. CASE j = z
      <4>1. \A u \in PacketsOf(j)' : seg.flag # "none" /\ u = seg.time
        BY <2>1, <3>3 DEF PacketsOf
      <4>2. seg.time \in 1 .. clock
        BY <2>1, <3>1 DEF SegmentOnWire
      <4>3. \A x \in j .. ranges'[j].endSeq - 1 : FALSE
        BY <2>1, <2>2, <3>3
      <4>4. base <= j /\ (tcp = "open" \/ j < nxt) => PacketsOf(j)' = {}
        BY <2>1, <3>3, <4>1, FlagsUncounted
      <4> QED
        BY <1>1, <3>3, <4>1, <4>2, <4>3, <4>4 DEF PacketsOnWire
    <3> QED
      BY <3>2, <3>3
  <2> QED
    BY <2>2, <2>3, StepKeepsWire DEF StepInv
<1>4. CASE UpdateZeroLength
  <2> DEFINE z == start_seq
  <2>1. /\ op = "insert" /\ Return /\ z \in Keys /\ Keys' = Keys
        /\ \A k \in Keys : k # z => ranges'[k] = ranges[k]
        /\ ranges'[z].endSeq = ranges[z].endSeq
        /\ PacketsFrom(ranges'[z].sent_tstamp_pcap, ranges[z].sent_tstamp_pcap, FALSE)
    BY <1>4, UpdateZeroLengthHistory
  <2>2. op' = "idle"
    BY <2>1 DEF Return
  <2> HIDE DEF z
  <2>3. ASSUME recvNo = 0, NEW j \in Keys' PROVE PacketsOnWire(j)'
    <3>1. j \in Keys /\ PacketsOnWire(j)
      BY <2>1, <2>3 DEF WireInv
    <3>2. CASE j # z
      BY <1>1, <1>2, <2>1, <3>1, <3>2, SamePackets
    <3>3. CASE j = z
      <4>1. ranges'[j].endSeq <= ranges[j].endSeq /\ (HasBytes(j) <=> j < ranges'[j].endSeq)
        BY <2>1, <3>1, <3>3, EndType DEF HasBytes
      <4> QED
        BY <1>1, <1>2, <2>1, <3>1, <3>3, <4>1, PacketsPass
    <3> QED
      BY <3>2, <3>3
  <2> QED
    BY <2>2, <2>3, StepKeepsWire DEF StepInv
<1> QED
  BY <1>3, <1>4

\* So does a turn of processAck's loop.
LEMMA AckKeepsWire ==
    ASSUME TypeOK, Typed', StepInv, AckInv, WireInv, Fixed, processAck
    PROVE  WireInv'
<1>1. Marks /\ op' # "insert"
  BY AckStepKeepsAcks
<1>2. UNCHANGED <<clock, base, nxt, tcp, recvNo, wire>> /\ clock \in Nat
  BY DEF Fixed, envVars, TypeOK
<1>3. ASSUME recvNo = 0, NEW j \in Keys' PROVE PacketsOnWire(j)'
  <2>1. PICK k \in Keys : AckPart(j, k)
    BY <1>1 DEF Marks
  <2>2. /\ j = k \/ (k < j /\ j < ranges[k].endSeq)
        /\ ranges'[j].endSeq <= ranges[k].endSeq
        /\ HasBytes(k) <=> j < ranges'[j].endSeq
        /\ PacketsFrom(ranges'[j].sent_tstamp_pcap, ranges[k].sent_tstamp_pcap, FALSE)
    BY <2>1 DEF AckPart, Counts
  <2>3. PacketsOnWire(k)
    BY <1>3 DEF WireInv
  <2>4. clock <= clock' /\ wire \subseteq wire' /\ clock' \in Nat
    BY <1>2
  <2> QED
    BY <1>2, <2>2, <2>3, <2>4, PacketsPass
<1> QED
  BY <1>1, <1>3, StepKeepsWire DEF StepInv

\* A stream from l that ended at n and now ends at m.
LEMMA StreamGrows ==
    ASSUME NEW l \in Nat, NEW n \in Nat, NEW m \in Nat, l <= n, n <= m
    PROVE  /\ n # m => n \in n .. m - 1 /\ m - 1 \in n .. m - 1
           /\ \A x \in n .. m - 1 : x \in l .. m - 1 /\ x \in Nat /\ x >= n /\ x < m /\ n # m
           /\ \A x \in l .. m - 1 : x \in l .. n - 1 \/ x \in n .. m - 1
           /\ \A e \in Nat : m - 1 < e /\ e <= m => e = m
           /\ \A a \in Nat : a < m => \A x \in l .. a : x \in l .. m - 1
           /\ \A a \in Nat, x \in n .. m - 1 : a <= n => x \in a .. m - 1
OBVIOUS

\* New data is the segment in hand, from where the stream ended.
LEMMA NewDataSent ==
    ASSUME TypeOK, TypeOK', PartitionInv, PartitionInv', Sends, nxt' # nxt
    PROVE  seg'.seq <= nxt /\ seg'.endSeq = nxt' /\ seg'.seq # seg'.endSeq
<1> SUFFICES ASSUME NEW m \in Nat, nxt' = m
             PROVE  seg'.seq <= nxt /\ seg'.endSeq = m /\ seg'.seq # seg'.endSeq
  BY DEF TypeOK
<1>1. /\ op' = "insert" /\ frame'.start = seg'.seq /\ frame'.end = seg'.endSeq
      /\ UNCHANGED <<ranges, base>> /\ nxt <= m /\ nxt' = m /\ m # nxt
  BY DEF Sends
<1>2. /\ nxt \in Nat /\ m \in Nat /\ base \in Nat /\ base <= nxt
      /\ seg'.seq \in Nat /\ seg'.endSeq \in Nat
  BY DEF TypeOK, rmTypeOK, Segments, PartitionInv
<1>3. ASSUME NEW x \in nxt .. m - 1
      PROVE  Inserting' /\ seg'.seq <= x /\ x < seg'.endSeq
  <2>1. ASSUME NEW k \in Keys, Covers(k, x) PROVE FALSE
    <3>1. k \in Nat /\ ranges[k].endSeq \in Nat /\ k < ranges[k].endSeq
      BY <1>2, <2>1, EndType DEF Covers
    <3>2. ranges[k].endSeq <= nxt
      BY <3>1 DEF PartitionInv, RangesInStream
    <3> QED
      BY <1>2, <2>1, <3>1, <3>2 DEF Covers
  <2>2. ~\E k \in Keys' : Covers(k, x)'
    BY <1>1, <2>1 DEF Keys, Covers
  <2>3. op' \notin Failures /\ x \in base .. m - 1
    BY <1>1, <1>2, StreamGrows DEF Failures
  <2>4. Frontier'
    BY DEF PartitionInv
  <2> QED
    BY <1>1, <2>2, <2>3, <2>4 DEF Frontier
<1>4. nxt \in nxt .. m - 1 /\ m - 1 \in nxt .. m - 1
  BY <1>1, <1>2, StreamGrows
<1>5. /\ Inserting' /\ seg'.seq <= nxt /\ nxt < seg'.endSeq /\ m - 1 < seg'.endSeq
  BY <1>3, <1>4
<1>6. seg'.endSeq <= m
  BY <1>1, <1>5 DEF PartitionInv, CallInStream, Inserting
<1>7. seg'.endSeq = m
  BY <1>1, <1>2, <1>5, <1>6, StreamGrows
<1> QED
  BY <1>1, <1>2, <1>5, <1>7

\* Sending keeps the order on the wire: a byte that is sent for the first time
\* follows the others, and none is sent behind it without it.
LEMMA SendsInOrder ==
    ASSUME MaxRecv # 0, TypeOK, TypeOK', PartitionInv, PartitionInv', SentInOrder, Sends
    PROVE  SentInOrder'
<1> SUFFICES ASSUME NEW m \in Nat, nxt' = m PROVE SentInOrder'
  BY DEF TypeOK
<1>1. /\ op' = "insert" /\ frame'.start = seg'.seq /\ frame'.end = seg'.endSeq
      /\ UNCHANGED base /\ clock' = clock + 1 /\ nxt <= m /\ nxt' = m
      /\ m # nxt => tcp = "open"
      /\ tcp' = "open" => tcp = "open"
      /\ wire \subseteq wire'
      /\ seg'.seq = seg'.endSeq /\ tcp' = "open" =>
            seg'.flag = "none" \/ (base = 1 /\ seg'.seq = 0)
  BY DEF Sends, Transmits
<1>0. wire' \subseteq StampedBytes
  BY DEF TypeOK
<1>2. /\ nxt \in Nat /\ m \in Nat /\ base \in Nat /\ base <= nxt /\ clock \in Nat
      /\ seg'.seq \in Nat /\ seg'.endSeq \in Nat
  BY DEF TypeOK, rmTypeOK, Segments, PartitionInv
<1>11. base \in Nat /\ nxt \in Nat /\ m \in Nat /\ base <= nxt /\ nxt <= m
  BY <1>1, <1>2
<1> DEFINE now == tstamp_tcp(clock + 1)
<1>3. \A p \in wire' \ wire :
        /\ p.ts = now
        /\ \/ seg'.seq <= p.seq /\ p.seq < seg'.endSeq
           \/ p.seq = seg'.seq /\ seg'.seq = seg'.endSeq /\ seg'.flag \in {"syn", "fin"}
  BY DEF Sends, Transmits
<1>4. \A x \in seg'.seq .. seg'.endSeq - 1 : [seq |-> x, ts |-> now] \in wire'
  BY DEF Sends, Transmits
<1>5. \A q \in wire : q.ts <= now
  <2> SUFFICES ASSUME NEW q \in wire PROVE q.ts <= now
    OBVIOUS
  <2>1. PICK t \in 1 .. clock : q.ts = tstamp_tcp(t)
    BY DEF SentInOrder
  <2>2. t \in Nat /\ clock + 1 \in Nat /\ t <= clock + 1
    BY <1>2
  <2> QED
    BY <2>1, <2>2, StampMonotone
<1>6. now \in Nat
  BY <1>2, StampMonotone
<1> HIDE DEF now
<1>7. ASSUME NEW y \in nxt .. m - 1
      PROVE  y \in Nat /\ \E q \in wire' : q.seq = y /\ q.ts = now
  <2>1. m # nxt /\ y \in Nat
    BY <1>11
  <2>2. seg'.seq <= nxt /\ seg'.endSeq = m
    BY <1>1, <2>1, NewDataSent
  <2>3. y \in seg'.seq .. seg'.endSeq - 1
    BY <1>2, <1>11, <2>2, StreamGrows
  <2>4. [seq |-> y, ts |-> now] \in wire'
    BY <1>4, <2>3
  <2> QED
    BY <2>1, <2>4
<1>8. ASSUME NEW y \in base .. m - 1
      PROVE  \E q \in wire' : q.seq = y /\ q.ts <= now
  <2>1. CASE y \in base .. nxt - 1
    <3>2. PICK q \in wire : q.seq = y
      BY <2>1 DEF SentInOrder
    <3> QED
      BY <1>1, <1>5, <3>2
  <2>2. CASE y \in nxt .. m - 1
    <3>2. PICK q \in wire' : q.seq = y /\ q.ts = now
      BY <1>7, <2>2
    <3> QED
      BY <1>6, <3>2
  <2> QED
    BY <1>11, <2>1, <2>2, StreamGrows
<1>9. ASSUME NEW p \in wire'
      PROVE  /\ \E t \in 1 .. clock' : p.ts = tstamp_tcp(t)
             /\ p.seq < m => \A y \in base .. p.seq : \E q \in wire' : q.seq = y /\ q.ts <= p.ts
             /\ tcp' = "open" => p.seq < m
  <2>1. p.seq \in Nat /\ p.ts \in Nat
    BY <1>0 DEF StampedBytes
  <2>2. CASE p \in wire
    <3>1. PICK t \in 1 .. clock : p.ts = tstamp_tcp(t)
      BY <2>2 DEF SentInOrder
    <3>2. t \in 1 .. clock'
      BY <1>1, <1>2
    <3>3. tcp = "open" => p.seq < nxt
      BY <2>2 DEF SentInOrder
    <3>4. p.seq < m => p.seq < nxt
      BY <1>1, <1>2, <2>1, <3>3
    <3>5. p.seq < nxt => \A y \in base .. p.seq : \E q \in wire : q.seq = y /\ q.ts <= p.ts
      BY <2>2 DEF SentInOrder
    <3>6. tcp' = "open" => p.seq < m
      BY <1>1, <1>2, <2>1, <3>3
    <3> QED
      BY <1>1, <3>1, <3>2, <3>4, <3>5, <3>6
  <2>3. CASE p \notin wire
    <3>1. p.ts = now
      BY <1>3, <2>3
    <3>2. clock + 1 \in 1 .. clock' /\ p.ts = tstamp_tcp(clock + 1)
      BY <1>1, <1>2, <3>1 DEF now
    <3>3. ASSUME p.seq < m, NEW y \in base .. p.seq
          PROVE  \E q \in wire' : q.seq = y /\ q.ts <= p.ts
      <4>1. y \in base .. m - 1
        BY <1>1, <1>11, <2>1, <3>3, StreamGrows
      <4> QED
        BY <1>8, <3>1, <4>1
    <3>4. ASSUME tcp' = "open" PROVE p.seq < m
      <4>1. CASE seg'.seq = seg'.endSeq
        <5>1. p.seq = seg'.seq /\ seg'.flag \in {"syn", "fin"}
          BY <1>2, <1>3, <2>1, <2>3, <4>1
        <5>2. base = 1 /\ p.seq = 0
          BY <1>1, <3>4, <4>1, <5>1
        <5> QED
          BY <1>1, <1>2, <5>2
      <4>2. CASE seg'.seq # seg'.endSeq
        <5>1. p.seq < seg'.endSeq
          BY <1>3, <2>3, <4>2
        <5>2. seg'.endSeq <= m
          BY <1>1, <4>2 DEF PartitionInv, CallInStream, ZeroLength
        <5> QED
          BY <1>2, <2>1, <5>1, <5>2
      <4> QED
        BY <4>1, <4>2
    <3> QED
      BY <3>2, <3>3, <3>4
  <2> QED
    BY <2>2, <2>3
<1>10. \A y \in base' .. nxt' - 1 : \E q \in wire' : q.seq = y
  BY <1>1, <1>8
<1> QED
  BY <1>1, <1>9, <1>10 DEF SentInOrder

\* Sending keeps WireInv.
LEMMA SendsKeepsWire ==
    ASSUME MaxRecv # 0, TypeOK, TypeOK', PartitionInv, PartitionInv', WireInv, Sends
    PROVE  WireInv'
<1>1. /\ op' = "insert" /\ frame'.itype = "INSERT_SENT"
      /\ frame'.start = seg'.seq /\ frame'.end = seg'.endSeq
      /\ UNCHANGED <<ranges, base, recvNo>> /\ clock' = clock + 1 /\ seg'.time = clock + 1
      /\ nxt <= nxt' /\ (nxt' # nxt => tcp = "open") /\ (tcp' = "open" => tcp = "open")
      /\ wire \subseteq wire'
      /\ \A x \in seg'.seq .. seg'.endSeq - 1 :
           [seq |-> x, ts |-> tstamp_tcp(clock + 1)] \in wire'
  BY DEF Sends, Transmits
<1>2. clock \in Nat /\ nxt \in Nat /\ nxt' \in Nat /\ Keys' = Keys /\ Typed'
  BY <1>1, TypedNext DEF TypeOK, Keys
<1>3. clock <= clock' /\ clock' \in Nat /\ clock + 1 \in 1 .. clock'
  BY <1>1, <1>2
<1> SUFFICES ASSUME recvNo = 0 PROVE WireInv'
  BY <1>1 DEF WireInv
<1>4. (\A k \in Keys : PacketsOnWire(k)) /\ SentInOrder
  BY DEF WireInv
<1>5. ASSUME NEW k \in Keys PROVE PacketsOnWire(k)'
  <2>1. k \in Keys' /\ ranges'[k] = ranges[k] /\ PacketsOnWire(k) /\ k \in Nat
    BY <1>1, <1>2, <1>4, EndType
  <2>2. tcp' = "open" \/ k < nxt' => tcp = "open" \/ k < nxt
    BY <1>1
  <2> QED
    BY <1>1, <1>2, <1>3, <2>1, <2>2, SamePackets
<1>6. SegmentOnWire'
  BY <1>1, <1>3 DEF SegmentOnWire, SENT
<1> QED
  BY <1>2, <1>4, <1>5, <1>6, SendsInOrder DEF WireInv

\* A step that changes neither the ranges nor what was sent keeps WireInv.
LEMMA OtherKeepsWire ==
    ASSUME TypeOK, Typed', WireInv, UNCHANGED <<ranges, base, nxt, tcp, wire, recvNo>>,
           clock' \in Nat, clock <= clock',
           op' # "insert" \/ UNCHANGED <<op, frame, seg, clock>>
    PROVE  WireInv'
<1>1. clock \in Nat /\ Keys' = Keys
  BY DEF TypeOK, Keys
<1> SUFFICES ASSUME recvNo = 0 PROVE WireInv'
  BY DEF WireInv
<1>2. (\A k \in Keys : PacketsOnWire(k)) /\ SentInOrder /\ SegmentOnWire
  BY DEF WireInv
<1>3. \A k \in Keys : PacketsOnWire(k)'
  BY <1>1, <1>2, SamePackets
<1>4. SegmentOnWire'
  BY <1>2 DEF SegmentOnWire, SENT
<1>5. SentInOrder'
  <2>1. 1 .. clock \subseteq 1 .. clock'
    BY <1>1
  <2> QED
    BY <1>2, <2>1 DEF SentInOrder
<1> QED
  BY <1>1, <1>3, <1>4, <1>5 DEF WireInv

\* Every step keeps WireInv.
LEMMA NextWire ==
    ASSUME RegularTrace, MaxRecv # 0, RegularInv, RegularInv', WireInv, [Next]_vars
    PROVE  WireInv'
<1>1. /\ TypeOK /\ TypeOK' /\ Typed /\ Typed' /\ StepInv /\ AckInv /\ EverySent
      /\ CountersInv /\ PartitionInv /\ PartitionInv' /\ CallInv
  <2>1. /\ TypeOK /\ TypeOK' /\ CountersInv /\ PartitionInv /\ AckInv /\ CallInv
        /\ PartitionInv'
    BY DEF CountersInv, InOrderInv, RegularInv
  <2>2. Typed /\ Typed'
    BY <2>1, TypedFrom, TypedNext
  <2> QED
    BY <2>1, <2>2 DEF StepInv, PartitionInv, AckInv
<1>2. CompleteCapture
  BY DEF RegularTrace, InOrderCapture
<1>3. clock \in Nat /\ clock' \in Nat /\ clock <= clock
  BY <1>1 DEF TypeOK
<1>4. CASE UNCHANGED vars
  <2>1. UNCHANGED <<ranges, base, nxt, tcp, wire, recvNo, op, frame, seg, clock>>
    BY <1>4 DEF vars, rmVars, envVars
  <2>2. clock <= clock'
    BY <1>3, <2>1
  <2> QED
    BY <1>1, <1>3, <2>1, <2>2, OtherKeepsWire
<1>5. CASE RangeManagerStep
  <2>1. Fixed
    BY <1>5 DEF RangeManagerStep, Fixed
  <2>2. CASE insertByteRange
    <3>1. \/ InsertZeroLength \/ UpdateZeroLength
          \/ Opens
          \/ \E upTo \in Nat :
               Registers(upTo) /\ ((upTo = frame.end /\ Return) \/ (upTo < frame.end /\ Recurse(upTo)))
      BY <1>1, <2>1, <2>2, InsertStepKeepsCalls
    <3> QED
      BY <1>1, <2>1, <3>1, EmptyKeepsWire, OpensKeepsWire, RegistersKeepsWire
  <2>3. CASE processAck
    BY <1>1, <2>1, <2>3, AckKeepsWire
  <2> QED
    BY <1>5, <2>2, <2>3 DEF RangeManagerStep
<1>6. CASE SendStep
  BY <1>1, <1>2, <1>6, SendStepSends, SendsKeepsWire
<1>7. ASSUME NEW n \in 1 .. MaxPayload, DropNew(n) PROVE FALSE
  BY <1>2, <1>7 DEF DropNew, CompleteCapture
<1>8. ASSUME NEW a \in 0 .. MaxSeq + 2, NEW echo \in BOOLEAN, AckArrives(a, echo)
      PROVE  WireInv'
  <2>1. /\ UNCHANGED <<ranges, base, nxt, tcp, wire, recvNo>> /\ op' = "idle"
        /\ clock' = clock + 1
    BY <1>8 DEF AckArrives, rmVars
  <2>2. clock <= clock'
    BY <1>3, <2>1
  <2> QED
    BY <1>1, <1>3, <2>1, <2>2, OtherKeepsWire
<1>9. ASSUME NEW s \in 0 .. MaxSeq + 1, NEW n \in 0 .. MaxPayload,
             NEW flag \in {"none", "syn", "fin"},
             NEW ts \in {0} \cup {p.ts : p \in wire \cup arrived}, processRecvd(s, s + n, flag, ts)
      PROVE  WireInv'
  <2>1. recvNo' = recvNo + 1 /\ recvNo \in Nat
    BY <1>1, <1>9 DEF processRecvd, TypeOK
  <2>2. recvNo' # 0
    BY <2>1
  <2> QED
    BY <2>2 DEF WireInv
<1>10. CASE StartAcks \/ StartRecv \/ processAcks
  <2>1. /\ UNCHANGED <<ranges, base, nxt, tcp, wire, recvNo, clock>>
        /\ op' \in {"idle", "ack"}
    BY <1>10 DEF StartAcks, StartRecv, rmVars, processAcks, CallAck
  <2>2. clock <= clock' /\ op' # "insert"
    BY <1>3, <2>1
  <2> QED
    BY <1>1, <1>3, <2>1, <2>2, OtherKeepsWire
<1> QED
  BY <1>4, <1>5, <1>6, <1>7, <1>8, <1>9, <1>10, NextCases

\* As long as nothing has been read of the receiver's trace, a packet of a range
\* stands for a transmission of all of its bytes, and no byte was sent before
\* the ones in front of it.
LEMMA WireHolds ==
    ASSUME RegularTrace, MaxRecv # 0
    PROVE  Spec => []WireInv
<1>1. Init => WireInv
  <2> SUFFICES ASSUME Init PROVE WireInv
    OBVIOUS
  <2>1. Keys = {} /\ op = "idle" /\ wire = {} /\ nxt = base
    BY DEF Init, rmInit, Keys
  <2>2. base \in Nat
    BY InitCounters DEF CountersInv, TypeOK
  <2>3. \A y \in base .. nxt - 1 : FALSE
    BY <2>1, <2>2
  <2> QED
    BY <2>1, <2>3 DEF WireInv, SegmentOnWire, SentInOrder
<1>2. RegularInv /\ RegularInv' /\ WireInv /\ [Next]_vars => WireInv'
  BY NextWire
<1> QED
  BY <1>1, <1>2, RegularHolds, PTL DEF Spec

-----------------------------------------------------------------------------
(* The times of the writes. *)

\* The greatest element of a set of numbers is one of them.
LEMMA MaxIn ==
    ASSUME NEW n \in Nat, NEW S \in SUBSET (1 .. n), S # {}
    PROVE  Max(S) \in S
<1> DEFINE B == {n - x : x \in S}
<1>1. B \in SUBSET Nat /\ B # {}
  <2>1. \A x \in S : n - x \in Nat
    OBVIOUS
  <2> QED
    BY <2>1
<1>2. PICK b \in B : \A c \in B : b <= c
  BY <1>1, LeastNatural
<1>3. PICK x \in S : b = n - x
  OBVIOUS
<1>4. ASSUME NEW y \in S PROVE x >= y
  <2>1. n - y \in B /\ x \in Nat /\ y \in Nat
    OBVIOUS
  <2>2. n - x <= n - y
    BY <1>2, <1>3, <2>1
  <2> QED
    BY <2>1, <2>2
<1>5. \E m \in S : \A y \in S : m >= y
  BY <1>4
<1> QED
  BY <1>5 DEF Max

\* The first and the last packet of a range are among its packets.
LEMMA EntryTimes ==
    ASSUME TypeOK, NEW k \in Keys
    PROVE  /\ \A t \in PacketsOf(k) : t \in Nat
           /\ PacketEntries(k) # {} =>
                /\ ranges[k].sent_tstamp_pcap[Max(PacketEntries(k))].time \in PacketsOf(k)
                /\ ranges[k].sent_tstamp_pcap[Min(PacketEntries(k))].time \in PacketsOf(k)
<1> DEFINE q == ranges[k].sent_tstamp_pcap
<1>1. q \in Seq(Transmissions) /\ Len(q) \in Nat /\ DOMAIN q = 1 .. Len(q)
  BY DEF TypeOK, rmTypeOK, Keys, ByteRanges, SentLists
<1>2. /\ PacketEntries(k) = {i \in DOMAIN q : q[i].sent_t = "ST_PKT"}
      /\ PacketsOf(k) = {q[i].time : i \in PacketEntries(k)}
  BY DEF PacketEntries, PacketsOf, PacketTimes
<1> HIDE DEF q
<1>3. \A i \in DOMAIN q : q[i].time \in Nat
  <2>1. \A i \in DOMAIN q : q[i] \in Transmissions
    BY <1>1
  <2> QED
    BY <2>1 DEF Transmissions
<1>4. \A t \in PacketsOf(k) : t \in Nat
  BY <1>2, <1>3
<1>5. ASSUME PacketEntries(k) # {}
      PROVE  Max(PacketEntries(k)) \in PacketEntries(k) /\ Min(PacketEntries(k)) \in PacketEntries(k)
  <2>1. PacketEntries(k) \in SUBSET (1 .. Len(q)) /\ PacketEntries(k) \in SUBSET Nat
    BY <1>1, <1>2
  <2> QED
    BY <1>1, <1>5, <2>1, MinIn, MaxIn
<1> QED
  BY <1>2, <1>4, <1>5 DEF q

\* A byte that was sent at t was first sent then or before.
LEMMA FirstSentBefore ==
    ASSUME TypeOK, NEW x \in Nat, NEW t \in 1 .. clock, [seq |-> x, ts |-> tstamp_tcp(t)] \in wire
    PROVE  FirstSent(x) \in Nat /\ FirstSent(x) <= t
<1> DEFINE sent == {u \in 1 .. clock : [seq |-> x, ts |-> tstamp_tcp(u)] \in wire}
<1>1. t \in sent
  OBVIOUS
<1>2. sent \in SUBSET Nat
  BY DEF TypeOK
<1>3. FirstSent(x) = IF sent = {} THEN clock ELSE Min(sent)
  BY DEF FirstSent
<1> HIDE DEF sent
<1>4. FirstSent(x) = Min(sent) /\ sent # {}
  BY <1>1, <1>3
<1>5. Min(sent) \in sent /\ Min(sent) <= t
  BY <1>1, <1>2, <1>4, MinIn
<1> QED
  BY <1>2, <1>4, <1>5

\* A write that begins in front of the end of a range is not later than any of
\* its packets, as it is not later than its own first byte is sent.
LEMMA WriteBeforePackets ==
    ASSUME TypeOK, PartitionInv, WireInv, recvNo = 0, NEW k \in Keys, HasBytes(k),
           NEW x \in Nat, base <= x, x < ranges[k].endSeq, NEW t \in PacketsOf(k)
    PROVE  FirstSent(x) <= t
<1>1. k \in Nat /\ ranges[k].endSeq \in Nat /\ k < ranges[k].endSeq /\ nxt \in Nat /\ base \in Nat
  BY EndType DEF HasBytes, TypeOK
<1>2. PacketsOnWire(k) /\ SentInOrder
  BY DEF WireInv
<1>3. /\ t \in 1 .. clock
      /\ \A y \in k .. ranges[k].endSeq - 1 : [seq |-> y, ts |-> tstamp_tcp(t)] \in wire
  BY <1>2 DEF PacketsOnWire
<1>4. CASE k <= x
  <2>1. x \in k .. ranges[k].endSeq - 1
    BY <1>1, <1>4
  <2> QED
    BY <1>3, <2>1, FirstSentBefore
<1>5. CASE x < k
  <2>1. k \in k .. ranges[k].endSeq - 1 /\ x \in base .. k
    BY <1>1, <1>5
  <2> DEFINE p == [seq |-> k, ts |-> tstamp_tcp(t)]
  <2>2. p \in wire /\ p.seq = k /\ p.ts = tstamp_tcp(t)
    BY <1>3, <2>1
  <2>3. ranges[k].endSeq <= nxt
    BY <1>1 DEF PartitionInv, RangesInStream
  <2>4. p.seq < nxt
    BY <1>1, <2>2, <2>3
  <2> HIDE DEF p
  <2>5. PICK q \in wire : q.seq = x /\ q.ts <= p.ts
    BY <1>2, <2>1, <2>2, <2>4 DEF SentInOrder
  <2>6. PICK u \in 1 .. clock : q.ts = tstamp_tcp(u)
    BY <1>2 DEF SentInOrder
  <2>7. q = [seq |-> x, ts |-> tstamp_tcp(u)]
    <3>1. q \in StampedBytes
      BY DEF TypeOK
    <3> QED
      BY <2>5, <2>6, <3>1 DEF StampedBytes
  <2>8. t \in Nat /\ u \in Nat /\ clock \in Nat
    BY <1>3 DEF TypeOK
  <2>9. CASE u <= t
    <3>1. FirstSent(x) \in Nat /\ FirstSent(x) <= u
      BY <2>7, FirstSentBefore
    <3> QED
      BY <2>8, <2>9, <3>1
  <2>10. CASE t <= u
    <3>1. tstamp_tcp(t) <= tstamp_tcp(u) /\ tstamp_tcp(t) \in Nat /\ tstamp_tcp(u) \in Nat
      BY <2>8, <2>10, StampMonotone
    <3>2. tstamp_tcp(u) = tstamp_tcp(t)
      BY <2>2, <2>5, <2>6, <3>1
    <3>3. [seq |-> x, ts |-> tstamp_tcp(t)] \in wire
      BY <2>7, <3>2
    <3> QED
      BY <1>3, <3>3, FirstSentBefore
  <2> QED
    BY <2>8, <2>9, <2>10
<1> QED
  BY <1>1, <1>4, <1>5

-----------------------------------------------------------------------------
(* The parts of a range. *)

\* The ranges and their packets stay as they are.
LEMMA SameRanges ==
    ASSUME UNCHANGED vars, NEW k \in Keys
    PROVE  /\ k \in Keys' /\ ranges'[k] = ranges[k]
           /\ PacketsOf(k)' = PacketsOf(k) /\ PacketEntries(k)' = PacketEntries(k)
           /\ HasBytes(k)' <=> HasBytes(k)
           /\ \A w : Straddles(w, k)' <=> Straddles(w, k)
BY TracesKept DEF PacketsOf, PacketEntries, HasBytes, Straddles

\* What SojInv says of the times.
PartsInv == WrittenBeforeSent /\ \A k \in Keys : PartsKnown(k)

\* Nothing is attributed at first.
LEMMA StartParts ==
    ASSUME TypeOK, CallInv, LookupInv, StartSojourn, UNCHANGED vars
    PROVE  PartsInv'
<1>1. /\ input' = "reading" /\ writes' = <<>>
      /\ sojourn_tstamps' = [k \in Keys |-> <<>>]
  BY DEF StartSojourn, LookupInv
<1>2. Keys' = Keys /\ base' = base /\ base \in Nat
  BY TracesKept DEF TypeOK
<1>3. Progress' = base
  BY <1>1, <1>2 DEF Progress, Written
<1>4. DOMAIN writes' = {}
  BY <1>1
<1>5. WrittenBeforeSent'
  BY <1>4 DEF WrittenBeforeSent
<1>6. ASSUME NEW k \in Keys PROVE PartsKnown(k)'
  <2>1. sojourn_tstamps'[k] = <<>> /\ DOMAIN sojourn_tstamps'[k] = {}
    BY <1>1
  <2>2. /\ k \in Nat /\ ranges[k].endSeq \in Nat /\ ranges'[k] = ranges[k]
        /\ HasBytes(k)' <=> HasBytes(k)
    BY EndType, SameRanges
  <2>3. HasBytes(k) => base <= k
    BY CallParts DEF SoundRange
  <2>4. HasBytes(k)' => base <= k
    BY <2>2, <2>3
  <2>5. HasBytes(k)' => ~(k < Progress')
    BY <1>2, <1>3, <2>2, <2>4
  <2>6. ASSUME HasBytes(k)', NEW x \in k .. ranges'[k].endSeq - 1, x < Progress' PROVE FALSE
    BY <1>2, <1>3, <2>2, <2>4, <2>6
  <2> QED
    BY <2>1, <2>5, <2>6 DEF PartsKnown
<1> QED
  BY <1>2, <1>5, <1>6 DEF PartsInv

\* A part that is known stays known when lines are added to the input.
LEMMA WriteKeepsParts ==
    ASSUME TypeOK, PartitionInv, WireInv, SojTyped, LookupInv, LookupInv', PartsInv, UNCHANGED vars,
           NEW n \in 1 .. MaxPayload, NEW time \in 0 .. clock, calculateSojournTime(n, time)
    PROVE  PartsInv'
<1> DEFINE w == [seq |-> Written, endSeq |-> Written + n, time |-> time]
<1>1. /\ input = "reading" /\ input' = "insert" /\ writes' = Append(writes, w)
      /\ sojFrame' = [start |-> Written, level |-> 0]
      /\ sojourn_tstamps' = sojourn_tstamps
      /\ time <= FirstSent(Written)
  BY DEF calculateSojournTime
<1>2. SojTypeOK /\ writes \in Seq(Writes) /\ Len(writes) \in Nat /\ DOMAIN writes = 1 .. Len(writes)
  BY DEF SojTyped, SojTypeOK
<1>3. Written \in Nat /\ time \in Nat /\ base \in Nat
  BY <1>2, WriteType DEF TypeOK
<1>4. w.seq = Written /\ w.time = time
  OBVIOUS
<1> HIDE DEF w
<1>5. /\ DOMAIN writes' = DOMAIN writes \cup {Len(writes) + 1}
      /\ writes'[Len(writes) + 1] = w
      /\ \A i \in DOMAIN writes : writes'[i] = writes[i]
  BY <1>1, <1>2
<1>6. Progress' = Written /\ Progress = Written
  BY <1>1 DEF Progress
<1>7. Keys' = Keys /\ recvNo = 0
  BY <1>1, TracesKept DEF LookupInv
<1>8. base <= Written
  <2>1. Write'.seq <= sojFrame'.start /\ writes' # <<>>
    BY <1>1 DEF LookupInv, WriteInProgress
  <2>2. Len(writes) + 1 \in DOMAIN writes'
    BY <1>5
  <2>3. base' <= writes'[Len(writes) + 1].seq
    BY <2>2 DEF LookupInv, WritesInOrder
  <2> QED
    BY <1>4, <1>5, <2>3, TracesKept
<1>9. WrittenBeforeSent'
  <2> SUFFICES ASSUME NEW i \in DOMAIN writes', NEW k \in Keys, HasBytes(k),
                      writes'[i].seq < ranges[k].endSeq, NEW t \in PacketsOf(k)
               PROVE  writes'[i].time <= t
    BY <1>7, SameRanges DEF WrittenBeforeSent
  <2>1. CASE i \in DOMAIN writes
    BY <1>5, <2>1 DEF PartsInv, WrittenBeforeSent
  <2>2. CASE i = Len(writes) + 1
    <3>1. writes'[i].time = time /\ Written < ranges[k].endSeq
      BY <1>4, <1>5, <2>2
    <3>2. FirstSent(Written) <= t
      BY <1>3, <1>7, <1>8, <3>1, WriteBeforePackets
    <3>3. t \in Nat
      BY EntryTimes
    <3>4. FirstSent(Written) \in Nat
      <4>1. CASE {u \in 1 .. clock : [seq |-> Written, ts |-> tstamp_tcp(u)] \in wire} = {}
        BY <4>1 DEF FirstSent, TypeOK
      <4>2. CASE {u \in 1 .. clock : [seq |-> Written, ts |-> tstamp_tcp(u)] \in wire} # {}
        BY <1>3, <4>2, FirstSentBefore
      <4> QED
        BY <4>1, <4>2
    <3> QED
      BY <1>1, <1>3, <3>1, <3>2, <3>3, <3>4
  <2> QED
    BY <1>5, <2>1, <2>2
<1>10. ASSUME NEW k \in Keys PROVE PartsKnown(k)'
  <2> DEFINE parts == sojourn_tstamps[k]
  <2>1. /\ ranges'[k] = ranges[k] /\ PacketsOf(k)' = PacketsOf(k)
        /\ PacketEntries(k)' = PacketEntries(k)
        /\ HasBytes(k)' <=> HasBytes(k)
        /\ \A v : Straddles(v, k)' <=> Straddles(v, k)
    BY SameRanges
  <2>2. PartsKnown(k) /\ sojourn_tstamps'[k] = parts
    BY <1>1 DEF PartsInv
  <2>3. \A i : PartStart(k, i)' = PartStart(k, i)
    BY <1>1 DEF PartStart
  <2>4. ASSUME NEW i \in DOMAIN parts PROVE PartKnown(k, i)'
    <3>1. PartKnown(k, i)
      BY <2>2 DEF PartsKnown
    <3>2. ASSUME HasBytes(k)
          PROVE  \E j \in DOMAIN writes' :
                   /\ writes'[j].seq <= PartStart(k, i) /\ parts[i].seq <= writes'[j].endSeq
                   /\ parts[i].time = writes'[j].time
                   /\ ~Straddles(writes'[j], k)
      <4>1. PICK j \in DOMAIN writes :
                   /\ writes[j].seq <= PartStart(k, i) /\ parts[i].seq <= writes[j].endSeq
                   /\ parts[i].time = writes[j].time
                   /\ ~Straddles(writes[j], k)
        BY <3>1, <3>2 DEF PartKnown
      <4>2. j \in DOMAIN writes' /\ writes'[j] = writes[j]
        BY <1>5
      <4> QED
        BY <4>1, <4>2
    <3> QED
      BY <2>1, <2>2, <2>3, <3>1, <3>2 DEF PartKnown, Straddles
  <2>5. ASSUME NEW x \in k .. ranges[k].endSeq - 1, x < Written, LookedUp(k, x)
        PROVE  LookedUp(k, x)'
    <3> SUFFICES ASSUME NEW i \in DOMAIN writes', writes'[i].seq <= x, x < writes'[i].endSeq,
                        ~Straddles(writes'[i], k)
                 PROVE  \E m \in DOMAIN parts : PartStart(k, m) <= x /\ x < parts[m].seq
      BY <2>1, <2>2, <2>3 DEF LookedUp, Straddles
    <3>1. x \in Nat
      BY EndType
    <3>2. i \in DOMAIN writes /\ writes'[i] = writes[i]
      BY <1>3, <1>4, <1>5, <2>5, <3>1
    <3> QED
      BY <2>5, <3>2 DEF LookedUp
  <2> QED
    BY <1>1, <1>6, <2>1, <2>2, <2>4, <2>5 DEF PartsKnown
<1> QED
  BY <1>7, <1>9, <1>10 DEF PartsInv

\* The same parts are known of a range to which no time is added, unless bytes
\* of it are passed over.
LEMMA PartsStay ==
    ASSUME UNCHANGED vars, writes' = writes, input = "insert",
           NEW k \in Keys, PartsKnown(k), sojourn_tstamps'[k] = sojourn_tstamps[k],
           input' \in {"reading", "insert"} /\ HasBytes(k) /\ PacketEntries(k) # {} =>
             /\ Progress' <= k => Progress <= k
             /\ ~(k < Progress' /\ Progress' < ranges[k].endSeq) \/ Progress' = Progress
             /\ \A x \in k .. ranges[k].endSeq - 1 :
                  x < Progress' => x < Progress \/ LookedUp(k, x)
    PROVE  PartsKnown(k)'
<1> DEFINE parts == sojourn_tstamps[k]
<1>1. /\ ranges'[k] = ranges[k] /\ PacketsOf(k)' = PacketsOf(k)
      /\ PacketEntries(k)' = PacketEntries(k)
      /\ HasBytes(k)' <=> HasBytes(k)
      /\ \A v : Straddles(v, k)' <=> Straddles(v, k)
  BY SameRanges
<1>2. \A i : PartStart(k, i)' = PartStart(k, i)
  BY DEF PartStart
<1>3. ASSUME NEW i \in DOMAIN parts PROVE PartKnown(k, i)'
  <2>1. PartKnown(k, i)
    BY DEF PartsKnown
  <2> QED
    BY <1>1, <1>2, <2>1 DEF PartKnown, Straddles
<1>4. \A x : LookedUp(k, x)' <=> LookedUp(k, x)
  BY <1>1, <1>2 DEF LookedUp, Straddles
<1>5. ASSUME input' \in {"reading", "insert"}, HasBytes(k), PacketEntries(k) # {}
      PROVE  /\ Progress' <= k => parts = <<>>
             /\ k < Progress' /\ Progress' < ranges[k].endSeq =>
                  parts # <<>> /\ parts[Len(parts)].seq = Progress'
             /\ \A x \in k .. ranges[k].endSeq - 1 : x < Progress' => LookedUp(k, x)
  <2>1. /\ Progress <= k => parts = <<>>
        /\ k < Progress /\ Progress < ranges[k].endSeq =>
             parts # <<>> /\ parts[Len(parts)].seq = Progress
        /\ \A x \in k .. ranges[k].endSeq - 1 : x < Progress => LookedUp(k, x)
    BY <1>5 DEF PartsKnown
  <2>2. Progress' <= k => Progress <= k
    BY <1>5
  <2>3. ~(k < Progress' /\ Progress' < ranges[k].endSeq) \/ Progress' = Progress
    BY <1>5
  <2>4. \A x \in k .. ranges[k].endSeq - 1 : x < Progress' => x < Progress \/ LookedUp(k, x)
    BY <1>5
  <2> QED
    BY <2>1, <2>2, <2>3, <2>4
<1>6. PacketEntries(k) = {} => parts = <<>>
  BY DEF PartsKnown
<1> QED
  BY <1>1, <1>3, <1>4, <1>5, <1>6 DEF PartsKnown

\* The write in hand, its place in the input and the byte the call looks up.
LEMMA WriteFacts ==
    ASSUME TypeOK, SojTyped, LookupInv, input = "insert"
    PROVE  /\ sojFrame.start \in Nat /\ Progress = sojFrame.start
           /\ Write \in Writes /\ Write.seq \in Nat /\ Write.endSeq \in Nat /\ Write.time \in Nat
           /\ Len(writes) \in DOMAIN writes /\ Write = writes[Len(writes)]
           /\ Write.seq <= sojFrame.start /\ sojFrame.start < Write.endSeq
           /\ base <= Write.seq
           /\ sojourn_tstamps \in [Keys -> Seq(Parts)]
           /\ \A i \in DOMAIN writes :
                /\ writes[i].seq \in Nat /\ writes[i].endSeq \in Nat /\ writes[i].time \in Nat
                /\ i # Len(writes) => writes[i].endSeq <= Write.seq
<1>1. writes # <<>> /\ SojTypeOK /\ writes \in Seq(Writes) /\ Len(writes) \in Nat
      /\ DOMAIN writes = 1 .. Len(writes)
  BY DEF SojTyped, SojTypeOK
<1>2. sojFrame.start \in Nat /\ Progress = sojFrame.start
  BY <1>1 DEF SojTypeOK, SojFrames, Progress
<1>3. Write \in Writes
  BY <1>1, WriteType
<1>4. Write.seq \in Nat /\ Write.endSeq \in Nat /\ Write.time \in Nat
  BY <1>3 DEF Writes
<1>5. Len(writes) \in DOMAIN writes /\ Write = writes[Len(writes)]
  BY <1>1 DEF Write
<1>6. Write.seq <= sojFrame.start /\ sojFrame.start < Write.endSeq
  BY DEF LookupInv, WriteInProgress
<1>7. base <= Write.seq
  BY <1>5 DEF LookupInv, WritesInOrder
<1>8. sojourn_tstamps \in [Keys -> Seq(Parts)]
  BY <1>1 DEF SojTypeOK, Parts
<1>9. \A i \in DOMAIN writes :
        writes[i].seq \in Nat /\ writes[i].endSeq \in Nat /\ writes[i].time \in Nat
  <2>1. \A i \in DOMAIN writes : writes[i] \in Writes
    BY <1>1
  <2> QED
    BY <2>1 DEF Writes
<1>10. \A i \in DOMAIN writes : i # Len(writes) => writes[i].endSeq <= Write.seq
  <2>1. \A i \in DOMAIN writes : i # Len(writes) => i < Len(writes)
    BY <1>1
  <2> QED
    BY <1>5, <2>1 DEF LookupInv, WritesInOrder
<1> QED
  BY <1>2, <1>3, <1>4, <1>5, <1>6, <1>7, <1>8, <1>9, <1>10

\* The time is never refused for a range with bytes of the write and a packet.
LEMMA TimeAccepted ==
    ASSUME TypeOK, SojTyped, LookupInv, PartsInv, input = "insert", NEW k \in Keys, HasBytes(k),
           Write.seq < ranges[k].endSeq, NEW e, addSegmentEnteredKernelTime(k, e)
    PROVE  /\ \A t \in PacketsOf(k) : Write.time <= t
           /\ PacketEntries(k) = {} => sojourn_tstamps' = sojourn_tstamps
           /\ PacketEntries(k) # {} =>
                sojourn_tstamps' =
                  [sojourn_tstamps EXCEPT ![k] = Append(@, [seq |-> e, time |-> Write.time])]
<1>1. Len(writes) \in DOMAIN writes /\ Write = writes[Len(writes)]
  BY WriteFacts
<1>2. \A t \in PacketsOf(k) : Write.time <= t
  BY <1>1 DEF PartsInv, WrittenBeforeSent
<1>3. PacketEntries(k) # {} =>
        Write.time <= ranges[k].sent_tstamp_pcap[Max(PacketEntries(k))].time
  BY <1>2, EntryTimes
<1> QED
  BY <1>2, <1>3 DEF addSegmentEnteredKernelTime

\* The range k has another part, which ends at e and has the time of the write.
LEMMA PartAdded ==
    ASSUME TypeOK, SojTyped, LookupInv, PartsInv, UNCHANGED vars, input = "insert", writes' = writes,
           NEW k \in Keys, k <= sojFrame.start, sojFrame.start < ranges[k].endSeq,
           NEW e \in Nat, sojFrame.start < e, e <= ranges[k].endSeq, e <= Write.endSeq,
           ~Straddles(Write, k), PacketEntries(k) # {}, \A t \in PacketsOf(k) : Write.time <= t,
           sojourn_tstamps'[k] = Append(sojourn_tstamps[k], [seq |-> e, time |-> Write.time]),
           input' \in {"reading", "insert"} => Progress' = e
    PROVE  PartsKnown(k)'
<1> DEFINE s == sojFrame.start
           parts == sojourn_tstamps[k]
           part == [seq |-> e, time |-> Write.time]
           n == Len(parts) + 1
<1>1. /\ s \in Nat /\ Progress = s
      /\ Write.seq \in Nat /\ Write.endSeq \in Nat /\ Write.time \in Nat
      /\ Len(writes) \in DOMAIN writes /\ Write = writes[Len(writes)]
      /\ Write.seq <= s /\ s < Write.endSeq
      /\ sojourn_tstamps \in [Keys -> Seq(Parts)]
  BY WriteFacts
<1>2. k \in Nat /\ ranges[k].endSeq \in Nat /\ HasBytes(k)
  BY <1>1, EndType DEF HasBytes
<1>3. PartsKnown(k)
  BY DEF PartsInv
<1>4. /\ ranges'[k] = ranges[k] /\ PacketsOf(k)' = PacketsOf(k)
      /\ PacketEntries(k)' = PacketEntries(k)
      /\ HasBytes(k)' <=> HasBytes(k)
      /\ \A v : Straddles(v, k)' <=> Straddles(v, k)
  BY SameRanges
<1>5. parts \in Seq(Parts) /\ Len(parts) \in Nat /\ DOMAIN parts = 1 .. Len(parts)
  BY <1>1
<1>6. part.seq = e /\ part.time = Write.time
  OBVIOUS
<1>7. sojourn_tstamps'[k] = Append(parts, part)
  OBVIOUS
<1> HIDE DEF part, parts
<1>8. /\ DOMAIN sojourn_tstamps'[k] = DOMAIN parts \cup {n} /\ n \notin DOMAIN parts
      /\ sojourn_tstamps'[k][n] = part /\ Len(sojourn_tstamps'[k]) = n
      /\ \A i \in DOMAIN parts : sojourn_tstamps'[k][i] = parts[i]
      /\ sojourn_tstamps'[k] # <<>>
  <2> DEFINE longer == Append(parts, part)
  <2>1. /\ Len(longer) = n /\ longer[n] = part /\ DOMAIN longer = 1 .. n
        /\ \A i \in 1 .. Len(parts) : longer[i] = parts[i]
    BY <1>5
  <2>2. 1 .. n = DOMAIN parts \cup {n} /\ n \notin DOMAIN parts
    BY <1>5
  <2>3. longer # <<>>
    BY <1>5, <2>1
  <2> HIDE DEF longer
  <2> QED
    BY <1>5, <1>7, <2>1, <2>2, <2>3 DEF longer
<1>9. ASSUME NEW i \in DOMAIN parts PROVE PartStart(k, i)' = PartStart(k, i)
  <2>1. CASE i = 1
    BY <2>1 DEF PartStart
  <2>2. CASE i # 1
    <3>1. i - 1 \in DOMAIN parts
      BY <1>5, <2>2
    <3>2. sojourn_tstamps'[k][i - 1] = sojourn_tstamps[k][i - 1]
      BY <1>8, <3>1 DEF parts
    <3> QED
      BY <2>2, <3>2 DEF PartStart
  <2> QED
    BY <2>1, <2>2
<1>10. /\ s <= k => parts = <<>>
       /\ k < s => parts # <<>> /\ parts[Len(parts)].seq = s
       /\ \A x \in k .. ranges[k].endSeq - 1 : x < s => LookedUp(k, x)
       /\ \A i \in DOMAIN parts : PartKnown(k, i)
  BY <1>1, <1>2, <1>3 DEF PartsKnown, parts
<1>11. ASSUME NEW m, m = n PROVE PartStart(k, m)' = s
  <2>1. CASE k < s
    <3>1. parts # <<>> /\ parts[Len(parts)].seq = s
      BY <1>10, <2>1
    <3>2. m # 1 /\ m - 1 = Len(parts) /\ Len(parts) \in DOMAIN parts
      BY <1>5, <1>11, <3>1
    <3>3. sojourn_tstamps'[k][m - 1].seq = s
      BY <1>8, <3>1, <3>2
    <3> QED
      BY <3>2, <3>3 DEF PartStart
  <2>2. CASE ~(k < s)
    <3>1. k = s /\ parts = <<>>
      BY <1>1, <1>2, <1>10, <2>2
    <3>2. m = 1
      BY <1>11, <3>1
    <3> QED
      BY <3>1, <3>2 DEF PartStart
  <2> QED
    BY <2>1, <2>2
<1>12. ASSUME NEW i \in DOMAIN sojourn_tstamps'[k] PROVE PartKnown(k, i)'
  <2>1. CASE i \in DOMAIN parts
    <3>1. PartKnown(k, i) /\ PartStart(k, i)' = PartStart(k, i)
      BY <1>9, <1>10, <2>1
    <3>2. sojourn_tstamps'[k][i] = sojourn_tstamps[k][i]
      BY <1>8, <2>1 DEF parts
    <3> QED
      BY <1>4, <3>1, <3>2 DEF PartKnown, Straddles
  <2>2. CASE i = n
    <3>1. PartStart(k, i)' = s /\ sojourn_tstamps'[k][i] = part
      BY <1>8, <1>11, <2>2
    <3>2. /\ Len(writes) \in DOMAIN writes'
          /\ writes'[Len(writes)].seq <= PartStart(k, i)'
          /\ sojourn_tstamps'[k][i].seq <= writes'[Len(writes)].endSeq
          /\ sojourn_tstamps'[k][i].time = writes'[Len(writes)].time
          /\ ~Straddles(writes'[Len(writes)], k)
      BY <1>1, <1>6, <3>1
    <3>3. \E j \in DOMAIN writes' :
            /\ writes'[j].seq <= PartStart(k, i)'
            /\ sojourn_tstamps'[k][i].seq <= writes'[j].endSeq
            /\ sojourn_tstamps'[k][i].time = writes'[j].time
            /\ ~Straddles(writes'[j], k)
      BY <3>2
    <3> QED
      BY <1>4, <1>6, <3>1, <3>3 DEF PartKnown, Straddles
  <2> QED
    BY <1>8, <2>1, <2>2
<1>13. ASSUME NEW x \in k .. ranges[k].endSeq - 1, x < e PROVE LookedUp(k, x)'
  <2> SUFFICES ASSUME NEW i \in DOMAIN writes, writes[i].seq <= x, x < writes[i].endSeq,
                      ~Straddles(writes[i], k)
               PROVE  \E m \in DOMAIN sojourn_tstamps'[k] :
                         PartStart(k, m)' <= x /\ x < sojourn_tstamps'[k][m].seq
    BY <1>4 DEF LookedUp, Straddles
  <2>1. x \in Nat
    BY <1>2
  <2>2. CASE x < s
    <3>1. PICK m \in DOMAIN parts : PartStart(k, m) <= x /\ x < parts[m].seq
      BY <1>10, <2>2 DEF LookedUp, parts
    <3>2. m \in DOMAIN sojourn_tstamps'[k] /\ sojourn_tstamps'[k][m] = parts[m]
      BY <1>8
    <3> QED
      BY <1>9, <3>1, <3>2
  <2>3. CASE x >= s
    <3>1. n \in DOMAIN sojourn_tstamps'[k] /\ sojourn_tstamps'[k][n].seq = e
      BY <1>6, <1>8
    <3>2. PICK m \in DOMAIN sojourn_tstamps'[k] : m = n
      BY <3>1
    <3>3. PartStart(k, m)' = s
      BY <1>11, <3>2
    <3> QED
      BY <1>13, <2>3, <3>1, <3>2, <3>3
  <2> QED
    BY <1>1, <2>1, <2>2, <2>3
<1>14. ASSUME input' \in {"reading", "insert"}
       PROVE  /\ ~(Progress' <= k)
              /\ sojourn_tstamps'[k][Len(sojourn_tstamps'[k])].seq = Progress'
              /\ \A x \in k .. ranges[k].endSeq - 1 : x < Progress' => LookedUp(k, x)'
  <2>1. Progress' = e
    BY <1>14
  <2>2. ~(e <= k)
    BY <1>1, <1>2
  <2> QED
    BY <1>6, <1>8, <1>13, <2>1, <2>2
<1> QED
  BY <1>4, <1>8, <1>12, <1>14 DEF PartsKnown

\* The call gets on to the byte e of the range that holds its start, and adds
\* the time of the write to it unless the write straddles the range's end.
LEMMA Advance ==
    ASSUME TypeOK, PartitionInv, SojTyped, LookupInv, PartsInv, UNCHANGED vars,
           input = "insert", writes' = writes,
           NEW k \in Keys, k <= sojFrame.start, sojFrame.start < ranges[k].endSeq,
           NEW e \in Nat, sojFrame.start < e, e <= ranges[k].endSeq, e <= Write.endSeq,
           \/ addSegmentEnteredKernelTime(k, e) /\ ~Straddles(Write, k)
           \/ UNCHANGED sojourn_tstamps /\ Straddles(Write, k) /\ e = ranges[k].endSeq,
           input' \in {"reading", "insert"} => Progress' = e
    PROVE  PartsInv'
<1> DEFINE s == sojFrame.start
<1>1. /\ s \in Nat /\ Progress = s
      /\ Write.seq \in Nat /\ Write.endSeq \in Nat
      /\ Len(writes) \in DOMAIN writes /\ Write = writes[Len(writes)]
      /\ Write.seq <= s /\ s < Write.endSeq
      /\ sojourn_tstamps \in [Keys -> Seq(Parts)]
      /\ \A i \in DOMAIN writes :
           /\ writes[i].seq \in Nat /\ writes[i].endSeq \in Nat
           /\ i # Len(writes) => writes[i].endSeq <= Write.seq
  BY WriteFacts
<1>2. k \in Nat /\ ranges[k].endSeq \in Nat /\ HasBytes(k) /\ Write.seq < ranges[k].endSeq
  BY <1>1, EndType DEF HasBytes
<1>3. Keys' = Keys
  BY TracesKept
<1>4. WrittenBeforeSent'
  BY <1>3, SameRanges DEF PartsInv, WrittenBeforeSent
<1> DEFINE part == [seq |-> e, time |-> Write.time]
<1>5. \/ /\ sojourn_tstamps' = [sojourn_tstamps EXCEPT ![k] = Append(@, part)]
         /\ PacketEntries(k) # {} /\ ~Straddles(Write, k)
         /\ \A t \in PacketsOf(k) : Write.time <= t
      \/ /\ sojourn_tstamps' = sojourn_tstamps
         /\ PacketEntries(k) = {} \/ (Straddles(Write, k) /\ e = ranges[k].endSeq)
  BY <1>2, TimeAccepted
<1> HIDE DEF part
<1>6. ASSUME NEW j \in Keys, j # k PROVE PartsKnown(j)'
  <2>1. sojourn_tstamps'[j] = sojourn_tstamps[j]
    BY <1>1, <1>5, <1>6
  <2>2. PartsKnown(j) /\ j \in Nat /\ ranges[j].endSeq \in Nat
    BY EndType DEF PartsInv
  <2>3. /\ j < k => ranges[j].endSeq <= k
        /\ k < j => ranges[k].endSeq <= j
    BY DEF PartitionInv, Disjoint
  <2>4. ASSUME input' \in {"reading", "insert"}
        PROVE  /\ Progress' <= j => Progress <= j
               /\ ~(j < Progress' /\ Progress' < ranges[j].endSeq) \/ Progress' = Progress
               /\ \A x \in j .. ranges[j].endSeq - 1 :
                    x < Progress' => x < Progress \/ LookedUp(j, x)
    <3>1. Progress' = e
      BY <2>4
    <3>2. e <= j => s <= j
      BY <1>1, <2>2
    <3>3. ~(j < e /\ e < ranges[j].endSeq)
      BY <1>1, <1>2, <1>6, <2>2, <2>3
    <3>4. \A x \in j .. ranges[j].endSeq - 1 : x < e => x < s
      BY <1>1, <1>2, <1>6, <2>2, <2>3
    <3> QED
      BY <1>1, <3>1, <3>2, <3>3, <3>4
  <2> QED
    BY <2>1, <2>2, <2>4, PartsStay
<1>7. PartsKnown(k)'
  <2>1. CASE /\ sojourn_tstamps' = [sojourn_tstamps EXCEPT ![k] = Append(@, part)]
             /\ PacketEntries(k) # {} /\ ~Straddles(Write, k)
             /\ \A t \in PacketsOf(k) : Write.time <= t
    <3>1. sojourn_tstamps'[k] = Append(sojourn_tstamps[k], part)
      BY <1>1, <2>1
    <3> QED
      BY <2>1, <3>1, PartAdded DEF part
  <2>2. CASE /\ sojourn_tstamps' = sojourn_tstamps
             /\ PacketEntries(k) = {} \/ (Straddles(Write, k) /\ e = ranges[k].endSeq)
    <3>1. PartsKnown(k) /\ sojourn_tstamps'[k] = sojourn_tstamps[k]
      BY <2>2 DEF PartsInv
    <3>2. ASSUME input' \in {"reading", "insert"}, PacketEntries(k) # {}
          PROVE  /\ Progress' <= k => Progress <= k
                 /\ ~(k < Progress' /\ Progress' < ranges[k].endSeq) \/ Progress' = Progress
                 /\ \A x \in k .. ranges[k].endSeq - 1 :
                      x < Progress' => x < Progress \/ LookedUp(k, x)
      <4>1. Progress' = e /\ Straddles(Write, k) /\ e = ranges[k].endSeq
        BY <2>2, <3>2
      <4>2. ASSUME NEW x \in k .. ranges[k].endSeq - 1, ~(x < s) PROVE LookedUp(k, x)
        <5> SUFFICES ASSUME NEW i \in DOMAIN writes, writes[i].seq <= x, x < writes[i].endSeq,
                            ~Straddles(writes[i], k)
                     PROVE  FALSE
          BY DEF LookedUp
        <5>1. i # Len(writes)
          BY <1>1, <4>1
        <5>2. writes[i].endSeq <= Write.seq /\ writes[i].endSeq \in Nat
          BY <1>1, <5>1
        <5> QED
          BY <1>1, <1>2, <4>2, <5>2
      <4>3. ~(e <= k) /\ ~(e < ranges[k].endSeq)
        BY <1>1, <1>2, <4>1
      <4> QED
        BY <1>1, <4>1, <4>2, <4>3
    <3> QED
      BY <3>1, <3>2, PartsStay
  <2> QED
    BY <1>5, <2>1, <2>2
<1> QED
  BY <1>3, <1>4, <1>6, <1>7 DEF PartsInv

\* Behind the end of the stream nothing is left to attribute.
LEMMA NothingLeft ==
    ASSUME TypeOK, PartitionInv, SojTyped, LookupInv, PartsInv, UNCHANGED vars,
           input = "insert", writes' = writes, sojFrame.start >= nxt,
           NEW e \in Nat, sojFrame.start <= e, input' \in {"reading", "insert"} => Progress' = e,
           NEW k \in Keys, sojourn_tstamps'[k] = sojourn_tstamps[k]
    PROVE  PartsKnown(k)'
<1>1. sojFrame.start \in Nat /\ Progress = sojFrame.start
  BY WriteFacts
<1>2. k \in Nat /\ ranges[k].endSeq \in Nat /\ nxt \in Nat
  BY EndType DEF TypeOK
<1>3. HasBytes(k) => ranges[k].endSeq <= nxt
  BY DEF PartitionInv, RangesInStream, HasBytes
<1>4. PartsKnown(k) /\ sojourn_tstamps'[k] = sojourn_tstamps[k]
  BY DEF PartsInv
<1>5. ASSUME input' \in {"reading", "insert"}, HasBytes(k)
      PROVE  /\ Progress' <= k => Progress <= k
             /\ ~(k < Progress' /\ Progress' < ranges[k].endSeq) \/ Progress' = Progress
             /\ \A x \in k .. ranges[k].endSeq - 1 :
                  x < Progress' => x < Progress \/ LookedUp(k, x)
  <2>1. Progress' = e
    BY <1>5
  <2>2. e <= k => sojFrame.start <= k
    BY <1>1, <1>2
  <2>3. ~(e < ranges[k].endSeq)
    BY <1>1, <1>2, <1>3, <1>5
  <2>4. \A x \in k .. ranges[k].endSeq - 1 : x < sojFrame.start
    BY <1>1, <1>2, <1>3, <1>5
  <2> QED
    BY <1>1, <2>1, <2>2, <2>3, <2>4
<1> QED
  BY <1>4, <1>5, PartsStay

\* A range without bytes has one packet at most, and so the time of a part that
\* is accepted is not later than any.
LEMMA EmptyPart ==
    ASSUME TypeOK, SojTyped, LookupInv, PartsInv, UNCHANGED vars, input = "insert", writes' = writes,
           NEW k \in Keys, ~HasBytes(k), PacketsOnWire(k), NEW e \in Nat,
           addSegmentEnteredKernelTime(k, e)
    PROVE  PartsKnown(k)'
<1>1. Write.time \in Nat /\ sojourn_tstamps \in [Keys -> Seq(Parts)]
  BY WriteFacts
<1>2. PartsKnown(k)
  BY DEF PartsInv
<1>3. CASE sojourn_tstamps' = sojourn_tstamps
  <2>1. sojourn_tstamps'[k] = sojourn_tstamps[k]
    BY <1>3
  <2> QED
    BY <1>2, <2>1, PartsStay
<1>4. CASE sojourn_tstamps' # sojourn_tstamps
  <2> DEFINE parts == sojourn_tstamps[k]
             part == [seq |-> e, time |-> Write.time]
             last == ranges[k].sent_tstamp_pcap[Max(PacketEntries(k))].time
  <2>1. /\ PacketEntries(k) # {} /\ Write.time <= last
        /\ sojourn_tstamps' = [sojourn_tstamps EXCEPT ![k] = Append(@, part)]
    BY <1>4 DEF addSegmentEnteredKernelTime
  <2>2. \A t \in PacketsOf(k) : t = last
    BY <2>1, EntryTimes DEF PacketsOnWire
  <2>3. part.time = Write.time
    OBVIOUS
  <2> HIDE DEF part, last
  <2>4. parts \in Seq(Parts) /\ sojourn_tstamps'[k] = Append(parts, part)
    BY <1>1, <2>1
  <2> HIDE DEF parts
  <2>5. ASSUME NEW i \in DOMAIN Append(parts, part)
        PROVE  Append(parts, part)[i] = part \/ (i \in DOMAIN parts /\ Append(parts, part)[i] = parts[i])
    BY <2>4
  <2>6. /\ PacketsOf(k)' = PacketsOf(k) /\ PacketEntries(k)' = PacketEntries(k)
        /\ HasBytes(k)' <=> HasBytes(k)
    BY SameRanges
  <2>7. ASSUME NEW i \in DOMAIN sojourn_tstamps'[k], NEW t \in PacketsOf(k)
        PROVE  sojourn_tstamps'[k][i].time <= t
    <3>1. CASE sojourn_tstamps'[k][i] = part
      BY <2>1, <2>2, <2>3, <3>1
    <3>2. CASE i \in DOMAIN parts /\ sojourn_tstamps'[k][i] = parts[i]
      <4>1. PartKnown(k, i)
        BY <1>2, <3>2 DEF PartsKnown, parts
      <4> QED
        BY <3>2, <4>1 DEF PartKnown, parts
    <3> QED
      BY <2>4, <2>5, <3>1, <3>2
  <2>8. \A i \in DOMAIN sojourn_tstamps'[k] : PartKnown(k, i)'
    BY <2>6, <2>7 DEF PartKnown
  <2> QED
    BY <2>1, <2>6, <2>8 DEF PartsKnown
<1> QED
  BY <1>3, <1>4

\* Every call of insertByteRange for a write keeps what is known of the parts.
LEMMA LookupKeepsParts ==
    ASSUME TypeOK, PartitionInv, WireInv, SojTyped, LookupInv, PartsInv, UNCHANGED vars,
           insertSojourn
    PROVE  PartsInv'
<1> DEFINE s == sojFrame.start
<1>1. input = "insert" /\ writes' = writes /\ writes # <<>>
  BY DEF insertSojourn, SojournInside, SojournUnknown, SojournSpan, SojournWithin, Lookup, SojTyped
<1>2. op = "idle" /\ recvNo = 0 /\ Keys' = Keys
  BY <1>1, TracesKept DEF LookupInv
<1>3. /\ s \in Nat /\ Progress = s
      /\ Write.seq \in Nat /\ Write.endSeq \in Nat
      /\ Write.seq <= s /\ s < Write.endSeq /\ base <= Write.seq
  BY <1>1, WriteFacts
<1>4. base <= s /\ base \in Nat /\ nxt \in Nat
  BY <1>3 DEF TypeOK
<1>5. WrittenBeforeSent'
  BY <1>1, <1>2, SameRanges DEF PartsInv, WrittenBeforeSent
<1>6. SojReturn => (input' \in {"reading", "insert"} => Progress' = Write.endSeq)
  BY <1>1 DEF SojReturn, Progress, Written, Write
<1>7. \A e : SojRecurse(e) => (input' \in {"reading", "insert"} => Progress' = e)
  BY <1>1 DEF SojRecurse, Progress
<1>8. CASE SojournInside
  <2>1. PICK k \in Keys :
          /\ Inside(k)
          /\ IF Write.endSeq <= ranges[k].endSeq
             THEN addSegmentEnteredKernelTime(k, Write.endSeq) /\ SojReturn
             ELSE SojRecurse(ranges[k].endSeq) /\ UNCHANGED sojourn_tstamps
    BY <1>8 DEF SojournInside
  <2>2. k \in Nat /\ ranges[k].endSeq \in Nat /\ k <= s /\ k < s /\ s < ranges[k].endSeq
    BY <1>3, <2>1, EndType DEF Inside, IsPrev
  <2>3. s = Write.seq
    BY <1>1, <2>1 DEF LookupInv, WriteInProgress
  <2>4. CASE Write.endSeq <= ranges[k].endSeq
    <3>1. addSegmentEnteredKernelTime(k, Write.endSeq) /\ SojReturn
      BY <2>1, <2>4
    <3>2. ~Straddles(Write, k) /\ Write.endSeq <= Write.endSeq
      BY <1>3, <2>2, <2>4 DEF Straddles
    <3> QED
      BY <1>1, <1>3, <1>6, <2>2, <2>4, <3>1, <3>2, Advance
  <2>5. CASE ~(Write.endSeq <= ranges[k].endSeq)
    <3>1. SojRecurse(ranges[k].endSeq) /\ UNCHANGED sojourn_tstamps
      BY <2>1, <2>5
    <3>2. Straddles(Write, k) /\ ranges[k].endSeq <= Write.endSeq /\ ranges[k].endSeq <= ranges[k].endSeq
      BY <1>3, <2>2, <2>3, <2>5 DEF Straddles
    <3>3. input' \in {"reading", "insert"} => Progress' = ranges[k].endSeq
      BY <1>7, <3>1
    <3> QED
      BY <1>1, <2>2, <3>1, <3>2, <3>3, Advance
  <2> QED
    BY <2>4, <2>5
<1>9. CASE SojournUnknown
  <2>1. /\ s \notin Keys /\ (s >= lastSeq \/ ~\E k \in Keys : Inside(k))
        /\ SojReturn /\ sojourn_tstamps' = sojourn_tstamps
    BY <1>9 DEF SojournUnknown
  <2>2. s >= nxt
    <3> SUFFICES ASSUME s < nxt PROVE FALSE
      BY <1>3, <1>4
    <3>1. s \in base .. nxt - 1
      BY <1>3, <1>4
    <3>2. PICK k \in Keys : Covers(k, s)
      BY <1>2, <3>1, ByteHeld
    <3>3. k \in Nat /\ ranges[k].endSeq \in Nat /\ k < s /\ s < ranges[k].endSeq
      BY <1>3, <2>1, <3>2, EndType DEF Covers
    <3>4. Inside(k)
      <4>1. \A j \in Keys : j \in Nat /\ (k < j => ranges[k].endSeq <= j)
        BY EndType DEF PartitionInv, Disjoint
      <4>2. ASSUME NEW j \in Keys PROVE j <= k \/ j >= s
        <5> HIDE DEF s
        <5>1. s \in Nat /\ s < ranges[k].endSeq /\ k \in Nat /\ ranges[k].endSeq \in Nat
          BY <1>3, <3>3
        <5>2. j \in Nat /\ (k < j => ranges[k].endSeq <= j)
          BY <4>1
        <5> QED
          BY <5>1, <5>2
      <4> QED
        BY <3>3, <4>2 DEF Inside, IsPrev
    <3>5. ranges[k].endSeq <= lastSeq /\ lastSeq \in Nat
      BY <1>3, <3>3 DEF PartitionInv, LastSeqBound, TypeOK, rmTypeOK
    <3> QED
      BY <1>3, <2>1, <3>3, <3>4, <3>5
  <2>3. s <= Write.endSeq
    BY <1>3
  <2>4. \A k \in Keys : PartsKnown(k)'
    BY <1>1, <1>3, <1>6, <2>1, <2>2, <2>3, NothingLeft
  <2> QED
    BY <1>2, <1>5, <2>4 DEF PartsInv
<1>10. CASE SojournSpan
  <2> DEFINE E == ranges[s].endSeq
  <2>1. /\ s \in Keys /\ E < Write.endSeq
        /\ addSegmentEnteredKernelTime(s, E)
        /\ \/ input' \in {"stopped", "recursion_level"}
           \/ SojRecurse(E)
    BY <1>10 DEF SojournSpan
  <2>2. E \in Nat /\ s <= E /\ s <= s /\ E <= E
    BY <1>3, <2>1, EndType DEF PartitionInv, RangesInStream
  <2>3. input' \in {"reading", "insert"} => Progress' = E
    BY <1>7, <2>1
  <2>4. CASE HasBytes(s)
    <3>1. s < E /\ E <= Write.endSeq
      BY <1>3, <2>1, <2>2, <2>4 DEF HasBytes
    <3>2. ~Straddles(Write, s)
      BY <1>3 DEF Straddles
    <3> HIDE DEF E
    <3> QED
      BY <1>1, <2>1, <2>2, <2>3, <3>1, <3>2, Advance DEF E
  <2>5. CASE ~HasBytes(s)
    <3>1. s >= nxt
      BY <1>2, <1>4, <2>1, <2>5, EmptyAtEnd
    <3>2. PacketsOnWire(s)
      BY <1>2, <2>1 DEF WireInv
    <3>3. ASSUME NEW k \in Keys PROVE PartsKnown(k)'
      <4>1. CASE k = s
        BY <1>1, <2>1, <2>2, <2>5, <3>2, <4>1, EmptyPart
      <4>2. CASE k # s
        <5>1. sojourn_tstamps'[k] = sojourn_tstamps[k]
          <6>1. sojourn_tstamps \in [Keys -> Seq(Parts)]
            BY <1>1, WriteFacts
          <6> QED
            BY <2>1, <4>2, <6>1 DEF addSegmentEnteredKernelTime
        <5> QED
          BY <1>1, <2>2, <2>3, <3>1, <5>1, NothingLeft
      <4> QED
        BY <4>1, <4>2
    <3> QED
      BY <1>2, <1>5, <3>3 DEF PartsInv
  <2> QED
    BY <2>4, <2>5
<1>11. CASE SojournWithin
  <2>1. /\ s \in Keys /\ ranges[s].endSeq >= Write.endSeq
        /\ addSegmentEnteredKernelTime(s, Write.endSeq) /\ SojReturn
    BY <1>11 DEF SojournWithin
  <2>2. /\ ranges[s].endSeq \in Nat /\ s <= s /\ s < ranges[s].endSeq
        /\ Write.endSeq <= ranges[s].endSeq /\ Write.endSeq <= Write.endSeq
    BY <1>3, <2>1, EndType
  <2>3. ~Straddles(Write, s)
    BY <1>3 DEF Straddles
  <2> QED
    BY <1>1, <1>3, <1>6, <2>1, <2>2, <2>3, Advance
<1> QED
  BY <1>8, <1>9, <1>10, <1>11 DEF insertSojourn

\* Every step keeps SojInv.
LEMMA SojNextParts ==
    ASSUME RegularTrace, RegularInv, WireInv, SojTyped, SojInv, [SojNext]_allVars
    PROVE  SojInv'
<1>1. TypeOK /\ PartitionInv /\ CallInv
  BY DEF RegularInv, InOrderInv, CountersInv
<1>2. LookupInv /\ (input # "off" => PartsInv)
  BY DEF SojInv, PartsInv
<1>3. LookupInv'
  BY <1>1, <1>2, SojNextLookup DEF RegularTrace
<1> SUFFICES ASSUME input' # "off" PROVE PartsInv'
  BY <1>3 DEF SojInv, PartsInv
<1>4. CASE input = "off" /\ Next /\ UNCHANGED sojVars
  BY <1>4 DEF sojVars
<1>5. CASE UNCHANGED allVars
  <2>1. UNCHANGED vars /\ UNCHANGED sojVars
    BY <1>5 DEF allVars
  <2>2. /\ input' = input /\ writes' = writes /\ sojFrame' = sojFrame
        /\ sojourn_tstamps' = sojourn_tstamps
    BY <2>1 DEF sojVars
  <2>3. Keys' = Keys /\ ranges' = ranges /\ base' = base
    BY <2>1, TracesKept
  <2>4. PartsInv
    BY <1>2, <2>2
  <2>5. WrittenBeforeSent'
    BY <2>2, <2>3, <2>4 DEF PartsInv, WrittenBeforeSent, HasBytes, PacketsOf
  <2>6. Progress' = Progress
    BY <2>2, <2>3 DEF Progress, Written, Write
  <2>7. \A k \in Keys : PartsKnown(k)'
    BY <2>2, <2>3, <2>4, <2>6 DEF PartsInv, PartsKnown, PartKnown, LookedUp, PartStart, Straddles,
                                  HasBytes, PacketsOf, PacketEntries
  <2> QED
    BY <2>3, <2>5, <2>7 DEF PartsInv
<1>6. CASE UNCHANGED vars /\ StartSojourn
  BY <1>1, <1>2, <1>6, StartParts
<1>7. ASSUME UNCHANGED vars, NEW n \in 1 .. MaxPayload, NEW time \in 0 .. clock,
             calculateSojournTime(n, time)
      PROVE  PartsInv'
  <2>1. PartsInv
    BY <1>2, <1>7 DEF calculateSojournTime
  <2> QED
    BY <1>1, <1>2, <1>3, <1>7, <2>1, WriteKeepsParts
<1>8. CASE UNCHANGED vars /\ insertSojourn
  <2>1. input = "insert"
    BY <1>8 DEF insertSojourn, SojournInside, SojournUnknown, SojournSpan, SojournWithin, Lookup
  <2> QED
    BY <1>1, <1>2, <1>8, <2>1, LookupKeepsParts
<1> QED
  BY <1>4, <1>5, <1>6, <1>7, <1>8, SojournStep

\* SojInv holds of every regular trace, read with a sojourn input.
THEOREM SojournPartsHold ==
    ASSUME RegularTrace, MaxRecv # 0
    PROVE  SojSpec => []SojInv
<1>1. SojInit => SojTyped /\ SojInv
  BY DEF SojInit, SojTyped, SojTypeOK, SojFrames, SojInv, LookupInv, WritesInOrder,
         WriteInProgress, SojournStopsAtEnd
<1>2. RegularInv /\ WireInv /\ SojTyped /\ SojInv /\ [SojNext]_allVars => SojTyped' /\ SojInv'
  <2> SUFFICES ASSUME RegularInv, WireInv, SojTyped, SojInv, [SojNext]_allVars
               PROVE  SojTyped' /\ SojInv'
    OBVIOUS
  <2>1. TypeOK
    BY DEF RegularInv, InOrderInv, CountersInv
  <2> QED
    BY <2>1, SojNextTyped, SojNextParts
<1>3. SojSpec => []RegularInv
  BY SojournReadsOnly, RegularHolds, PTL
<1>4. SojSpec => []WireInv
  BY SojournReadsOnly, WireHolds, PTL
<1> QED
  BY <1>1, <1>2, <1>3, <1>4, PTL DEF SojSpec

-----------------------------------------------------------------------------
(* What getSojournTimes reports. *)

\* What getSojournTimes says of the i-th part of a range.
Reports(p, k, i) ==
    /\ p.first = PartStart(k, i)
    /\ p.end = sojourn_tstamps[k][i].seq
    /\ p.written = sojourn_tstamps[k][i].time
    /\ p.usec = ranges[k].sent_tstamp_pcap[send_tstamp_index(k)].time - sojourn_tstamps[k][i].time

\* getSojournTimes reports each part of a range, and nothing else.
LEMMA PartsReported ==
    ASSUME NEW k
    PROVE  /\ \A p \in getSojournTimes(k) : \E i \in DOMAIN sojourn_tstamps[k] : Reports(p, k, i)
           /\ \A i \in DOMAIN sojourn_tstamps[k] : \E p \in getSojournTimes(k) : Reports(p, k, i)
<1> DEFINE r(i) == [first |-> IF i = 1 THEN k ELSE sojourn_tstamps[k][i - 1].seq,
                    end |-> sojourn_tstamps[k][i].seq,
                    written |-> sojourn_tstamps[k][i].time,
                    usec |-> ranges[k].sent_tstamp_pcap[send_tstamp_index(k)].time
                               - sojourn_tstamps[k][i].time]
<1>1. getSojournTimes(k) = {r(i) : i \in DOMAIN sojourn_tstamps[k]}
  BY DEF getSojournTimes
<1>2. \A i : Reports(r(i), k, i)
  BY DEF Reports, PartStart
<1> HIDE DEF r
<1> QED
  BY <1>1, <1>2

\* A part of a range, with its numbers.
LEMMA PartTyped ==
    ASSUME TypeOK, SojTypeOK, input # "off", NEW k \in Keys, NEW i \in DOMAIN sojourn_tstamps[k]
    PROVE  /\ sojourn_tstamps[k][i].seq \in Nat /\ sojourn_tstamps[k][i].time \in Nat
           /\ PartStart(k, i) \in Nat
           /\ sojourn_tstamps[k] # <<>>
<1> DEFINE parts == sojourn_tstamps[k]
<1>1. parts \in Seq(Parts)
  BY DEF SojTypeOK, Parts
<1> HIDE DEF parts
<1>2. DOMAIN parts = 1 .. Len(parts) /\ Len(parts) \in Nat /\ \A n \in DOMAIN parts : parts[n] \in Parts
  BY <1>1
<1>3. \A n \in DOMAIN parts : parts[n].seq \in Nat /\ parts[n].time \in Nat
  BY <1>2 DEF Parts
<1>4. i \in DOMAIN parts
  BY DEF parts
<1>5. i # 1 => i - 1 \in DOMAIN parts
  BY <1>2, <1>4
<1>6. parts # <<>>
  BY <1>2, <1>4
<1>7. k \in Nat
  BY EndType
<1> QED
  BY <1>3, <1>4, <1>5, <1>6, <1>7 DEF parts, PartStart

\* No sojourn time is negative: "Should not be possible" (getSojournTimes) is
\* right, although a time is accepted against the last packet of the range and
\* measured from the first, because TCP sends no byte before it is written.
THEOREM SojournNeverNegative ==
    ASSUME RegularTrace, MaxRecv # 0
    PROVE  SojSpec => []SojournNonNegative
<1>1. TypeOK /\ SojTypeOK /\ SojInv => SojournNonNegative
  <2> SUFFICES ASSUME TypeOK, SojTypeOK, SojInv, input # "off",
                      NEW k \in Keys, NEW p \in getSojournTimes(k)
               PROVE  p.usec >= 0
    BY DEF SojournNonNegative
  <2>1. PICK i \in DOMAIN sojourn_tstamps[k] : Reports(p, k, i)
    BY PartsReported
  <2>2. sojourn_tstamps[k][i].time \in Nat /\ sojourn_tstamps[k] # <<>>
    BY PartTyped
  <2>3. PartsKnown(k)
    BY DEF SojInv
  <2>4. PacketEntries(k) # {} /\ PartKnown(k, i)
    BY <2>2, <2>3 DEF PartsKnown
  <2> DEFINE first == ranges[k].sent_tstamp_pcap[Min(PacketEntries(k))].time
  <2>5. first \in PacketsOf(k) /\ first \in Nat
    BY <2>4, EntryTimes
  <2>6. send_tstamp_index(k) = Min(PacketEntries(k))
    BY <2>4 DEF send_tstamp_index
  <2>7. p.usec = first - sojourn_tstamps[k][i].time
    BY <2>1, <2>6 DEF Reports
  <2>8. sojourn_tstamps[k][i].time <= first
    BY <2>4, <2>5 DEF PartKnown
  <2> HIDE DEF first
  <2> QED
    BY <2>2, <2>5, <2>7, <2>8
<1>2. SojSpec => []TypeOK
  BY SojournReadsOnly, TypeCorrect, PTL
<1> QED
  BY <1>1, <1>2, SojournTypeCorrect, SojournPartsHold, PTL

\* A byte of a write that is in a part of its range: the part is one of the write.
LEMMA PartOfWrite ==
    ASSUME TypeOK, SojTypeOK, SojInv, input # "off",
           NEW i \in DOMAIN writes, NEW k \in Keys,
           NEW x \in writes[i].seq .. writes[i].endSeq - 1, Covers(k, x),
           NEW n \in DOMAIN sojourn_tstamps[k],
           PartStart(k, n) <= x, x < sojourn_tstamps[k][n].seq
    PROVE  /\ writes[i].seq <= PartStart(k, n)
           /\ sojourn_tstamps[k][n].seq <= writes[i].endSeq
           /\ sojourn_tstamps[k][n].seq <= ranges[k].endSeq
           /\ sojourn_tstamps[k][n].time = writes[i].time
           /\ ~Straddles(writes[i], k)
<1>1. \A j \in DOMAIN writes : j \in Nat /\ writes[j].seq \in Nat /\ writes[j].endSeq \in Nat
  <2>1. writes \in Seq(Writes)
    BY DEF SojTypeOK
  <2>2. \A j \in DOMAIN writes : j \in Nat /\ writes[j] \in Writes
    BY <2>1
  <2> QED
    BY <2>2 DEF Writes
<1>2. /\ k \in Nat /\ ranges[k].endSeq \in Nat
      /\ PartStart(k, n) \in Nat /\ sojourn_tstamps[k][n].seq \in Nat
  BY EndType, PartTyped
<1>3. HasBytes(k)
  BY <1>1, <1>2 DEF HasBytes, Covers
<1>4. PartKnown(k, n) /\ WritesInOrder
  BY DEF SojInv, PartsKnown, LookupInv
<1>5. sojourn_tstamps[k][n].seq <= ranges[k].endSeq
  BY <1>3, <1>4 DEF PartKnown
<1>6. PICK j \in DOMAIN writes :
         /\ writes[j].seq <= PartStart(k, n) /\ sojourn_tstamps[k][n].seq <= writes[j].endSeq
         /\ sojourn_tstamps[k][n].time = writes[j].time
         /\ ~Straddles(writes[j], k)
  BY <1>3, <1>4 DEF PartKnown
<1>7. j = i
  <2>1. i < j => writes[i].endSeq <= writes[j].seq
    BY <1>4 DEF WritesInOrder
  <2>2. j < i => writes[j].endSeq <= writes[i].seq
    BY <1>4 DEF WritesInOrder
  <2>3. /\ i \in Nat /\ j \in Nat
        /\ writes[i].seq \in Nat /\ writes[i].endSeq \in Nat
        /\ writes[j].seq \in Nat /\ writes[j].endSeq \in Nat
    BY <1>1
  <2> QED
    BY <1>2, <1>6, <2>1, <2>2, <2>3
<1> QED
  BY <1>5, <1>6, <1>7

\* Between two lines of the input a byte has the time of exactly the write that
\* carried it, or none for one of the two reasons that the code has, however
\* packets, retransmissions and writes overlap.
THEOREM SojournAlwaysAttributed ==
    ASSUME RegularTrace, MaxRecv # 0
    PROVE  SojSpec => []SojournAttribution
<1>1. TypeOK /\ SojTypeOK /\ SojInv => SojournAttribution
  <2> SUFFICES ASSUME TypeOK, SojTypeOK, SojInv, input = "reading",
                      NEW i \in DOMAIN writes, NEW k \in Keys,
                      NEW x \in writes[i].seq .. writes[i].endSeq - 1, Covers(k, x)
               PROVE  LET parts == {p \in getSojournTimes(k) : p.first <= x /\ x < p.end}
                      IN IF PacketEntries(k) = {} \/ Straddles(writes[i], k) THEN parts = {}
                         ELSE /\ parts # {}
                              /\ \A p \in parts :
                                   /\ writes[i].seq <= p.first /\ p.end <= writes[i].endSeq
                                   /\ p.end <= ranges[k].endSeq
                                   /\ p.written = writes[i].time
    BY DEF SojournAttribution
  <2> DEFINE parts == {p \in getSojournTimes(k) : p.first <= x /\ x < p.end}
  <2>1. input # "off" /\ PartsKnown(k) /\ WritesInOrder
    BY DEF SojInv, LookupInv
  <2>2. ASSUME NEW p \in parts
        PROVE  /\ PacketEntries(k) # {} /\ ~Straddles(writes[i], k)
               /\ writes[i].seq <= p.first /\ p.end <= writes[i].endSeq
               /\ p.end <= ranges[k].endSeq
               /\ p.written = writes[i].time
    <3>1. PICK n \in DOMAIN sojourn_tstamps[k] : Reports(p, k, n)
      BY PartsReported
    <3>2. PartStart(k, n) <= x /\ x < sojourn_tstamps[k][n].seq
      BY <3>1 DEF Reports
    <3>3. sojourn_tstamps[k] # <<>>
      BY <2>1, PartTyped
    <3>4. PacketEntries(k) # {}
      BY <2>1, <3>3 DEF PartsKnown
    <3> QED
      BY <2>1, <3>1, <3>2, <3>4, PartOfWrite DEF Reports
  <2>3. ASSUME PacketEntries(k) # {}, ~Straddles(writes[i], k)
        PROVE  parts # {}
    <3>1. writes \in Seq(Writes)
      BY DEF SojTypeOK
    <3>2. Len(writes) \in DOMAIN writes /\ i <= Len(writes) /\ i \in Nat /\ Len(writes) \in Nat
      BY <3>1
    <3>3. \A j \in DOMAIN writes : writes[j] \in Writes
      BY <3>1
    <3>4. /\ writes[i].seq \in Nat /\ writes[i].endSeq \in Nat
          /\ Write.seq \in Nat /\ Write.endSeq \in Nat
      BY <3>2, <3>3 DEF Write, Writes
    <3>5. Progress = Write.endSeq
      <4>1. writes # <<>>
        BY <3>2
      <4> QED
        BY <4>1 DEF Progress, Written
    <3>6. writes[i].endSeq <= Write.endSeq
      <4>1. i = Len(writes) => writes[i].endSeq = Write.endSeq
        BY DEF Write
      <4>2. i < Len(writes) => writes[i].endSeq <= Write.seq
        BY <2>1, <3>2 DEF WritesInOrder, Write
      <4>3. Write.seq < Write.endSeq
        BY <2>1, <3>2 DEF WritesInOrder, Write
      <4> QED
        BY <3>2, <3>4, <4>1, <4>2, <4>3
    <3>7. k \in Nat /\ ranges[k].endSeq \in Nat
      BY EndType
    <3>8. x \in Nat /\ x < Progress /\ writes[i].seq <= x /\ x < writes[i].endSeq
      BY <3>4, <3>5, <3>6
    <3>9. x \in k .. ranges[k].endSeq - 1 /\ HasBytes(k)
      BY <3>7, <3>8 DEF Covers, HasBytes
    <3>10. LookedUp(k, x)
      BY <2>1, <2>3, <3>8, <3>9 DEF PartsKnown
    <3>11. PICK n \in DOMAIN sojourn_tstamps[k] :
             PartStart(k, n) <= x /\ x < sojourn_tstamps[k][n].seq
      BY <2>3, <3>8, <3>10 DEF LookedUp
    <3>12. PICK p \in getSojournTimes(k) : Reports(p, k, n)
      BY PartsReported
    <3>13. p.first <= x /\ x < p.end
      BY <3>11, <3>12 DEF Reports
    <3> QED
      BY <3>13
  <2> HIDE DEF parts
  <2>4. PacketEntries(k) = {} \/ Straddles(writes[i], k) => parts = {}
    BY <2>2
  <2>5. ~(PacketEntries(k) = {} \/ Straddles(writes[i], k)) =>
          /\ parts # {}
          /\ \A p \in parts :
               /\ writes[i].seq <= p.first /\ p.end <= writes[i].endSeq
               /\ p.end <= ranges[k].endSeq
               /\ p.written = writes[i].time
    BY <2>2, <2>3
  <2> QED
    BY <2>4, <2>5 DEF parts
<1>2. SojSpec => []TypeOK
  BY SojournReadsOnly, TypeCorrect, PTL
<1> QED
  BY <1>1, <1>2, SojournTypeCorrect, SojournPartsHold, PTL

=============================================================================
