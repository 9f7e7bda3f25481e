-------------------------- MODULE PartitionProofs --------------------------
(***************************************************************************)
(* For a capture that misses nothing, the byte ranges are disjoint and     *)
(* hold every byte of the stream, whatever overlaps, is bundled, resent,   *)
(* acknowledged in part or cut anew in the receiver's trace.  The lemmas   *)
(* at the end say what becomes of the history of a byte: when it was first *)
(* sent, when it was acknowledged, and how often it was counted.           *)
(***************************************************************************)
EXTENDS ConnectionProofs

-----------------------------------------------------------------------------
(* What the steps of the range manager do to a partition. *)

\* The types that the arguments below need.
Typed ==
    /\ Keys \subseteq Nat
    /\ \A k \in Keys : ranges[k].endSeq \in Nat
    /\ nxt \in Nat /\ base \in Nat /\ lastSeq \in Nat
    /\ frame.start \in Nat /\ frame.end \in Nat
    /\ seg.seq \in Nat /\ seg.endSeq \in Nat

\* They follow from the type invariant.
LEMMA TypedFrom ==
    ASSUME TypeOK
    PROVE  Typed
BY DEF TypeOK, rmTypeOK, Typed, Keys, ByteRanges, Frames, Segments

\* The new map is a refinement of the old one: it holds what the old one did,
\* it starts ranges only inside the old ones, and reaches no further.
Refined ==
    /\ Disjoint'
    /\ RangesInStream'
    /\ \A x \in Nat : (\E k \in Keys : Covers(k, x)) => (\E k \in Keys' : Covers(k, x)')
    /\ \A k \in Keys' : k \in Keys \/ \E j \in Keys : j < k /\ k < ranges[j].endSeq
    /\ \A k \in Keys' : k < ranges'[k].endSeq =>
         \E j \in Keys : j < ranges[j].endSeq /\ ranges'[k].endSeq <= ranges[j].endSeq

\* Changing counters only refines the map.
LEMMA CountsOnlyRefines ==
    ASSUME Typed, Disjoint, RangesInStream, CountsOnly, UNCHANGED <<nxt, tcp>>
    PROVE  Refined
<1>1. /\ Keys' = Keys
      /\ \A k \in Keys : ranges'[k].endSeq = ranges[k].endSeq
  BY DEF CountsOnly, KeptOutside
<1>2. Disjoint'
  BY <1>1 DEF Disjoint
<1>3. RangesInStream'
  BY <1>1 DEF RangesInStream
<1>4. \A x \in Nat : (\E k \in Keys : Covers(k, x)) => (\E k \in Keys' : Covers(k, x)')
  BY <1>1 DEF Covers
<1>5. \A k \in Keys' : k < ranges'[k].endSeq =>
         \E j \in Keys : j < ranges[j].endSeq /\ ranges'[k].endSeq <= ranges[j].endSeq
  BY <1>1 DEF Typed
<1> QED
  BY <1>1, <1>2, <1>3, <1>4, <1>5 DEF Refined

\* Cutting a range in two refines the map.
LEMMA CutRefines ==
    ASSUME Typed, Disjoint, RangesInStream, UNCHANGED <<nxt, tcp>>,
           NEW k \in Keys, NEW at \in Nat, k < at, at < ranges[k].endSeq,
           CutAt(k, at)
    PROVE  /\ Refined
           /\ at \notin Keys
           /\ \A x \in Nat : k <= x /\ x < at => Covers(k, x)'
           /\ \A x \in Nat : at <= x /\ x < ranges[k].endSeq => Covers(at, x)'
<1>1. at \notin Keys
  BY DEF Disjoint, Typed
<1>2. /\ Keys' = Keys \cup {at}
      /\ ranges'[k].endSeq = at
      /\ ranges'[at].endSeq = ranges[k].endSeq
      /\ \A j \in Keys : j # k => ranges'[j].endSeq = ranges[j].endSeq
  BY <1>1 DEF CutAt, KeptOutside
<1>3. Disjoint'
  BY <1>1, <1>2 DEF Disjoint, Typed
<1>4. RangesInStream'
  BY <1>1, <1>2 DEF RangesInStream, Typed
<1>5. /\ \A x \in Nat : k <= x /\ x < at => Covers(k, x)'
      /\ \A x \in Nat : at <= x /\ x < ranges[k].endSeq => Covers(at, x)'
  BY <1>2 DEF Covers
<1>6. \A x \in Nat : (\E j \in Keys : Covers(j, x)) => (\E j \in Keys' : Covers(j, x)')
  <2> TAKE x \in Nat
  <2> HAVE \E j \in Keys : Covers(j, x)
  <2>1. PICK j \in Keys : Covers(j, x)
    OBVIOUS
  <2>2. CASE j # k
    BY <1>2, <2>1, <2>2 DEF Covers
  <2>3. CASE j = k
    BY <1>2, <1>5, <2>1, <2>3 DEF Covers, Typed
  <2> QED
    BY <2>2, <2>3
<1>7. \A j \in Keys' : j < ranges'[j].endSeq =>
         \E i \in Keys : i < ranges[i].endSeq /\ ranges'[j].endSeq <= ranges[i].endSeq
  <2> TAKE j \in Keys'
  <2> HAVE j < ranges'[j].endSeq
  <2>0. k \in Nat /\ ranges[k].endSeq \in Nat
    BY DEF Typed
  <2>1. k < ranges[k].endSeq /\ at <= ranges[k].endSeq /\ ranges[k].endSeq <= ranges[k].endSeq
    BY <2>0
  <2>2. CASE j = k \/ j = at
    BY <1>2, <2>1, <2>2
  <2>3. CASE j \in Keys /\ j # k
    <3>1. ranges[j].endSeq \in Nat /\ ranges'[j].endSeq = ranges[j].endSeq
      BY <1>2, <2>3 DEF Typed
    <3>2. ranges'[j].endSeq <= ranges[j].endSeq
      BY <3>1
    <3> QED
      BY <2>3, <3>1, <3>2
  <2> QED
    BY <1>2, <2>2, <2>3
<1>8. \A j \in Keys' : j \in Keys \/ \E i \in Keys : i < j /\ j < ranges[i].endSeq
  BY <1>2
<1> QED
  BY <1>1, <1>3, <1>4, <1>5, <1>6, <1>7, <1>8 DEF Refined

-----------------------------------------------------------------------------
(* The invariant, without what only the environment's steps change. *)

StepInv ==
    /\ Typed /\ Disjoint /\ RangesInStream /\ Frontier /\ LastSeqBound /\ CallInStream
    /\ base <= nxt

\* What the range manager leaves alone.
Fixed == UNCHANGED <<conn, envVars>>

\* insertSentRange's update of lastSeq catches up with the stream.
LEMMA ReturnCatchesUp ==
    ASSUME StepInv, op = "insert", SENT, Return
    PROVE  lastSeq' >= nxt
<1>1. lastSeq' = lastSeqAfter(seg)
  BY DEF Return, SENT
<1>2. op \notin Failures
  BY DEF Failures
<1>3. CASE ZeroLength
  <2>1. seg.seq = seg.endSeq /\ payloadSize(seg) = 0
    BY <1>3 DEF StepInv, CallInStream, payloadSize, Typed
  <2>2. lastSeq >= nxt \/ seg.flag = "syn"
    BY <1>2, <1>3 DEF StepInv, LastSeqBound, Inserting
  <2>3. seg.seq >= nxt \/ seg.flag = "syn"
    BY <1>3 DEF StepInv, CallInStream, Typed
  <2>4. seg.flag = "syn" => nxt = 1
    BY <1>3 DEF StepInv, CallInStream
  <2> QED
    BY <1>1, <2>1, <2>2, <2>3, <2>4 DEF lastSeqAfter, StepInv, Typed
<1>4. CASE ~ZeroLength
  <2>1. seg.seq < seg.endSeq /\ payloadSize(seg) # 0 /\ seg.endSeq <= nxt /\ base <= seg.seq
    BY <1>4 DEF StepInv, CallInStream, payloadSize, Typed
  <2>2. lastSeq >= nxt \/ (seg.endSeq = nxt /\ seg.seq <= lastSeq)
    BY <1>2, <2>1 DEF StepInv, LastSeqBound, Typed
  <2> QED
    BY <1>1, <2>1, <2>2 DEF lastSeqAfter, StepInv, Typed
<1> QED
  BY <1>3, <1>4

\* A return keeps the invariant, if the map stays a partition that holds what
\* it did and what the segment had left.
LEMMA ReturnKeeps ==
    ASSUME StepInv, op = "insert", Return, Fixed, Typed',
           Disjoint', RangesInStream',
           \A x \in Nat : (\E k \in Keys : Covers(k, x)) => (\E k \in Keys' : Covers(k, x)'),
           SENT => \A x \in Nat : frame.start <= x /\ x < frame.end =>
                      \E k \in Keys' : Covers(k, x)',
           ~SENT => \A k \in Keys' : k < ranges'[k].endSeq => ranges'[k].endSeq <= lastSeq
    PROVE  StepInv'
<1>1. op' = "idle" /\ UNCHANGED <<nxt, base, phase, tcp>> /\ "idle" \notin Failures
  BY DEF Return, Fixed, envVars, Failures
<1>2. op \notin Failures
  BY DEF Failures
<1>3. Frontier'
  <2> SUFFICES ASSUME NEW x \in base .. nxt - 1
               PROVE  \E k \in Keys' : Covers(k, x)'
    BY <1>1 DEF Frontier
  <2>1. x \in Nat
    BY DEF StepInv, Typed
  <2>2. CASE \E k \in Keys : Covers(k, x)
    BY <2>1, <2>2
  <2>3. CASE ~\E k \in Keys : Covers(k, x)
    <3>1. Inserting /\ frame.start <= x /\ x < frame.end
      BY <1>2, <2>3 DEF StepInv, Frontier
    <3> QED
      BY <2>1, <3>1 DEF Inserting
  <2> QED
    BY <2>2, <2>3
<1>4. LastSeqBound'
  <2>1. CASE SENT
    <3>1. lastSeq' >= nxt'
      BY <1>1, <2>1, ReturnCatchesUp
    <3>2. \A k \in Keys' : k < ranges'[k].endSeq => ranges'[k].endSeq <= lastSeq'
      <4> TAKE k \in Keys'
      <4> HAVE k < ranges'[k].endSeq
      <4>1. ranges'[k].endSeq <= nxt'
        BY DEF RangesInStream
      <4>2. ranges'[k].endSeq \in Nat /\ nxt' \in Nat /\ lastSeq' \in Nat
        BY DEF Typed
      <4> QED
        BY <3>1, <4>1, <4>2
    <3> QED
      BY <3>1, <3>2 DEF LastSeqBound
  <2>2. CASE ~SENT
    <3>1. lastSeq' = lastSeq
      BY <2>2 DEF Return, SENT
    <3>2. lastSeq >= nxt
      BY <1>2, <2>2 DEF StepInv, LastSeqBound, CallInStream, Inserting
    <3> QED
      BY <1>1, <2>2, <3>1, <3>2 DEF LastSeqBound
  <2> QED
    BY <2>1, <2>2
<1>5. CallInStream'
  BY <1>1 DEF CallInStream
<1> QED
  BY <1>1, <1>3, <1>4, <1>5 DEF StepInv

\* A recursive call behind a range keeps the invariant.
LEMMA RecurseKeeps ==
    ASSUME StepInv, op = "insert", Fixed, Typed', Refined, Keys # {},
           NEW start \in Nat, Recurse(start), ~ZeroLength,
           frame.start < start, start < frame.end,
           \A x \in Nat : frame.start <= x /\ x < start =>
              \E k \in Keys' : Covers(k, x)'
    PROVE  StepInv'
<1>1. /\ UNCHANGED <<op, lastSeq, seg, nxt, base, phase, tcp>>
      /\ frame'.start = start /\ frame'.end = frame.end /\ frame'.itype = frame.itype
  BY DEF Recurse, Fixed, envVars
<1>2. op \notin Failures
  BY DEF Failures
<1>3. Inserting => Inserting'
  BY <1>1 DEF Inserting, SENT, ZeroLength, StepInv, Typed
<1>4. Frontier'
  <2> SUFFICES ASSUME NEW x \in base .. nxt - 1,
                      ~\E k \in Keys' : Covers(k, x)'
               PROVE  /\ Inserting'
                      /\ start <= x /\ x < frame.end
                      /\ \A k \in Keys' : k <= x
    BY <1>1 DEF Frontier
  <2>1. x \in Nat
    BY DEF StepInv, Typed
  <2>2. ~\E k \in Keys : Covers(k, x)
    BY <2>1 DEF Refined
  <2>3. Inserting /\ frame.start <= x /\ x < frame.end /\ \A k \in Keys : k <= x
    BY <1>2, <2>2 DEF StepInv, Frontier
  <2>4. start <= x
    BY <2>1, <2>3 DEF StepInv, Typed
  <2>5. ASSUME NEW k \in Keys' PROVE k <= x
    <3>1. CASE k \in Keys
      BY <2>3, <3>1
    <3>2. CASE \E j \in Keys : j < k /\ k < ranges[j].endSeq
      <4>1. PICK j \in Keys : j < k /\ k < ranges[j].endSeq
        BY <3>2
      <4>2. j <= x /\ ~Covers(j, x)
        BY <2>2, <2>3
      <4> QED
        BY <2>1, <4>1, <4>2 DEF Covers, StepInv, Typed
    <3> QED
      BY <3>1, <3>2 DEF Refined
  <2> QED
    BY <1>3, <2>3, <2>4, <2>5
<1>5. LastSeqBound'
  <2>1. \A k \in Keys' : k < ranges'[k].endSeq => ranges'[k].endSeq <= lastSeq'
    <3> TAKE k \in Keys'
    <3> HAVE k < ranges'[k].endSeq
    <3>1. PICK j \in Keys : j < ranges[j].endSeq /\ ranges'[k].endSeq <= ranges[j].endSeq
      BY DEF Refined
    <3>2. ranges[j].endSeq <= lastSeq
      BY <3>1 DEF StepInv, LastSeqBound
    <3> QED
      BY <1>1, <3>1, <3>2 DEF StepInv, Typed
  <2>2. lastSeq >= nxt \/ (Inserting /\ seg.endSeq = nxt /\ seg.seq <= lastSeq)
    BY <1>2 DEF StepInv, LastSeqBound
  <2> QED
    BY <1>1, <1>3, <2>1, <2>2 DEF LastSeqBound
<1>6. CallInStream'
  <2>1. /\ frame.end = seg.endSeq /\ seg.seq <= frame.start
        /\ SENT <=> phase = "sent"
        /\ seg.seq # seg.endSeq /\ base <= seg.seq /\ frame.end <= nxt
    BY DEF StepInv, CallInStream
  <2>2. ~ZeroLength'
    BY <1>1 DEF ZeroLength, StepInv, Typed
  <2> QED
    BY <1>1, <2>1, <2>2 DEF CallInStream, SENT, StepInv, Typed
<1> QED
  BY <1>1, <1>4, <1>5, <1>6 DEF StepInv, Refined

\* A return with a refined map that holds what the segment had left.
LEMMA RefinedReturnKeeps ==
    ASSUME StepInv, op = "insert", Return, Fixed, Typed', Refined,
           SENT => \A x \in Nat : frame.start <= x /\ x < frame.end =>
                      \E k \in Keys' : Covers(k, x)'
    PROVE  StepInv'
<1>1. \A k \in Keys' : k < ranges'[k].endSeq => ranges'[k].endSeq <= lastSeq
  <2> TAKE k \in Keys'
  <2> HAVE k < ranges'[k].endSeq
  <2>1. PICK j \in Keys : j < ranges[j].endSeq /\ ranges'[k].endSeq <= ranges[j].endSeq
    BY DEF Refined
  <2>2. ranges[j].endSeq <= lastSeq
    BY <2>1 DEF StepInv, LastSeqBound
  <2>3. ranges'[k].endSeq \in Nat /\ ranges[j].endSeq \in Nat /\ lastSeq \in Nat
    BY DEF StepInv, Typed
  <2> QED
    BY <2>1, <2>2, <2>3
<1> QED
  BY <1>1, ReturnKeeps DEF Refined

\* A failed assert ends the program with the map as it is.
LEMMA FailKeeps ==
    ASSUME StepInv, op = "insert", Fixed, Typed', Refined,
           NEW why \in Failures, Fail(why)
    PROVE  StepInv'
<1>1. op' \in Failures /\ UNCHANGED <<lastSeq, nxt, base>> /\ op' # "insert"
  BY DEF Fail, Fixed, envVars, Failures
<1>2. \A k \in Keys' : k < ranges'[k].endSeq => ranges'[k].endSeq <= lastSeq'
  <2> TAKE k \in Keys'
  <2> HAVE k < ranges'[k].endSeq
  <2>1. PICK j \in Keys : j < ranges[j].endSeq /\ ranges'[k].endSeq <= ranges[j].endSeq
    BY DEF Refined
  <2>2. ranges[j].endSeq <= lastSeq
    BY <2>1 DEF StepInv, LastSeqBound
  <2> QED
    BY <1>1, <2>1, <2>2 DEF StepInv, Typed
<1> QED
  BY <1>1, <1>2 DEF StepInv, Refined, Frontier, LastSeqBound, CallInStream

\* A byte at which a call stands, and that no range holds, lies behind every
\* range: what insertByteRange takes for the end of the stream is the end.
LEMMA AtTheEnd ==
    ASSUME StepInv, op = "insert", SENT, ~ZeroLength,
           ~\E k \in Keys : Covers(k, frame.start)
    PROVE  \A k \in Keys : k <= frame.start
<1>1. frame.start \in base .. nxt - 1
  BY DEF StepInv, CallInStream, Typed
<1>2. op \notin Failures
  BY DEF Failures
<1> QED
  BY <1>1, <1>2 DEF StepInv, Frontier

\* An empty range is only ever added at the end of the stream, or for the SYN.
LEMMA InsertZeroLengthKeeps ==
    ASSUME TypeOK, StepInv, InsertZeroLength, Fixed, Typed'
    PROVE  StepInv'
<1> DEFINE z == frame.start
<1>1. /\ z \notin Keys /\ Keys' = Keys \cup {z}
      /\ ranges'[z].endSeq = z
      /\ \A k \in Keys : ranges'[k].endSeq = ranges[k].endSeq
  BY InsertZeroLengthShape DEF TypeOK, KeptOutside
<1>2. /\ z = nxt \/ (z = nxt + 1 /\ tcp # "open") \/ z = 0
      /\ z = frame.end
      /\ op = "insert" /\ Return
  BY DEF InsertZeroLength, StepInv, CallInStream, ZeroLength
<1>3. UNCHANGED <<nxt, tcp>>
  BY DEF Fixed, envVars
<1>4. z \in Nat /\ nxt \in Nat /\ Keys \subseteq Nat /\ \A k \in Keys : ranges[k].endSeq \in Nat
  BY DEF StepInv, Typed
<1>5. Disjoint'
  <2> SUFFICES ASSUME NEW j \in Keys', NEW k \in Keys', j < k
               PROVE  ranges'[j].endSeq <= k
    BY DEF Disjoint
  <2>0. j \in Nat /\ k \in Nat /\ j < k
    BY <1>1, <1>4
  <2>1. CASE j = z
    <3>1. ranges'[j].endSeq = j
      BY <1>1, <2>1
    <3> QED
      BY <2>0, <3>1
  <2>2. CASE j \in Keys /\ k \in Keys
    BY <1>1, <2>2 DEF StepInv, Disjoint
  <2>3. CASE j \in Keys /\ k = z
    <3>1. z # 0
      BY <2>0, <2>3
    <3>2. j <= ranges[j].endSeq /\ (j < ranges[j].endSeq => ranges[j].endSeq <= nxt)
      BY <2>3 DEF StepInv, RangesInStream
    <3>3. z >= nxt
      BY <1>2, <1>4, <3>1
    <3>4. ranges'[j].endSeq = ranges[j].endSeq /\ ranges[j].endSeq \in Nat
      BY <1>1, <1>4, <2>3
    <3>5. k >= nxt
      BY <2>3, <3>3
    <3> QED
      BY <1>4, <2>0, <3>2, <3>4, <3>5
  <2> QED
    BY <1>1, <2>1, <2>2, <2>3
<1>6. RangesInStream'
  <2> SUFFICES ASSUME NEW k \in Keys'
               PROVE  /\ k <= ranges'[k].endSeq
                      /\ k < ranges'[k].endSeq => ranges'[k].endSeq <= nxt'
                      /\ k <= nxt' + 1
                      /\ tcp' = "open" => k <= nxt'
    BY DEF RangesInStream
  <2>1. CASE k \in Keys
    BY <1>1, <1>3, <2>1 DEF StepInv, RangesInStream
  <2>2. CASE k = z
    BY <1>1, <1>2, <1>3, <1>4, <2>2
  <2> QED
    BY <1>1, <2>1, <2>2
<1>7. \A x \in Nat : (\E k \in Keys : Covers(k, x)) => (\E k \in Keys' : Covers(k, x)')
  BY <1>1 DEF Covers
<1>8. \A x \in Nat : ~(frame.start <= x /\ x < frame.end)
  BY <1>2, <1>4
<1>9. \A k \in Keys' : k < ranges'[k].endSeq => ranges'[k].endSeq <= lastSeq
  BY <1>1, <1>4 DEF StepInv, LastSeqBound
<1> QED
  BY <1>2, <1>5, <1>6, <1>7, <1>8, <1>9, ReturnKeeps

\* A range that holds the start of the segment is the one the search finds: no
\* other lies between, they share no bytes.
LEMMA CoverIsHost ==
    ASSUME StepInv, frame.start \notin Keys, NEW k \in Keys, Covers(k, frame.start)
    PROVE  Host(k)
<1>1. /\ k < frame.start /\ frame.start < ranges[k].endSeq /\ frame.start \in Nat
      /\ Keys \subseteq Nat /\ ranges[k].endSeq \in Nat
  BY DEF StepInv, Typed, Covers
<1>2. \A j \in Keys : k < j => ranges[k].endSeq <= j
  BY DEF StepInv, Disjoint
<1> QED
  BY <1>1, <1>2 DEF Host, IsPrev

\* New data goes behind every range, and is the rest of the segment.
LEMMA InsertNewKeeps ==
    ASSUME TypeOK, StepInv, InsertNew, Fixed, Typed'
    PROVE  StepInv'
<1> DEFINE a == frame.start
           b == frame.end
<1>1. op = "insert" /\ ~ZeroLength /\ a \notin Keys /\ (a >= lastSeq \/ ~\E k \in Keys : Host(k))
  BY DEF InsertNew
<1>2. /\ a \in Nat /\ b \in Nat /\ nxt \in Nat /\ Keys \subseteq Nat /\ lastSeq \in Nat
      /\ \A k \in Keys : ranges[k].endSeq \in Nat
      /\ a < b /\ b <= nxt
  BY <1>1 DEF StepInv, Typed, CallInStream
<1>3. UNCHANGED <<nxt, tcp>>
  BY DEF Fixed, envVars
<1>4. CASE UNCHANGED ranges
  <2>1. CountsOnly
    BY <1>4 DEF CountsOnly, KeptOutside, RangeMap, TypeOK, rmTypeOK, Keys
  <2>2. Refined
    BY <1>3, <2>1, CountsOnlyRefines DEF StepInv
  <2>3. "assert_search" \in Failures /\ op \notin Failures
    BY <1>1 DEF Failures
  <2>4. CASE Fail("assert_search")
    BY <1>1, <2>2, <2>3, <2>4, FailKeeps
  <2>5. CASE Return /\ ~SENT
    BY <1>1, <2>2, <2>5, RefinedReturnKeeps
  <2>6. CASE Return /\ SENT
    <3>1. ranges' # ranges
      <4>1. a \in Keys'
        BY <2>3, <2>6, InsertNewShape DEF TypeOK, Return
      <4> QED
        BY <1>1, <4>1 DEF Keys
    <3> QED
      BY <1>4, <3>1
  <2> QED
    BY <2>4, <2>5, <2>6, <1>4, InsertNewShape DEF TypeOK
<1>5. CASE /\ SENT
           /\ KeptOutside({})
           /\ Keys' = Keys \cup {a}
           /\ ranges'[a].endSeq = b
           /\ Return
  <2>1. \A k \in Keys : ranges'[k].endSeq = ranges[k].endSeq
    BY <1>5 DEF KeptOutside
  <2>2. ~\E k \in Keys : Covers(k, a)
    <3> SUFFICES ASSUME NEW k \in Keys, Covers(k, a) PROVE FALSE
      OBVIOUS
    <3>1. k < a /\ a < ranges[k].endSeq
      BY <1>1, <1>2 DEF Covers
    <3>2. ranges[k].endSeq <= lastSeq
      BY <1>2, <3>1 DEF StepInv, LastSeqBound
    <3>3. Host(k)
      BY <1>1, CoverIsHost
    <3> QED
      BY <1>1, <1>2, <3>1, <3>2, <3>3
  <2>3. \A k \in Keys : k <= a
    BY <1>1, <1>5, <2>2, AtTheEnd
  <2>4. \A k \in Keys : ranges[k].endSeq <= a
    BY <1>2, <2>2, <2>3 DEF Covers
  <2>5. Disjoint'
    BY <1>1, <1>2, <1>5, <2>1, <2>3, <2>4 DEF StepInv, Disjoint
  <2>6. RangesInStream'
    <3> SUFFICES ASSUME NEW k \in Keys'
                 PROVE  /\ k <= ranges'[k].endSeq
                        /\ k < ranges'[k].endSeq => ranges'[k].endSeq <= nxt'
                        /\ k <= nxt' + 1
                        /\ tcp' = "open" => k <= nxt'
      BY DEF RangesInStream
    <3>1. CASE k \in Keys
      BY <1>3, <2>1, <3>1 DEF StepInv, RangesInStream
    <3>2. CASE k = a
      BY <1>2, <1>3, <1>5, <3>2
    <3> QED
      BY <1>5, <3>1, <3>2
  <2>7. \A x \in Nat : (\E k \in Keys : Covers(k, x)) => (\E k \in Keys' : Covers(k, x)')
    BY <1>5, <2>1 DEF Covers
  <2>8. \A x \in Nat : a <= x /\ x < b => \E k \in Keys' : Covers(k, x)'
    BY <1>5 DEF Covers
  <2> QED
    BY <1>1, <1>5, <2>5, <2>6, <2>7, <2>8, ReturnKeeps
<1> QED
  BY <1>4, <1>5, InsertNewShape DEF TypeOK

\* An empty range that data fills is the last one, so the data fits.
LEMMA FillEmptyKeeps ==
    ASSUME TypeOK, StepInv, FillEmpty, Fixed, Typed'
    PROVE  StepInv'
<1> DEFINE a == frame.start
           b == frame.end
<1>1. op = "insert" /\ ~ZeroLength /\ SENT
  BY DEF FillEmpty, StartFound
<1>2. /\ a \in Nat /\ b \in Nat /\ nxt \in Nat /\ Keys \subseteq Nat
      /\ \A k \in Keys : ranges[k].endSeq \in Nat
      /\ a < b /\ b <= nxt
  BY <1>1 DEF StepInv, Typed, CallInStream
<1>3. UNCHANGED <<nxt, tcp>>
  BY DEF Fixed, envVars
<1>4. /\ a \in Keys /\ ranges[a].endSeq = a /\ Keys' = Keys
      /\ \A k \in Keys : k # a => ranges'[k].endSeq = ranges[k].endSeq
  BY FillEmptyShape DEF TypeOK, KeptOutside
<1>5. ~\E k \in Keys : Covers(k, a)
  <2> SUFFICES ASSUME NEW k \in Keys, Covers(k, a) PROVE FALSE
    OBVIOUS
  <2>1. k <= a /\ a < ranges[k].endSeq /\ k \in Nat
    BY <1>2 DEF Covers
  <2>2. k # a
    BY <1>2, <1>4, <2>1
  <2>3. ranges[k].endSeq <= a
    BY <1>2, <1>4, <2>1, <2>2 DEF StepInv, Disjoint
  <2> QED
    BY <1>2, <2>1, <2>3
<1>6. \A k \in Keys : k <= a
  BY <1>1, <1>5, AtTheEnd
<1>7. ranges'[a].endSeq = b /\ Return
  <2>1. ~\E n \in Keys : IsNext(a, n)
    BY <1>2, <1>6 DEF IsNext
  <2> QED
    BY <2>1, FillEmptyShape DEF TypeOK
<1>8. Disjoint'
  <2> SUFFICES ASSUME NEW j \in Keys', NEW k \in Keys', j < k
               PROVE  ranges'[j].endSeq <= k
    BY DEF Disjoint
  <2>1. j \in Keys /\ k \in Keys /\ j # a
    BY <1>2, <1>4, <1>6
  <2> QED
    BY <1>4, <2>1 DEF StepInv, Disjoint
<1>9. RangesInStream'
  <2> SUFFICES ASSUME NEW k \in Keys'
               PROVE  /\ k <= ranges'[k].endSeq
                      /\ k < ranges'[k].endSeq => ranges'[k].endSeq <= nxt'
                      /\ k <= nxt' + 1
                      /\ tcp' = "open" => k <= nxt'
    BY DEF RangesInStream
  <2>1. CASE k # a
    BY <1>3, <1>4, <2>1 DEF StepInv, RangesInStream
  <2>2. CASE k = a
    BY <1>2, <1>3, <1>7, <2>2
  <2> QED
    BY <2>1, <2>2
<1>10. \A x \in Nat : (\E k \in Keys : Covers(k, x)) => (\E k \in Keys' : Covers(k, x)')
  <2> TAKE x \in Nat
  <2> HAVE \E k \in Keys : Covers(k, x)
  <2>1. PICK k \in Keys : Covers(k, x)
    OBVIOUS
  <2>2. k # a
    BY <1>2, <1>4, <2>1 DEF Covers
  <2> QED
    BY <1>4, <2>1, <2>2 DEF Covers
<1>11. \A x \in Nat : a <= x /\ x < b => \E k \in Keys' : Covers(k, x)'
  BY <1>4, <1>7 DEF Covers
<1> QED
  BY <1>1, <1>7, <1>8, <1>9, <1>10, <1>11, ReturnKeeps

\* A segment that starts inside a range cuts it, and goes on behind it.
LEMMA SplitHostKeeps ==
    ASSUME TypeOK, StepInv, SplitHost, Fixed, Typed'
    PROVE  StepInv'
<1> DEFINE a == frame.start
           b == frame.end
<1>1. op = "insert" /\ ~ZeroLength
  BY DEF SplitHost
<1>2. /\ a \in Nat /\ b \in Nat /\ nxt \in Nat /\ Keys \subseteq Nat
      /\ \A k \in Keys : ranges[k].endSeq \in Nat
      /\ a < b /\ b <= nxt
      /\ Typed /\ Disjoint /\ RangesInStream
  BY <1>1 DEF StepInv, Typed, CallInStream
<1>3. UNCHANGED <<nxt, tcp>>
  BY DEF Fixed, envVars
<1>4. PICK k \in Keys :
        /\ Host(k)
        /\ \/ /\ b > ranges[k].endSeq
              /\ CutAt(k, a)
              /\ Recurse(ranges[k].endSeq)
           \/ /\ b = ranges[k].endSeq
              /\ CutAt(k, a)
              /\ Return
           \/ /\ b < ranges[k].endSeq
              /\ KeptOutside({k})
              /\ Keys' = Keys \cup {a, b}
              /\ ranges'[k].endSeq = a
              /\ ranges'[a].endSeq = b
              /\ b \notin Keys => ranges'[b].endSeq = ranges[k].endSeq
              /\ Return
  BY SplitHostShape DEF TypeOK
<1>5. k < a /\ a < ranges[k].endSeq /\ k \in Nat /\ ranges[k].endSeq \in Nat
  BY <1>2, <1>4 DEF Host, IsPrev
<1>6. CASE CutAt(k, a)
  <2>1. Refined /\ a \in Keys' /\ ranges'[a].endSeq = ranges[k].endSeq
    <3>1. Refined /\ a \notin Keys
      BY <1>2, <1>3, <1>5, <1>6, CutRefines
    <3> QED
      BY <1>6, <3>1 DEF CutAt
  <2>2. \A x \in Nat : a <= x /\ x < ranges[k].endSeq => \E j \in Keys' : Covers(j, x)'
    BY <2>1 DEF Covers
  <2>3. CASE b > ranges[k].endSeq /\ Recurse(ranges[k].endSeq)
    <3>1. ranges[k].endSeq < b /\ Keys # {}
      BY <1>2, <1>5, <2>3
    <3> QED
      BY <1>1, <1>5, <2>1, <2>2, <2>3, <3>1, RecurseKeeps
  <2>4. CASE b = ranges[k].endSeq /\ Return
    <3>1. \A x \in Nat : a <= x /\ x < b => \E j \in Keys' : Covers(j, x)'
      BY <2>2, <2>4
    <3> QED
      BY <1>1, <2>1, <2>4, <3>1, RefinedReturnKeeps
  <2>5. CASE /\ b < ranges[k].endSeq
             /\ Keys' = Keys \cup {a, b}
             /\ ranges'[a].endSeq = b
             /\ b \notin Keys => ranges'[b].endSeq = ranges[k].endSeq
    <3>1. a \notin Keys /\ b \notin Keys
      BY <1>2, <1>5, <2>5 DEF Disjoint
    <3>2. Keys' = Keys \cup {a}
      BY <1>6 DEF CutAt
    <3> QED
      BY <1>2, <2>5, <3>1, <3>2
  <2> QED
    BY <1>4, <2>3, <2>4, <2>5
<1>7. CASE /\ b < ranges[k].endSeq
           /\ KeptOutside({k})
           /\ Keys' = Keys \cup {a, b}
           /\ ranges'[k].endSeq = a
           /\ ranges'[a].endSeq = b
           /\ b \notin Keys => ranges'[b].endSeq = ranges[k].endSeq
           /\ Return
  <2> DEFINE e == ranges[k].endSeq
  <2>1. a \notin Keys /\ b \notin Keys
    BY <1>2, <1>5, <1>7 DEF Disjoint
  <2>2. /\ ranges'[b].endSeq = e
        /\ \A j \in Keys : j # k => ranges'[j].endSeq = ranges[j].endSeq
        /\ k < a /\ a < b /\ b < e /\ e <= nxt
    BY <1>2, <1>5, <1>7, <2>1 DEF KeptOutside, RangesInStream
  <2>3. \A j \in Keys : (j < k => ranges[j].endSeq <= k) /\ (j > k => e <= j)
    BY <1>2 DEF Disjoint
  <2>4. Disjoint'
    <3> SUFFICES ASSUME NEW i \in Keys', NEW j \in Keys', i < j
                 PROVE  ranges'[i].endSeq <= j
      BY DEF Disjoint
    <3>1. i \in Nat /\ j \in Nat /\ e \in Nat
      BY <1>2, <1>5, <1>7
    <3>2. CASE i \in {k, a, b} /\ j \in {k, a, b}
      BY <1>2, <1>5, <1>7, <2>2, <3>1, <3>2
    <3>3. CASE i \in {k, a, b} /\ j \in Keys \ {k}
      <4>1. j > k
        BY <1>2, <1>5, <2>2, <3>1, <3>3
      <4>2. e <= j
        BY <2>3, <3>3, <4>1
      <4>3. ranges'[i].endSeq \in {a, b, e}
        BY <1>7, <2>2, <3>3
      <4> QED
        BY <1>2, <2>2, <3>1, <4>2, <4>3
    <3>4. CASE i \in Keys \ {k} /\ j \in {k, a, b}
      <4>1. i < k
        <5>1. CASE i > k
          <6>1. e <= i
            BY <2>3, <3>4, <5>1
          <6> QED
            BY <1>2, <1>5, <2>2, <3>1, <3>4, <6>1
        <5> QED
          BY <1>5, <3>1, <3>4, <5>1
      <4>2. ranges'[i].endSeq = ranges[i].endSeq /\ ranges[i].endSeq <= k /\ ranges[i].endSeq \in Nat
        BY <1>2, <2>2, <2>3, <3>4, <4>1
      <4>3. k <= j
        BY <1>2, <1>5, <2>2, <3>1, <3>4
      <4> QED
        BY <1>5, <3>1, <4>2, <4>3
    <3>5. CASE i \in Keys \ {k} /\ j \in Keys \ {k}
      BY <1>2, <2>2, <3>5 DEF Disjoint
    <3> QED
      BY <1>7, <3>2, <3>3, <3>4, <3>5
  <2>5. RangesInStream'
    <3> SUFFICES ASSUME NEW j \in Keys'
                 PROVE  /\ j <= ranges'[j].endSeq
                        /\ j < ranges'[j].endSeq => ranges'[j].endSeq <= nxt'
                        /\ j <= nxt' + 1
                        /\ tcp' = "open" => j <= nxt'
      BY DEF RangesInStream
    <3>1. CASE j \in Keys \ {k}
      BY <1>2, <1>3, <2>2, <3>1 DEF RangesInStream
    <3>2. CASE j \in {k, a, b}
      BY <1>2, <1>3, <1>5, <1>7, <2>2, <3>2
    <3> QED
      BY <1>7, <3>1, <3>2
  <2>6. \A x \in Nat : (\E j \in Keys : Covers(j, x)) => (\E j \in Keys' : Covers(j, x)')
    <3> TAKE x \in Nat
    <3> HAVE \E j \in Keys : Covers(j, x)
    <3>1. PICK j \in Keys : Covers(j, x)
      OBVIOUS
    <3>2. CASE j # k
      BY <1>7, <2>2, <3>1, <3>2 DEF Covers
    <3>3. CASE j = k
      <4>1. k <= x /\ x < e
        BY <3>1, <3>3 DEF Covers
      <4>2. x < a \/ (a <= x /\ x < b) \/ b <= x
        BY <1>2
      <4> QED
        BY <1>7, <2>2, <4>1, <4>2 DEF Covers
    <3> QED
      BY <3>2, <3>3
  <2>7. \A x \in Nat : a <= x /\ x < b => \E j \in Keys' : Covers(j, x)'
    BY <1>7 DEF Covers
  <2>8. \A j \in Keys' : j < ranges'[j].endSeq => ranges'[j].endSeq <= lastSeq
    <3> TAKE j \in Keys'
    <3> HAVE j < ranges'[j].endSeq
    <3>1. e <= lastSeq /\ lastSeq \in Nat
      BY <1>2, <1>5 DEF StepInv, LastSeqBound, Typed
    <3>2. CASE j \in {k, a, b}
      <4>1. ranges'[j].endSeq \in {a, b, e}
        BY <1>7, <2>2, <3>2
      <4> QED
        BY <1>2, <1>5, <2>2, <3>1, <4>1
    <3>3. CASE j \in Keys \ {k}
      BY <2>2, <3>3 DEF StepInv, LastSeqBound
    <3> QED
      BY <1>7, <3>2, <3>3
  <2> QED
    BY <1>1, <1>7, <2>4, <2>5, <2>6, <2>7, <2>8, ReturnKeeps
<1> QED
  BY <1>4, <1>6, <1>7

\* A segment that covers a range, or ends inside it, refines the map too.
LEMMA CoverKeeps ==
    ASSUME TypeOK, StepInv, SpanRange \/ SplitTail \/ UpdateRange, Fixed, Typed'
    PROVE  StepInv'
<1> DEFINE a == frame.start
           b == frame.end
<1>1. op = "insert" /\ ~ZeroLength /\ a \in Keys
  BY DEF SpanRange, SplitTail, UpdateRange, StartFound
<1>2. /\ a \in Nat /\ b \in Nat /\ nxt \in Nat /\ Keys \subseteq Nat
      /\ \A k \in Keys : ranges[k].endSeq \in Nat
      /\ a < b /\ b <= nxt
      /\ Typed /\ Disjoint /\ RangesInStream
  BY <1>1 DEF StepInv, Typed, CallInStream
<1>3. UNCHANGED <<nxt, tcp>>
  BY DEF Fixed, envVars
<1>4. CASE SpanRange
  <2>1. CountsOnly /\ Refined
    BY <1>2, <1>3, <1>4, CoverShape, CountsOnlyRefines DEF TypeOK
  <2>2. ranges[a].endSeq < b
    BY <1>4 DEF SpanRange
  <2>3. CASE Recurse(ranges[a].endSeq)
    <3>1. a < ranges[a].endSeq
      <4>1. CASE SENT
        BY <1>1, <1>2, <1>4, <4>1 DEF RangesInStream, SpanRange, byte_count
      <4>2. CASE ~SENT
        <5>1. a \in base .. nxt - 1 /\ op \notin Failures
          BY <1>1, <1>2 DEF StepInv, CallInStream, Typed, Failures
        <5>2. PICK k \in Keys : Covers(k, a)
          BY <4>2, <5>1 DEF StepInv, Frontier, Inserting
        <5>3. k \in Nat /\ k <= a /\ a < ranges[k].endSeq
          BY <1>2, <5>2 DEF Covers
        <5>4. k = a
          BY <1>1, <1>2, <5>3 DEF Disjoint
        <5> QED
          BY <5>3, <5>4
      <4> QED
        BY <4>1, <4>2
    <3> QED
      <4>1. \A x \in Nat : a <= x /\ x < ranges[a].endSeq => \E k \in Keys' : Covers(k, x)'
        BY <1>1, <2>1 DEF Covers, CountsOnly, KeptOutside
      <4>2. Keys # {} /\ ranges[a].endSeq \in Nat
        BY <1>1, <1>2
      <4> QED
        BY <1>1, <2>1, <2>2, <2>3, <3>1, <4>1, <4>2, RecurseKeeps
  <2>4. CASE Fail("assert_tstamp") \/ Fail("recursion_level")
    <3>1. "assert_tstamp" \in Failures /\ "recursion_level" \in Failures
      BY DEF Failures
    <3> QED
      BY <1>1, <2>1, <2>4, <3>1, FailKeeps
  <2> QED
    BY <1>4, <2>3, <2>4 DEF SpanRange
<1>5. CASE SplitTail
  <2>1. CutAt(a, b)
    BY <1>5, SplitTailShape DEF TypeOK
  <2>2. b < ranges[a].endSeq /\ Return
    BY <1>1, <1>2, <1>5 DEF SplitTail
  <2>3. Refined
    BY <1>1, <1>2, <1>3, <2>1, <2>2, CutRefines
  <2>4. \A x \in Nat : a <= x /\ x < b => \E k \in Keys' : Covers(k, x)'
    BY <1>1, <2>1 DEF Covers, CutAt
  <2> QED
    BY <1>1, <2>2, <2>3, <2>4, RefinedReturnKeeps
<1>6. CASE UpdateRange
  <2>1. CountsOnly /\ Refined
    BY <1>2, <1>3, <1>6, CoverShape, CountsOnlyRefines DEF TypeOK
  <2>2. ranges[a].endSeq = b /\ Return
    BY <1>6 DEF UpdateRange
  <2>3. \A x \in Nat : a <= x /\ x < b => \E k \in Keys' : Covers(k, x)'
    BY <1>1, <2>1, <2>2 DEF Covers, CountsOnly, KeptOutside
  <2> QED
    BY <1>1, <2>1, <2>2, <2>3, RefinedReturnKeeps
<1> QED
  BY <1>4, <1>5, <1>6

\* Acknowledgements refine the map.
LEMMA AckKeeps ==
    ASSUME TypeOK, StepInv, processAck, Fixed, Typed'
    PROVE  StepInv'
<1>1. op = "ack" /\ ack.it \in Keys /\ ack.ack \in Nat
  BY DEF TypeOK, rmTypeOK, Keys, Acks, processAck, AckLast, AckBeforeSent, AckMore,
         AckSplit, AckOld
<1>2. /\ UNCHANGED <<nxt, tcp, base, phase>>
      /\ Typed /\ Disjoint /\ RangesInStream
  BY DEF Fixed, envVars, StepInv
<1>3. Refined
  <2>1. CASE CountsOnly
    BY <1>2, <2>1, CountsOnlyRefines
  <2>2. CASE /\ ack.it < ack.ack /\ ack.ack < ranges[ack.it].endSeq
             /\ CutAt(ack.it, ack.ack)
    BY <1>1, <1>2, <2>2, CutRefines
  <2> QED
    BY <2>1, <2>2, AckShape DEF TypeOK
<1>4. /\ UNCHANGED lastSeq
      /\ op' \in {"idle", "ack", "bad_iterator"}
  BY <1>1 DEF processAck, AckLast, AckBeforeSent, AckMore, AckSplit, AckOld, AckReturn, IgnoreOld
<1>5. op \notin Failures /\ op # "insert" /\ op' # "insert" /\ ~Inserting
      /\ (op' = "bad_iterator" => op' \in Failures)
  BY <1>1, <1>4 DEF Failures, Inserting
<1>6. Frontier'
  <2> SUFFICES ASSUME NEW x \in base .. nxt - 1
               PROVE  \E k \in Keys' : Covers(k, x)'
    BY <1>2 DEF Frontier
  <2>1. x \in Nat
    BY <1>2 DEF Typed
  <2>2. \E k \in Keys : Covers(k, x)
    BY <1>5 DEF StepInv, Frontier
  <2> QED
    BY <1>3, <2>1, <2>2 DEF Refined
<1>7. LastSeqBound'
  <2>1. \A k \in Keys' : k < ranges'[k].endSeq => ranges'[k].endSeq <= lastSeq'
    <3> TAKE k \in Keys'
    <3> HAVE k < ranges'[k].endSeq
    <3>1. PICK j \in Keys : j < ranges[j].endSeq /\ ranges'[k].endSeq <= ranges[j].endSeq
      BY <1>3 DEF Refined
    <3>2. ranges[j].endSeq <= lastSeq
      BY <3>1 DEF StepInv, LastSeqBound
    <3>3. ranges'[k].endSeq \in Nat /\ ranges[j].endSeq \in Nat /\ lastSeq \in Nat
      BY DEF StepInv, Typed
    <3> QED
      BY <1>4, <3>1, <3>2, <3>3
  <2>2. lastSeq >= nxt
    BY <1>1, <1>5 DEF StepInv, LastSeqBound
  <2> QED
    BY <1>2, <1>4, <2>1, <2>2 DEF LastSeqBound
<1>8. CallInStream'
  BY <1>5 DEF CallInStream
<1> QED
  BY <1>2, <1>3, <1>6, <1>7, <1>8 DEF StepInv, Refined

\* Every step of the range manager keeps the invariant.
LEMMA RangeManagerKeeps ==
    ASSUME TypeOK, StepInv, RangeManagerStep, Typed'
    PROVE  StepInv'
<1>1. Fixed
  BY DEF RangeManagerStep, Fixed
<1>2. CASE UpdateZeroLength
  <2>1. CountsOnly
    BY <1>2, UpdateZeroLengthShape DEF TypeOK
  <2>2. Refined
    BY <1>1, <2>1, CountsOnlyRefines DEF StepInv, Fixed, envVars
  <2>3. op = "insert" /\ Return /\ frame.start = frame.end /\ frame.start \in Nat
    BY <1>2 DEF UpdateZeroLength, ZeroLength, StepInv, Typed
  <2>4. \A x \in Nat : ~(frame.start <= x /\ x < frame.end)
    BY <2>3
  <2> QED
    BY <1>1, <2>2, <2>3, <2>4, RefinedReturnKeeps
<1>3. CASE FailSynAck
  <2>1. /\ "assert_syn_ack" \in Failures /\ op = "insert" /\ Fail("assert_syn_ack")
        /\ UNCHANGED ranges
    BY <1>3 DEF FailSynAck, StartFound, Failures
  <2>2. CountsOnly
    BY <2>1 DEF CountsOnly, KeptOutside, RangeMap, TypeOK, rmTypeOK, Keys
  <2>3. Refined
    BY <1>1, <2>2, CountsOnlyRefines DEF StepInv, Fixed, envVars
  <2> QED
    BY <1>1, <2>1, <2>3, FailKeeps
<1> QED
  BY <1>1, <1>2, <1>3, InsertZeroLengthKeeps, InsertNewKeeps, FillEmptyKeeps,
     SplitHostKeeps, CoverKeeps, AckKeeps
     DEF RangeManagerStep, insertByteRange

-----------------------------------------------------------------------------
(* The steps of the environment. *)

\* A segment with payload is passed on as it is.
LEMMA DataCall ==
    ASSUME CountersInv, ~conn.closed, op = "idle",
           NEW seq \in Nat, NEW endSeq \in Nat, seq < endSeq,
           NEW flag \in {"none", "fin"}, processSent(seq, endSeq, flag)
    PROVE  /\ op' = "insert" /\ frame'.itype = "INSERT_SENT"
           /\ frame'.start = seq /\ frame'.end = endSeq
           /\ seg'.seq = seq /\ seg'.endSeq = endSeq
           /\ ~conn'.closed
           /\ UNCHANGED <<ranges, lastSeq, phase, base>>
<1> DEFINE s == [seq |-> seq, endSeq |-> endSeq, flag |-> flag,
                 retrans |-> FALSE, is_rdb |-> FALSE, rdb_end_seq |-> 0,
                 time |-> clock + 1, tstamp_tcp |-> tstamp_tcp(clock + 1)]
<1>1. s \in Segments /\ s.seq = seq /\ s.endSeq = endSeq
  BY NewSegment DEF CountersInv, TypeOK, Flags
<1>2. ~Ignored(s) /\ payloadSize(s) # 0
  BY <1>1 DEF Ignored, payloadSize
<1>3. conn' = countData(s) /\ Call(classify(s), "INSERT_SENT")
      /\ UNCHANGED <<ranges, lastSeq, phase, base>>
  BY <1>2 DEF processSent, insertSentRange
<1>4. ~conn'.closed
  <2>1. conn \in ConnCounters /\ LargestOrdered /\ TotalsConserved
    BY DEF CountersInv, TypeOK
  <2> HIDE DEF s
  <2>2. countData(s).closed = conn.closed
    BY <1>1, <2>1, CountDataType
  <2> QED
    BY <1>3, <2>2
<1> HIDE DEF s
<1>5. classify(s).seq = seq /\ classify(s).endSeq = endSeq
  BY <1>1, <1>2 DEF classify, Segments
<1> QED
  BY <1>3, <1>4, <1>5 DEF Call

\* A segment without payload is passed on as it is, or as a SYN at offset 0.
LEMMA EmptyCall ==
    ASSUME CountersInv, ~conn.closed, op = "idle",
           NEW seq \in Nat, NEW flag \in Flags, processSent(seq, seq, flag),
           flag = "syn" => seq <= SynSlack
    PROVE  /\ op' = "insert" /\ frame'.itype = "INSERT_SENT"
           /\ frame'.start = seg'.seq /\ frame'.end = seg'.seq
           /\ seg'.endSeq = seg'.seq /\ seg'.flag = flag
           /\ \/ seg'.seq = seq
              \/ seg'.seq = 0 /\ flag = "syn"
           /\ flag = "syn" /\ seq > conn.lastLargestEndSeq + 1 => seg'.seq = 0
           /\ ~conn'.closed
           /\ UNCHANGED <<ranges, lastSeq, phase, base>>
<1> DEFINE s == [seq |-> seq, endSeq |-> seq, flag |-> flag,
                 retrans |-> FALSE, is_rdb |-> FALSE, rdb_end_seq |-> 0,
                 time |-> clock + 1, tstamp_tcp |-> tstamp_tcp(clock + 1)]
<1>1. /\ s \in Segments /\ s.seq = seq /\ s.endSeq = seq /\ s.flag = flag
      /\ conn \in ConnCounters
  BY NewSegment DEF CountersInv, TypeOK
<1>2. ~Ignored(s) /\ payloadSize(s) = 0
  BY <1>1 DEF Ignored, payloadSize
<1>3. ~Reused(s)
  BY <1>1, BoundsAssumption DEF Reused
<1>4. /\ conn' = [conn EXCEPT !.nrPacketsSent = @ + 1, !.closed = @ \/ Reused(s)]
      /\ Call(classify(s), "INSERT_SENT")
      /\ UNCHANGED <<ranges, lastSeq, phase, base>>
  BY <1>2 DEF processSent, insertSentRange
<1>5. ~conn'.closed
  BY <1>1, <1>3, <1>4 DEF ConnCounters
<1>6. flag = "syn" /\ seq > conn.lastLargestEndSeq + 1 => Restarted(s)
  <2>1. conn.lastLargestEndSeq \in Nat
    BY <1>1, CounterFields
  <2> QED
    BY <1>1, <2>1, BoundsAssumption DEF Restarted, Unexpected
<1>7. Restarted(s) => flag = "syn"
  BY <1>1 DEF Restarted
<1> HIDE DEF s
<1>8. /\ classify(s).endSeq = classify(s).seq /\ classify(s).flag = flag
      /\ classify(s).seq = IF Restarted(s) THEN 0 ELSE seq
  BY <1>1, <1>2 DEF classify, Segments
<1> QED
  BY <1>4, <1>5, <1>6, <1>7, <1>8 DEF Call

\* What lies within a stream lies within one that goes further.
LEMMA Below ==
    ASSUME NEW m \in Nat, NEW n \in Nat, m <= n
    PROVE  \A a \in Nat : /\ a <= m => a <= n
                          /\ a <= m + 1 => a <= n + 1
OBVIOUS

\* What does not lie within the stream lies in its extension.
LEMMA Between ==
    ASSUME NEW l \in Nat, NEW m \in Nat, NEW n \in Nat, NEW x \in l .. n - 1, x >= m
    PROVE  x \in Nat /\ x < n /\ n # m
OBVIOUS

\* Sending data keeps the invariant: it ends within the stream, and new data
\* begins at or before the stream's end.
LEMMA DataKeeps ==
    ASSUME CountersInv, PartitionInv, Typed', op = "idle", phase = "sent",
           base = 0 \/ Keys # {},
           NEW seq \in Nat, NEW endSeq \in Nat, seq < endSeq,
           NEW flag \in {"none", "fin"}, processSent(seq, endSeq, flag),
           base <= seq, seq <= nxt, nxt <= nxt', endSeq <= nxt',
           nxt' = nxt \/ (endSeq = nxt' /\ tcp = "open"),
           tcp' = "open" => tcp = "open", reuse' = reuse
    PROVE  PartitionInv'
<1>1. Typed /\ ~conn.closed
  BY TypedFrom DEF CountersInv, PartitionInv
<1>2. /\ op' = "insert" /\ frame'.itype = "INSERT_SENT"
      /\ frame'.start = seq /\ frame'.end = endSeq
      /\ seg'.seq = seq /\ seg'.endSeq = endSeq
      /\ ~conn'.closed
      /\ UNCHANGED <<ranges, lastSeq, phase, base>>
  BY <1>1, DataCall
<1>3. Keys' = Keys /\ SENT' /\ ~ZeroLength' /\ Inserting' /\ ~Inserting
      /\ op' \notin Failures /\ op \notin Failures
  BY <1>2 DEF Keys, SENT, ZeroLength, Inserting, Failures
<1>4. nxt \in Nat /\ nxt' \in Nat /\ base \in Nat /\ lastSeq \in Nat /\ Keys \subseteq Nat
      /\ \A k \in Keys : ranges[k].endSeq \in Nat
  BY <1>1 DEF Typed
<1>5. base' <= nxt'
  BY <1>2, <1>4 DEF PartitionInv
<1>6. Disjoint'
  BY <1>2, <1>3 DEF PartitionInv, Disjoint
<1>7. RangesInStream'
  <2> SUFFICES ASSUME NEW k \in Keys
               PROVE  /\ k <= ranges[k].endSeq
                      /\ k < ranges[k].endSeq => ranges[k].endSeq <= nxt'
                      /\ k <= nxt' + 1
                      /\ tcp' = "open" => k <= nxt'
    BY <1>2, <1>3 DEF RangesInStream
  <2>1. /\ k <= ranges[k].endSeq
        /\ k < ranges[k].endSeq => ranges[k].endSeq <= nxt
        /\ k <= nxt + 1
        /\ tcp = "open" => k <= nxt
    BY DEF PartitionInv, RangesInStream
  <2>2. k \in Nat /\ ranges[k].endSeq \in Nat
    BY <1>4
  <2>3. k <= nxt' + 1 /\ (k < ranges[k].endSeq => ranges[k].endSeq <= nxt')
    BY <1>4, <2>1, <2>2, Below
  <2>4. ASSUME tcp' = "open" PROVE k <= nxt'
    <3>1. k <= nxt
      BY <2>1, <2>4
    <3> QED
      BY <1>4, <2>2, <3>1
  <2> QED
    BY <2>1, <2>3, <2>4
<1>8. Frontier'
  <2> SUFFICES ASSUME NEW x \in base .. nxt' - 1
               PROVE  \/ \E k \in Keys : Covers(k, x)
                      \/ seq <= x /\ x < endSeq /\ \A k \in Keys : k <= x
    BY <1>2, <1>3 DEF Frontier, Covers
  <2>1. CASE x < nxt
    <3>1. x \in base .. nxt - 1
      BY <1>4, <2>1
    <3> QED
      BY <1>3, <3>1 DEF PartitionInv, Frontier
  <2>2. CASE x >= nxt
    <3>0. x \in Nat /\ x < nxt' /\ nxt' # nxt
      BY <1>4, <2>2, Between
    <3>1. endSeq = nxt' /\ tcp = "open" /\ seq <= x /\ x < endSeq
      <4>1. endSeq = nxt' /\ tcp = "open"
        BY <3>0
      <4>2. seq <= x
        BY <1>4, <2>2, <3>0
      <4> QED
        BY <3>0, <4>1, <4>2
    <3>2. ASSUME NEW k \in Keys PROVE k <= x
      <4>1. k <= nxt /\ k \in Nat
        BY <1>4, <3>1 DEF PartitionInv, RangesInStream
      <4> QED
        BY <1>4, <2>2, <4>1
    <3> QED
      BY <3>1, <3>2
  <2>3. x \in Int /\ nxt \in Int
    BY <1>4
  <2>4. x < nxt \/ x >= nxt
    BY <2>3
  <2> QED
    BY <2>1, <2>2, <2>4
<1>9. LastSeqBound'
  <2>1. lastSeq >= nxt
    <3>1. ~(base = 1 /\ Keys = {})
      OBVIOUS
    <3> QED
      BY <1>3, <3>1 DEF PartitionInv, LastSeqBound
  <2>2. lastSeq' >= nxt' \/ (seg'.endSeq = nxt' /\ seg'.seq <= lastSeq')
    BY <1>2, <1>4, <2>1
  <2>3. \A k \in Keys' : k < ranges'[k].endSeq => ranges'[k].endSeq <= lastSeq'
    BY <1>2, <1>3 DEF PartitionInv, LastSeqBound
  <2> QED
    BY <1>3, <2>2, <2>3 DEF LastSeqBound
<1>10. CallInStream'
  <2>1. /\ base' <= seg'.seq /\ frame'.start < frame'.end /\ frame'.end <= nxt'
        /\ frame'.end = seg'.endSeq /\ seg'.seq <= frame'.start
        /\ seg'.seq # seg'.endSeq /\ phase' = "sent"
    BY <1>2
  <2> QED
    BY <1>3, <2>1 DEF CallInStream
<1> QED
  BY <1>2, <1>5, <1>6, <1>7, <1>8, <1>9, <1>10 DEF PartitionInv

\* So does sending a segment without payload at the end of the stream.
LEMMA EmptyKeeps ==
    ASSUME CountersInv, PartitionInv, Typed', op = "idle", phase = "sent",
           NEW seq \in Nat, NEW flag \in Flags, processSent(seq, seq, flag),
           flag = "syn" => /\ seq <= SynSlack /\ base = 1 /\ nxt = 1
                           /\ seq = 0 \/ seq > conn.lastLargestEndSeq + 1,
           flag # "syn" => /\ base = 0 \/ Keys # {}
                           /\ seq = nxt \/ (seq = nxt + 1 /\ tcp # "open"),
           nxt' = nxt, tcp' = "open" => tcp = "open", reuse' = reuse
    PROVE  PartitionInv'
<1>1. Typed /\ ~conn.closed
  BY TypedFrom DEF CountersInv, PartitionInv
<1>2. /\ op' = "insert" /\ frame'.itype = "INSERT_SENT"
      /\ frame'.start = seg'.seq /\ frame'.end = seg'.seq
      /\ seg'.endSeq = seg'.seq /\ seg'.flag = flag
      /\ seg'.seq = seq \/ (seg'.seq = 0 /\ flag = "syn")
      /\ flag = "syn" /\ seq > conn.lastLargestEndSeq + 1 => seg'.seq = 0
      /\ ~conn'.closed
      /\ UNCHANGED <<ranges, lastSeq, phase, base>>
  BY <1>1, EmptyCall
<1>3. Keys' = Keys /\ SENT' /\ ZeroLength' /\ op' \notin Failures /\ op \notin Failures /\ ~Inserting
  BY <1>2 DEF Keys, SENT, ZeroLength, Inserting, Failures
<1>4. nxt \in Nat /\ base \in Nat /\ lastSeq \in Nat /\ Keys \subseteq Nat /\ seg'.seq \in Nat
  BY <1>1 DEF Typed
<1>5. base' <= nxt'
  BY <1>2 DEF PartitionInv
<1>6. Disjoint' /\ RangesInStream'
  BY <1>2, <1>3 DEF PartitionInv, Disjoint, RangesInStream
<1>7. Frontier'
  BY <1>2, <1>3 DEF PartitionInv, Frontier, Covers
<1>8. LastSeqBound'
  BY <1>2, <1>3 DEF PartitionInv, LastSeqBound
<1>9. CallInStream'
  <2>1. flag = "syn" => seg'.seq = 0
    BY <1>2
  <2>2. seg'.seq = nxt \/ (seg'.seq = nxt + 1 /\ tcp # "open") \/ (seg'.seq = 0 /\ base = 1 /\ flag = "syn")
    BY <1>2, <2>1
  <2>3. tcp # "open" => tcp' # "open"
    OBVIOUS
  <2> QED
    BY <1>2, <1>3, <1>4, <2>1, <2>2, <2>3 DEF CallInStream
<1> QED
  BY <1>2, <1>5, <1>6, <1>7, <1>8, <1>9 DEF PartitionInv

\* Every step of the sender, for a complete capture.
LEMMA SendKeeps ==
    ASSUME CompleteCapture, CountersInv, PartitionInv, Typed', SendStep
    PROVE  PartitionInv'
<1>1. /\ nxt \in Nat /\ nxt + 1 \in Nat /\ tcp \in {"open", "fin", "rst"}
      /\ base \in {0, 1} /\ SndNxt \in Nat /\ base <= nxt /\ reuse = {}
      /\ SynOffsets \subseteq Nat /\ MaxPayload \in Nat /\ MaxSeq \in Nat
  BY BoundsAssumption DEF CountersInv, PartitionInv, TypeOK, SndNxt
<1>2. {"none", "fin", "syn", "rst"} \subseteq Flags
  BY DEF Flags
<1>3. Established => /\ phase = "sent" /\ op = "idle" /\ tcp # "rst"
                     /\ base = 0 \/ Keys # {}
  BY DEF Established, CanSend
<1>4. SndNxt = nxt \/ (SndNxt = nxt + 1 /\ tcp # "open")
  BY DEF SndNxt
<1>5. CASE SendSyn
  <2>1. /\ processSent(0, 0, "syn") /\ UNCHANGED <<nxt, tcp, reuse>>
        /\ base = 1 /\ nxt = 1 /\ phase = "sent" /\ op = "idle"
    BY <1>5 DEF SendSyn, CanSend
  <2>2. 0 \in Nat /\ 0 <= SynSlack
    BY BoundsAssumption
  <2> QED
    BY <1>2, <2>1, <2>2, EmptyKeeps
<1>6. CASE SendPureAck
  <2>1. processSent(SndNxt, SndNxt, "none") /\ UNCHANGED <<nxt, tcp, reuse>> /\ Established
    BY <1>6 DEF SendPureAck
  <2> QED
    BY <1>1, <1>2, <1>3, <1>4, <2>1, EmptyKeeps
<1>7. CASE SendFin
  <2>1. processSent(nxt, nxt, "fin") /\ UNCHANGED <<nxt, reuse>> /\ tcp' = "fin" /\ Established
    BY <1>7 DEF SendFin
  <2> QED
    BY <1>1, <1>2, <1>3, <2>1, EmptyKeeps
<1>8. CASE SendRst
  <2>1. /\ processSent(SndNxt, SndNxt, "rst") /\ UNCHANGED <<nxt, reuse>>
        /\ tcp' = "rst" /\ Established
    BY <1>8 DEF SendRst
  <2> QED
    BY <1>1, <1>2, <1>3, <1>4, <2>1, EmptyKeeps
<1>9. CASE SendKeepAlive
  BY <1>9 DEF SendKeepAlive, CompleteCapture
<1>10. CASE \E d \in SynOffsets : SendOtherSyn(d)
  <2>1. PICK d \in SynOffsets : SendOtherSyn(d)
    BY <1>10
  <2>2. d \in Nat /\ d <= SynSlack /\ SynSlack \in Nat
    BY <1>1, BoundsAssumption DEF CompleteCapture
  <2>3. ~(d > SynSlack)
    BY <2>2
  <2>4. /\ processSent(d, d, "syn") /\ UNCHANGED <<nxt, tcp, reuse>>
        /\ base = 1 /\ nxt = 1 /\ phase = "sent" /\ op = "idle"
    BY <2>1, <2>2, <2>3 DEF SendOtherSyn, CanSend
  <2>5. d > conn.lastLargestEndSeq + 1
    BY <2>1, <2>2, RetryUnexpected
  <2> QED
    BY <1>2, <2>2, <2>4, <2>5, EmptyKeeps
<1>11. ASSUME NEW n \in 1 .. MaxPayload,
              \/ SendReused(n)
              \/ \E flag \in {"none", "fin"} :
                   \/ SendNew(n, flag)
                   \/ \E s \in 0 .. MaxSeq : Retransmit(s, n, flag)
              \/ \E s \in 0 .. MaxSeq : SendBundle(s, n)
       PROVE  PartitionInv'
  <2>1. n \in Nat /\ n >= 1
    BY <1>1
  <2>2. CASE SendReused(n)
    BY <1>1, <2>2 DEF SendReused
  <2>3. ASSUME NEW flag \in {"none", "fin"}, SendNew(n, flag)
        PROVE  PartitionInv'
    <3>1. /\ processSent(nxt, nxt + n, flag) /\ Established /\ tcp = "open"
          /\ nxt' = nxt + n /\ UNCHANGED reuse
      BY <2>3 DEF SendNew
    <3>2. nxt + n \in Nat /\ nxt < nxt + n /\ nxt <= nxt' /\ nxt + n <= nxt' /\ nxt <= nxt
      BY <1>1, <2>1, <3>1
    <3> QED
      BY <1>1, <1>3, <3>1, <3>2, DataKeeps
  <2>4. ASSUME NEW flag \in {"none", "fin"}, NEW s \in 0 .. MaxSeq, Retransmit(s, n, flag)
        PROVE  PartitionInv'
    <3>1. /\ processSent(s, s + n, flag) /\ Established /\ base <= s /\ s + n <= nxt
          /\ UNCHANGED <<nxt, tcp, reuse>>
      BY <2>4 DEF Retransmit
    <3>2. s \in Nat /\ s + n \in Nat /\ s < s + n /\ s <= nxt /\ nxt <= nxt' /\ s + n <= nxt'
      BY <1>1, <2>1, <3>1
    <3> QED
      BY <1>1, <1>3, <3>1, <3>2, DataKeeps
  <2>5. ASSUME NEW s \in 0 .. MaxSeq, SendBundle(s, n)
        PROVE  PartitionInv'
    <3>1. /\ processSent(s, s + n, "none") /\ Established /\ base <= s /\ s < nxt
          /\ s + n > nxt /\ nxt' = s + n /\ tcp = "open" /\ UNCHANGED <<tcp, reuse>>
      BY <2>5 DEF SendBundle
    <3>2. s \in Nat /\ s + n \in Nat /\ s < s + n /\ s <= nxt /\ nxt <= nxt' /\ s + n <= nxt'
      BY <1>1, <2>1, <3>1
    <3> QED
      BY <1>1, <1>3, <3>1, <3>2, DataKeeps
  <2> QED
    BY <1>11, <2>2, <2>3, <2>4, <2>5
<1> QED
  BY <1>5, <1>6, <1>7, <1>8, <1>9, <1>10, <1>11 DEF SendStep

\* A step that neither the map nor the stream takes part in.
LEMMA PassKeeps ==
    ASSUME PartitionInv, UNCHANGED <<ranges, lastSeq, conn, base, nxt, tcp, reuse>>,
           \/ UNCHANGED <<op, frame, seg, phase>>
           \/ op = "idle" /\ op' \in {"idle", "ack"} /\ (phase = "sent" => Keys # {} \/ phase' = "sent")
    PROVE  PartitionInv'
<1>1. Keys' = Keys /\ Disjoint' /\ RangesInStream'
  BY DEF PartitionInv, Keys, Disjoint, RangesInStream
<1>2. CASE UNCHANGED <<op, frame, seg, phase>>
  <2>1. /\ SENT' = SENT /\ ZeroLength' = ZeroLength /\ Inserting' = Inserting
    BY <1>2 DEF SENT, ZeroLength, Inserting
  <2>2. Frontier'
    BY <1>1, <1>2, <2>1 DEF PartitionInv, Frontier, Covers
  <2>3. LastSeqBound'
    BY <1>1, <1>2, <2>1 DEF PartitionInv, LastSeqBound
  <2>4. CallInStream'
    BY <1>1, <1>2, <2>1 DEF PartitionInv, CallInStream
  <2> QED
    BY <1>1, <2>2, <2>3, <2>4 DEF PartitionInv
<1>3. CASE op = "idle" /\ op' \in {"idle", "ack"} /\ (phase = "sent" => Keys # {} \/ phase' = "sent")
  <2>1. ~Inserting /\ op \notin Failures /\ op' \notin Failures /\ op' # "insert"
    BY <1>3 DEF Inserting, Failures
  <2>2. Frontier'
    BY <1>1, <2>1 DEF PartitionInv, Frontier, Covers
  <2>3. LastSeqBound'
    BY <1>1, <1>3, <2>1 DEF PartitionInv, LastSeqBound
  <2>4. CallInStream'
    BY <2>1 DEF CallInStream
  <2> QED
    BY <1>1, <2>2, <2>3, <2>4 DEF PartitionInv
<1> QED
  BY <1>2, <1>3

\* A segment of the receiver's trace lies in the stream.
LEMMA RecvKeeps ==
    ASSUME CountersInv, PartitionInv, Typed',
           NEW s \in Nat, NEW e \in Nat, NEW flag \in {"none", "syn", "fin"},
           NEW ts, processRecvd(s, e, flag, ts)
    PROVE  PartitionInv'
<1> DEFINE g == [seq |-> s, endSeq |-> e, flag |-> flag, retrans |-> FALSE,
                 is_rdb |-> FALSE, rdb_end_seq |-> 0,
                 time |-> clock + 1, tstamp_tcp |-> ts]
<1>1. g.seq = s /\ g.endSeq = e /\ g.flag = flag
  OBVIOUS
<1>2. /\ Call(g, "INSERT_RECV") /\ phase = "recv"
      /\ \/ base <= s /\ s < e /\ e <= nxt
         \/ s = e /\ s \in {nxt, SndNxt}
         \/ s = e /\ s = 0 /\ base = 1 /\ flag = "syn"
      /\ UNCHANGED <<ranges, lastSeq, conn, phase, base, nxt, tcp, reuse>>
  BY DEF processRecvd, insertReceivedRange
<1> HIDE DEF g
<1>3. /\ op = "idle" /\ op' = "insert"
      /\ frame'.start = s /\ frame'.end = e /\ frame'.itype = "INSERT_RECV"
      /\ seg'.seq = s /\ seg'.endSeq = e /\ seg'.flag = flag
  BY <1>1, <1>2 DEF Call
<1>4. /\ Keys' = Keys /\ ~SENT' /\ ~Inserting /\ ~Inserting'
      /\ op \notin Failures /\ op' \notin Failures
      /\ (ZeroLength' <=> s = e)
  BY <1>2, <1>3 DEF Keys, SENT, Inserting, ZeroLength, Failures
<1>5. Disjoint' /\ RangesInStream'
  BY <1>2, <1>4 DEF PartitionInv, Disjoint, RangesInStream
<1>6. Frontier'
  BY <1>2, <1>4 DEF PartitionInv, Frontier, Covers
<1>7. LastSeqBound'
  BY <1>2, <1>4 DEF PartitionInv, LastSeqBound
<1>8. CallInStream'
  <2>1. s # e => base <= s /\ s < e /\ e <= nxt
    BY <1>2
  <2>2. s = e => \/ s = nxt
                 \/ s = nxt + 1 /\ tcp # "open"
                 \/ s = 0 /\ base = 1 /\ flag = "syn"
    BY <1>2 DEF SndNxt
  <2> QED
    BY <1>2, <1>3, <1>4, <2>1, <2>2 DEF CallInStream
<1> QED
  BY <1>2, <1>5, <1>6, <1>7, <1>8 DEF PartitionInv

-----------------------------------------------------------------------------
(* The theorems. *)

\* It holds before the first packet.
LEMMA InitPartition == Init => PartitionInv
<1> SUFFICES ASSUME Init PROVE PartitionInv
  OBVIOUS
<1>1. /\ Keys = {} /\ op = "idle" /\ lastSeq = 0 /\ nxt = base /\ base \in {0, 1}
      /\ ~conn.closed /\ reuse = {} /\ phase = "sent"
  BY BoundsAssumption DEF Init, rmInit, Keys
<1>2. base <= nxt /\ base .. nxt - 1 = {}
  BY <1>1
<1>3. LastSeqBound
  <2>1. lastSeq >= nxt \/ (base = 1 /\ nxt = 1)
    BY <1>1
  <2> QED
    BY <1>1, <2>1 DEF LastSeqBound
<1> QED
  BY <1>1, <1>2, <1>3
     DEF PartitionInv, Disjoint, RangesInStream, Frontier, CallInStream

\* The primed form of TypedFrom.
LEMMA TypedNext ==
    ASSUME TypeOK'
    PROVE  Typed'
<1>1. /\ DOMAIN ranges' \subseteq Nat
      /\ \A k \in DOMAIN ranges' : ranges'[k] \in ByteRanges
      /\ lastSeq' \in Nat /\ frame' \in Frames /\ seg' \in Segments
  BY DEF TypeOK, rmTypeOK
<1>2. nxt' \in Nat /\ base' \in {0, 1}
  BY DEF TypeOK
<1>3. \A k \in DOMAIN ranges' : ranges'[k].endSeq \in Nat
  BY <1>1 DEF ByteRanges
<1>4. /\ frame'.start \in Nat /\ frame'.end \in Nat
      /\ seg'.seq \in Nat /\ seg'.endSeq \in Nat
  BY <1>1 DEF Frames, Segments
<1> QED
  BY <1>1, <1>2, <1>3, <1>4 DEF Typed, Keys

\* Every step of a complete capture keeps the invariant.
LEMMA NextPartition ==
    ASSUME CompleteCapture, CountersInv, PartitionInv, [Next]_vars, CountersInv'
    PROVE  PartitionInv'
<1>1. Typed /\ Typed' /\ TypeOK /\ StepInv
  <2>1. TypeOK /\ TypeOK'
    BY DEF CountersInv
  <2>2. Typed
    BY <2>1, TypedFrom
  <2>3. Typed'
    BY <2>1, TypedNext
  <2> QED
    BY <2>1, <2>2, <2>3 DEF StepInv, PartitionInv
<1>2. CASE UNCHANGED vars
  <2>1. UNCHANGED <<ranges, lastSeq, conn, base, nxt, tcp, reuse, op, frame, seg, phase>>
    BY <1>2 DEF vars, rmVars, envVars
  <2> QED
    BY <2>1, PassKeeps
<1>3. CASE RangeManagerStep
  <2>1. StepInv'
    BY <1>1, <1>3, RangeManagerKeeps
  <2>2. ~conn'.closed /\ reuse' = {}
    BY <1>3 DEF RangeManagerStep, envVars, PartitionInv
  <2> QED
    BY <2>1, <2>2 DEF StepInv, PartitionInv
<1>4. CASE SendStep
  BY <1>1, <1>4, SendKeeps
<1>5. ASSUME NEW n \in 1 .. MaxPayload, DropNew(n) PROVE PartitionInv'
  BY <1>5 DEF DropNew, CompleteCapture
<1>6. ASSUME NEW a \in 0 .. MaxSeq + 2, NEW echo \in BOOLEAN, AckArrives(a, echo)
      PROVE  PartitionInv'
  <2>1. UNCHANGED <<ranges, lastSeq, conn, base, nxt, tcp, reuse, op, frame, seg, phase>>
    BY <1>6 DEF AckArrives, rmVars
  <2> QED
    BY <2>1, PassKeeps
<1>7. ASSUME NEW s \in 0 .. MaxSeq + 1, NEW n \in 0 .. MaxPayload,
             NEW flag \in {"none", "syn", "fin"},
             NEW ts \in {0} \cup {p.ts : p \in wire \cup arrived}, processRecvd(s, s + n, flag, ts)
      PROVE  PartitionInv'
  <2>1. s \in Nat /\ s + n \in Nat
    BY BoundsAssumption
  <2> QED
    BY <1>1, <1>7, <2>1, RecvKeeps
<1>8. CASE StartAcks \/ StartRecv
  <2>1. /\ UNCHANGED <<ranges, lastSeq, conn, base, nxt, tcp, reuse>>
        /\ op = "idle" /\ op' = "idle"
        /\ phase = "sent" => Keys # {}
    BY <1>8 DEF StartAcks, StartRecv, rmVars
  <2> QED
    BY <2>1, PassKeeps
<1>9. CASE processAcks
  <2>1. PICK first \in Keys :
          CallAck(acks[ackNo + 1].ack, acks[ackNo + 1].time, acks[ackNo + 1].echo, first)
    BY <1>9 DEF processAcks
  <2>2. /\ UNCHANGED <<ranges, lastSeq, conn, base, nxt, tcp, reuse, phase>>
        /\ op = "idle" /\ op' \in {"idle", "ack"}
        /\ phase = "sent" => phase' = "sent"
    BY <1>9, <2>1 DEF processAcks, CallAck
  <2> QED
    BY <2>2, PassKeeps
<1> QED
  BY <1>2, <1>3, <1>4, <1>5, <1>6, <1>7, <1>8, <1>9, NextCases

\* The inductive invariant holds of a capture that misses nothing: the ranges are
\* disjoint and lie in the stream, what no range holds yet is what the call in
\* progress is about to register, and lastSeq bounds both.
THEOREM PartitionHolds ==
    ASSUME CompleteCapture
    PROVE  Spec => []PartitionInv
<1>1. Init => CountersInv /\ PartitionInv
  BY InitCounters, InitPartition
<1>2. CountersInv /\ PartitionInv /\ [Next]_vars => (CountersInv /\ PartitionInv)'
  <2> SUFFICES ASSUME CountersInv, PartitionInv, [Next]_vars
               PROVE  CountersInv' /\ PartitionInv'
    OBVIOUS
  <2>1. CountersInv'
    BY NextCounters
  <2>2. PartitionInv'
    BY <2>1, NextPartition
  <2> QED
    BY <2>1, <2>2
<1> QED
  BY <1>1, <1>2, PTL DEF Spec

\* For a capture that misses nothing, two ranges never share a byte, in the
\* middle of a call of insertByteRange or processAck either: every split, every
\* insertion and every filled gap keeps the map a partition.
THEOREM RangesAlwaysDisjoint ==
    ASSUME CompleteCapture
    PROVE  Spec => []Disjoint
<1>1. PartitionInv => Disjoint
  BY DEF PartitionInv
<1> QED
  BY <1>1, PartitionHolds, PTL

\* For a capture that misses nothing, the ranges hold every byte of the stream
\* whenever no call is in progress: validateContent finds no gap.
THEOREM StreamAlwaysCovered ==
    ASSUME CompleteCapture
    PROVE  Spec => []StreamCovered
<1>1. PartitionInv => StreamCovered
  <2> SUFFICES ASSUME PartitionInv, op = "idle", NEW x \in base .. nxt - 1
               PROVE  \E k \in Keys : Covers(k, x)
    BY DEF StreamCovered
  <2>1. ~Inserting /\ op \notin Failures
    BY DEF Inserting, Failures
  <2> QED
    BY <2>1 DEF PartitionInv, Frontier
<1> QED
  BY <1>1, PartitionHolds, PTL

-----------------------------------------------------------------------------
(* The history of a range. *)

\* s has the times of r: of its first transmission and of its acknowledgement.
Kept(s, r) ==
    /\ s.acked = r.acked /\ s.ackTime = r.ackTime
    /\ s.sent_tstamp_pcap # <<>>
    /\ getSendTime(s) = getSendTime(r)

\* The packets of list p are some of those of list q, and one at time if sent
\* holds.
OnlyPackets(p, q, sent, time) ==
    \A t \in PacketTimes(p) : t \in PacketTimes(q) \/ (sent /\ t = time)

\* The one at time is the segment in hand.
PacketsFrom(p, q, sent) == OnlyPackets(p, q, sent, seg.time)

\* The transmissions of list p are those of list q, with the segment in hand if
\* sent holds, and bundled ones are added by bundles only.
SendingsFrom(p, q, sent) ==
    /\ \A t \in Sendings(q) : t \in Sendings(p)
    /\ sent => \E t \in Sendings(p) : t.time = seg.time
    /\ \A t \in Sendings(p) : t \in Sendings(q) \/ ~t.rdb \/ seg.is_rdb

\* s has the counts of r, plus one for the segment in hand if counted holds.
Counts(s, r, counted) ==
    /\ PacketsFrom(s.sent_tstamp_pcap, r.sent_tstamp_pcap, counted /\ SENT)
    /\ SendingsFrom(s.sent_tstamp_pcap, r.sent_tstamp_pcap, counted /\ SENT)
    /\ s.data_sent_count = Add(r.data_sent_count, counted /\ SENT)
    /\ s.data_received_count = Add(r.data_received_count, counted /\ ~SENT)
    /\ s.received_tstamp_tcp =
         IF counted /\ ~SENT /\ r.data_received_count = 0
         THEN seg.tstamp_tcp ELSE r.received_tstamp_tcp

\* Appending to a list of transmissions keeps the first one.
LEMMA AppendFirst ==
    ASSUME NEW q \in SentLists, NEW t \in Transmissions
    PROVE  /\ Append(q, t) # <<>>
           /\ q # <<>> => Append(q, t)[1] = q[1]
           /\ q = <<>> => Append(q, t)[1] = t
<1>1. q \in Seq(Transmissions) /\ Len(q) \in Nat
  BY DEF SentLists
<1>2. Len(Append(q, t)) = Len(q) + 1
  BY <1>1
<1>3. q # <<>> => Len(q) >= 1
  BY <1>1
<1> QED
  BY <1>1, <1>2, <1>3

\* Of the packets of a longer list, only the last entry is new.
LEMMA AppendPackets ==
    ASSUME NEW q \in SentLists, NEW t \in Transmissions
    PROVE  \A u \in PacketTimes(Append(q, t)) :
             u \in PacketTimes(q) \/ (t.sent_t = "ST_PKT" /\ u = t.time)
<1> DEFINE a == Append(q, t)
<1>1. q \in Seq(Transmissions) /\ Len(q) \in Nat /\ DOMAIN q = 1 .. Len(q)
  BY DEF SentLists
<1>2. /\ DOMAIN a = 1 .. Len(q) + 1 /\ a[Len(q) + 1] = t
      /\ \A i \in 1 .. Len(q) : a[i] = q[i]
  BY <1>1
<1> HIDE DEF a
<1> SUFFICES ASSUME NEW u \in PacketTimes(a)
             PROVE  u \in PacketTimes(q) \/ (t.sent_t = "ST_PKT" /\ u = t.time)
  BY DEF a
<1>3. PICK i \in DOMAIN a : a[i].sent_t = "ST_PKT" /\ u = a[i].time
  BY DEF PacketTimes
<1>4. CASE i = Len(q) + 1
  BY <1>2, <1>3, <1>4
<1>5. CASE i # Len(q) + 1
  <2>1. i \in DOMAIN q /\ a[i] = q[i]
    BY <1>1, <1>2, <1>5
  <2> QED
    BY <1>3, <2>1 DEF PacketTimes
<1> QED
  BY <1>4, <1>5

\* A longer list has one more transmission.
LEMMA AppendSendings ==
    ASSUME NEW q \in SentLists, NEW t \in Transmissions
    PROVE  Sendings(Append(q, t)) = Sendings(q) \cup {[time |-> t.time, rdb |-> t.rdb]}
<1> DEFINE a == Append(q, t)
           e(u) == [time |-> u.time, rdb |-> u.rdb]
<1>1. q \in Seq(Transmissions) /\ Len(q) \in Nat /\ DOMAIN q = 1 .. Len(q)
  BY DEF SentLists
<1>2. /\ DOMAIN a = 1 .. Len(q) + 1 /\ a[Len(q) + 1] = t
      /\ \A i \in 1 .. Len(q) : a[i] = q[i]
  BY <1>1
<1>3. 1 .. Len(q) + 1 = (1 .. Len(q)) \cup {Len(q) + 1}
  BY <1>1
<1>4. /\ Sendings(a) = {e(a[i]) : i \in DOMAIN a}
      /\ Sendings(q) = {e(q[i]) : i \in DOMAIN q}
  BY DEF Sendings
<1> HIDE DEF a, e
<1>5. {e(a[i]) : i \in DOMAIN a} = {e(q[i]) : i \in DOMAIN q} \cup {e(t)}
  BY <1>1, <1>2, <1>3
<1> QED
  BY <1>4, <1>5 DEF a, e

\* A split range passes on all transmissions.
LEMMA NoPacketsSendings ==
    ASSUME NEW r \in ByteRanges
    PROVE  Sendings(NoPackets(r)) = Sendings(r.sent_tstamp_pcap)
<1> DEFINE q == r.sent_tstamp_pcap
<1>1. DOMAIN NoPackets(r) = DOMAIN q
  BY DEF NoPackets
<1>2. ASSUME NEW i \in DOMAIN q
      PROVE  NoPackets(r)[i].time = q[i].time /\ NoPackets(r)[i].rdb = q[i].rdb
  <2>1. q[i] \in Transmissions
    BY DEF ByteRanges, SentLists
  <2>2. NoPackets(r)[i] = [q[i] EXCEPT !.sent_t = "ST_NONE"]
    BY DEF NoPackets
  <2> QED
    BY <2>1, <2>2 DEF Transmissions
<1> QED
  BY <1>1, <1>2 DEF Sendings

\* What a split range passes on are no packets.
LEMMA NoPacketsNone ==
    ASSUME NEW r \in ByteRanges
    PROVE  PacketTimes(NoPackets(r)) = {}
<1> SUFFICES ASSUME NEW u \in PacketTimes(NoPackets(r)) PROVE FALSE
  OBVIOUS
<1>1. PICK i \in DOMAIN NoPackets(r) : NoPackets(r)[i].sent_t = "ST_PKT"
  BY DEF PacketTimes
<1>2. i \in DOMAIN r.sent_tstamp_pcap
  BY DEF NoPackets
<1>3. r.sent_tstamp_pcap[i] \in Transmissions
  BY <1>2 DEF ByteRanges, SentLists
<1>4. NoPackets(r)[i] = [r.sent_tstamp_pcap[i] EXCEPT !.sent_t = "ST_NONE"]
  BY <1>2 DEF NoPackets
<1>5. NoPackets(r)[i].sent_t = "ST_NONE"
  BY <1>3, <1>4 DEF Transmissions
<1> QED
  BY <1>1, <1>5

\* A transmission leaves the acknowledgement and the receptions alone, and is
\* the first one only if there was none.
LEMMA IncreaseSentHistory ==
    ASSUME NEW r \in ByteRanges, NEW time \in Nat, NEW rdb \in BOOLEAN, NEW sent_t \in SentTypes
    PROVE  LET i == increase_sent(r, time, rdb, sent_t)
           IN /\ i.acked = r.acked /\ i.ackTime = r.ackTime
              /\ i.sent_tstamp_pcap # <<>>
              /\ r.sent_tstamp_pcap # <<>> => getSendTime(i) = getSendTime(r)
              /\ r.sent_tstamp_pcap = <<>> => getSendTime(i) = time
              /\ i.data_sent_count =
                   Add(r.data_sent_count, sent_t \notin {"ST_PURE_ACK", "ST_RST"})
              /\ i.data_received_count = r.data_received_count
              /\ i.received_tstamp_tcp = r.received_tstamp_tcp
              /\ OnlyPackets(i.sent_tstamp_pcap, r.sent_tstamp_pcap, sent_t = "ST_PKT", time)
              /\ Sendings(i.sent_tstamp_pcap) =
                   Sendings(r.sent_tstamp_pcap) \cup {[time |-> time, rdb |-> rdb]}
<1> DEFINE i == increase_sent(r, time, rdb, sent_t)
           t == Transmission(time, rdb, sent_t)
           d == Add(r.data_sent_count, sent_t \notin {"ST_PURE_ACK", "ST_RST"})
<1>1. t \in Transmissions /\ t.time = time /\ t.rdb = rdb /\ t.sent_t = sent_t /\ r.sent_tstamp_pcap \in SentLists
  BY DEF Transmission, Transmissions, ByteRanges
<1>2. /\ i.acked = r.acked /\ i.ackTime = r.ackTime
      /\ i.sent_tstamp_pcap = Append(r.sent_tstamp_pcap, t)
      /\ i.data_sent_count = d
      /\ i.data_received_count = r.data_received_count
      /\ i.received_tstamp_tcp = r.received_tstamp_tcp
  <2> HIDE DEF t, d
  <2> QED
    BY DEF increase_sent, ByteRanges, t, d
<1> HIDE DEF i, t, d
<1>3. OnlyPackets(i.sent_tstamp_pcap, r.sent_tstamp_pcap, sent_t = "ST_PKT", time)
  BY <1>1, <1>2, AppendPackets DEF OnlyPackets
<1>4. Sendings(i.sent_tstamp_pcap) =
        Sendings(r.sent_tstamp_pcap) \cup {[time |-> time, rdb |-> rdb]}
  BY <1>1, <1>2, AppendSendings
<1> QED
  BY <1>1, <1>2, <1>3, <1>4, AppendFirst DEF getSendTime, i, d

\* A reception leaves the transmissions and the acknowledgement alone.
LEMMA IncreaseReceivedHistory ==
    ASSUME NEW r \in ByteRanges, NEW ts \in Nat, NEW time \in Nat
    PROVE  LET i == increase_received(r, ts, time)
           IN /\ i.acked = r.acked /\ i.ackTime = r.ackTime
              /\ i.sent_tstamp_pcap = r.sent_tstamp_pcap
              /\ i.data_sent_count = r.data_sent_count
              /\ i.data_received_count = Add(r.data_received_count, TRUE)
              /\ i.received_tstamp_tcp =
                   IF r.data_received_count = 0 THEN ts ELSE r.received_tstamp_tcp
BY DEF increase_received, ByteRanges

\* Both parts of a split range have the history of the whole.
LEMMA SplitHistory ==
    ASSUME NEW r \in ByteRanges, r.sent_tstamp_pcap # <<>>, NEW at \in Nat
    PROVE  /\ Kept(split(r, at), r) /\ Counts(split(r, at), r, FALSE)
           /\ Kept(Truncate(r, at), r) /\ Counts(Truncate(r, at), r, FALSE)
<1>1. /\ r.sent_tstamp_pcap \in Seq(Transmissions)
      /\ Len(r.sent_tstamp_pcap) \in Nat /\ Len(r.sent_tstamp_pcap) # 0
      /\ DOMAIN r.sent_tstamp_pcap = 1 .. Len(r.sent_tstamp_pcap)
  BY DEF ByteRanges, SentLists
<1>2. /\ NoPackets(r) # <<>>
      /\ NoPackets(r)[1].time = r.sent_tstamp_pcap[1].time
  <2>1. 1 \in DOMAIN r.sent_tstamp_pcap
    BY <1>1
  <2>2. r.sent_tstamp_pcap[1] \in Transmissions
    BY <1>1, <2>1
  <2>3. /\ DOMAIN NoPackets(r) = DOMAIN r.sent_tstamp_pcap
        /\ NoPackets(r)[1] = [r.sent_tstamp_pcap[1] EXCEPT !.sent_t = "ST_NONE"]
    BY <2>1 DEF NoPackets
  <2>4. NoPackets(r)[1].time = r.sent_tstamp_pcap[1].time
    BY <2>2, <2>3 DEF Transmissions
  <2>5. DOMAIN <<>> = {}
    OBVIOUS
  <2> QED
    BY <2>1, <2>3, <2>4, <2>5
<1>3. /\ split(r, at).acked = r.acked /\ split(r, at).ackTime = r.ackTime
      /\ split(r, at).sent_tstamp_pcap = NoPackets(r)
      /\ split(r, at).data_sent_count = r.data_sent_count
      /\ split(r, at).data_received_count = r.data_received_count
      /\ split(r, at).received_tstamp_tcp = r.received_tstamp_tcp
  BY DEF split, newByteRange
<1>4. /\ Truncate(r, at).acked = r.acked /\ Truncate(r, at).ackTime = r.ackTime
      /\ Truncate(r, at).sent_tstamp_pcap = r.sent_tstamp_pcap
      /\ Truncate(r, at).data_sent_count = r.data_sent_count
      /\ Truncate(r, at).data_received_count = r.data_received_count
      /\ Truncate(r, at).received_tstamp_tcp = r.received_tstamp_tcp
  BY DEF Truncate, ByteRanges
<1>5. PacketTimes(NoPackets(r)) = {}
  BY NoPacketsNone
<1>6. Sendings(NoPackets(r)) = Sendings(r.sent_tstamp_pcap)
  BY NoPacketsSendings
<1> QED
  BY <1>6, <1>2, <1>3, <1>4, <1>5 DEF Kept, Counts, Add, getSendTime, PacketsFrom, OnlyPackets, SendingsFrom

\* The segment in hand is one more transmission.
LEMMA AddedSending ==
    ASSUME NEW p, NEW q, NEW sent \in BOOLEAN,
           Sendings(p) = Sendings(q) \cup {[time |-> seg.time, rdb |-> this_is_rdb_data]}
    PROVE  SendingsFrom(p, q, sent)
<1> DEFINE u == [time |-> seg.time, rdb |-> this_is_rdb_data]
<1>1. u.time = seg.time /\ u.rdb = this_is_rdb_data /\ (this_is_rdb_data => seg.is_rdb)
  BY DEF this_is_rdb_data
<1> HIDE DEF u
<1>2. Sendings(p) = Sendings(q) \cup {u}
  BY DEF u
<1> QED
  BY <1>1, <1>2 DEF SendingsFrom

\* What a segment adds to a range leaves its times alone and counts it once.
LEMMA CreditHistory ==
    ASSUME rmTypeOK, NEW r \in ByteRanges, r.sent_tstamp_pcap # <<>>
    PROVE  /\ Kept(Credit(r), r) /\ Counts(Credit(r), r, TRUE)
           /\ Kept(CreditSplit(r), r) /\ Counts(CreditSplit(r), r, TRUE)
           /\ Kept(SetFin(r), r) /\ Counts(SetFin(r), r, FALSE)
<1>1. seg.time \in Nat /\ seg.tstamp_tcp \in Nat /\ this_is_rdb_data \in BOOLEAN
  BY SegmentType
<1>2. ASSUME SENT, NEW t \in {"ST_NONE", "ST_RTR", "ST_PKT"},
             NEW s, LET i == increase_sent(r, seg.time, this_is_rdb_data, t)
                    IN /\ s.acked = i.acked /\ s.ackTime = i.ackTime
                       /\ s.sent_tstamp_pcap = i.sent_tstamp_pcap
                       /\ s.data_sent_count = i.data_sent_count
                       /\ s.data_received_count = i.data_received_count
                       /\ s.received_tstamp_tcp = i.received_tstamp_tcp
      PROVE  Kept(s, r) /\ Counts(s, r, TRUE)
  <2>1. t \in SentTypes /\ t \notin {"ST_PURE_ACK", "ST_RST"}
    BY DEF SentTypes
  <2> DEFINE i == increase_sent(r, seg.time, this_is_rdb_data, t)
  <2>2. /\ i.acked = r.acked /\ i.ackTime = r.ackTime
        /\ i.sent_tstamp_pcap # <<>> /\ getSendTime(i) = getSendTime(r)
        /\ i.data_sent_count = Add(r.data_sent_count, TRUE)
        /\ i.data_received_count = r.data_received_count
        /\ i.received_tstamp_tcp = r.received_tstamp_tcp
        /\ OnlyPackets(i.sent_tstamp_pcap, r.sent_tstamp_pcap, t = "ST_PKT", seg.time)
        /\ Sendings(i.sent_tstamp_pcap) =
             Sendings(r.sent_tstamp_pcap) \cup {[time |-> seg.time, rdb |-> this_is_rdb_data]}
    BY <1>1, <2>1, IncreaseSentHistory DEF Add
  <2> HIDE DEF i
  <2>4. SendingsFrom(s.sent_tstamp_pcap, r.sent_tstamp_pcap, TRUE /\ SENT)
    BY <1>2, <2>2, AddedSending DEF i
  <2>3. PacketsFrom(s.sent_tstamp_pcap, r.sent_tstamp_pcap, TRUE /\ SENT)
    BY <1>2, <2>2 DEF PacketsFrom, OnlyPackets, i
  <2> QED
    BY <1>2, <2>2, <2>3, <2>4 DEF Kept, Counts, Add, getSendTime, i
<1>3. Kept(Credit(r), r) /\ Counts(Credit(r), r, TRUE)
  <2>1. CASE SENT
    <3> DEFINE t == IF ~Outermost THEN "ST_NONE" ELSE IF seg.retrans THEN "ST_RTR" ELSE "ST_PKT"
               i == increase_sent(r, seg.time, this_is_rdb_data, t)
               a == Add(i.fin, Outermost /\ seg.flag = "fin")
               b == Add(i.data_retrans_count, seg.retrans)
               c == Add(i.rdb_count, seg.is_rdb)
    <3>1. t \in {"ST_NONE", "ST_RTR", "ST_PKT"}
      OBVIOUS
    <3>2. i \in ByteRanges
      BY <1>1, <3>1, IncreaseSentType DEF SentTypes
    <3>3. Credit(r) = [i EXCEPT !.fin = a, !.data_retrans_count = b, !.rdb_count = c]
      BY <2>1 DEF Credit
    <3> HIDE DEF a, b, c, i
    <3>4. /\ Credit(r).acked = i.acked /\ Credit(r).ackTime = i.ackTime
          /\ Credit(r).sent_tstamp_pcap = i.sent_tstamp_pcap
          /\ Credit(r).data_sent_count = i.data_sent_count
          /\ Credit(r).data_received_count = i.data_received_count
          /\ Credit(r).received_tstamp_tcp = i.received_tstamp_tcp
      BY <3>2, <3>3 DEF ByteRanges
    <3> QED
      BY <1>2, <2>1, <3>1, <3>4 DEF i
  <2>2. CASE ~SENT
    <3> DEFINE i == increase_received(r, seg.tstamp_tcp, seg.time)
               a == Add(i.packet_received_count, Outermost)
    <3>1. i \in ByteRanges
      BY <1>1, IncreaseReceivedType
    <3>2. /\ i.acked = r.acked /\ i.ackTime = r.ackTime
          /\ i.sent_tstamp_pcap = r.sent_tstamp_pcap
          /\ i.data_sent_count = r.data_sent_count
          /\ i.data_received_count = Add(r.data_received_count, TRUE)
          /\ i.received_tstamp_tcp =
               IF r.data_received_count = 0 THEN seg.tstamp_tcp ELSE r.received_tstamp_tcp
      BY <1>1, IncreaseReceivedHistory
    <3>3. Credit(r) = [i EXCEPT !.packet_received_count = a]
      BY <2>2 DEF Credit
    <3> HIDE DEF a, i
    <3>4. /\ Credit(r).acked = i.acked /\ Credit(r).ackTime = i.ackTime
          /\ Credit(r).sent_tstamp_pcap = i.sent_tstamp_pcap
          /\ Credit(r).data_sent_count = i.data_sent_count
          /\ Credit(r).data_received_count = i.data_received_count
          /\ Credit(r).received_tstamp_tcp = i.received_tstamp_tcp
      BY <3>1, <3>3 DEF ByteRanges
    <3> QED
      BY <2>2, <3>2, <3>4 DEF Kept, Counts, Add, getSendTime, PacketsFrom, OnlyPackets, SendingsFrom
  <2> QED
    BY <2>1, <2>2
<1>4. Kept(CreditSplit(r), r) /\ Counts(CreditSplit(r), r, TRUE)
  <2>1. CASE SENT
    <3> DEFINE t == IF Outermost THEN "ST_RTR" ELSE "ST_NONE"
               i == increase_sent(r, seg.time, this_is_rdb_data, t)
               b == Add(i.data_retrans_count, TRUE)
               c == Add(i.rdb_count, seg.is_rdb)
    <3>1. t \in {"ST_NONE", "ST_RTR", "ST_PKT"}
      OBVIOUS
    <3>2. i \in ByteRanges
      BY <1>1, <3>1, IncreaseSentType DEF SentTypes
    <3>3. CreditSplit(r) = [i EXCEPT !.data_retrans_count = b, !.rdb_count = c]
      BY <2>1 DEF CreditSplit
    <3> HIDE DEF b, c, i
    <3>4. /\ CreditSplit(r).acked = i.acked /\ CreditSplit(r).ackTime = i.ackTime
          /\ CreditSplit(r).sent_tstamp_pcap = i.sent_tstamp_pcap
          /\ CreditSplit(r).data_sent_count = i.data_sent_count
          /\ CreditSplit(r).data_received_count = i.data_received_count
          /\ CreditSplit(r).received_tstamp_tcp = i.received_tstamp_tcp
      BY <3>2, <3>3 DEF ByteRanges
    <3> QED
      BY <1>2, <2>1, <3>1, <3>4 DEF i
  <2>2. CASE ~SENT
    BY <1>3, <2>2 DEF CreditSplit
  <2> QED
    BY <2>1, <2>2
<1>5. Kept(SetFin(r), r) /\ Counts(SetFin(r), r, FALSE)
  <2>1. /\ SetFin(r).acked = r.acked /\ SetFin(r).ackTime = r.ackTime
        /\ SetFin(r).sent_tstamp_pcap = r.sent_tstamp_pcap
        /\ SetFin(r).data_sent_count = r.data_sent_count
        /\ SetFin(r).data_received_count = r.data_received_count
        /\ SetFin(r).received_tstamp_tcp = r.received_tstamp_tcp
    BY DEF SetFin, ByteRanges
  <2> QED
    BY <2>1 DEF Kept, Counts, Add, getSendTime, PacketsFrom, OnlyPackets, SendingsFrom
<1> QED
  BY <1>3, <1>4, <1>5

\* Acknowledging a range sets its ack time, and counting an ack changes nothing.
LEMMA AckHistory ==
    ASSUME NEW r \in ByteRanges, NEW time \in Nat
    PROVE  /\ insertAckTime(r, time).acked /\ insertAckTime(r, time).ackTime = time
           /\ \A s \in {insertAckTime(r, time), CountAck(r)} :
                /\ s.sent_tstamp_pcap = r.sent_tstamp_pcap
                /\ s.data_sent_count = r.data_sent_count
                /\ s.data_received_count = r.data_received_count
                /\ s.received_tstamp_tcp = r.received_tstamp_tcp
           /\ CountAck(r).acked = r.acked /\ CountAck(r).ackTime = r.ackTime
BY DEF insertAckTime, CountAck, ByteRanges

\* Histories are passed on.
LEMMA KeptTransitive ==
    ASSUME NEW r, NEW s, NEW t, Kept(s, r), Kept(t, s)
    PROVE  Kept(t, r)
BY DEF Kept

\* So are counts, as long as only the last change counts.
LEMMA CountsTransitive ==
    ASSUME NEW r, NEW s, NEW t, NEW c \in BOOLEAN, Counts(s, r, FALSE), Counts(t, s, c)
    PROVE  Counts(t, r, c)
BY DEF Counts, Add, PacketsFrom, OnlyPackets, SendingsFrom

\* The records after a split.
LEMMA SplitAtRecords ==
    ASSUME NEW rs, RangeMap(rs), NEW k \in DOMAIN rs, NEW at \in Nat, at # k,
           at \notin DOMAIN rs
    PROVE  /\ SplitAt(rs, k, at)[k] = Truncate(rs[k], at)
           /\ SplitAt(rs, k, at)[at] = split(rs[k], at)
BY DEF SplitAt, Insert, Put

\* Both parts of a range cut in a map have the history of the whole.
LEMMA CutHistory ==
    ASSUME NEW rs, RangeMap(rs), NEW k \in DOMAIN rs, NEW at \in Nat, at # k,
           at \notin DOMAIN rs, rs[k].sent_tstamp_pcap # <<>>
    PROVE  \A j \in {k, at} : /\ Kept(SplitAt(rs, k, at)[j], rs[k])
                              /\ Counts(SplitAt(rs, k, at)[j], rs[k], FALSE)
                              /\ SplitAt(rs, k, at)[j] \in ByteRanges
                              /\ SplitAt(rs, k, at)[j].sent_tstamp_pcap # <<>>
<1>1. rs[k] \in ByteRanges
  BY DEF RangeMap
<1>2. /\ SplitAt(rs, k, at)[k] = Truncate(rs[k], at)
      /\ SplitAt(rs, k, at)[at] = split(rs[k], at)
  BY SplitAtRecords
<1>3. Truncate(rs[k], at) \in ByteRanges /\ split(rs[k], at) \in ByteRanges
  BY <1>1, SplitType
<1>4. /\ Kept(split(rs[k], at), rs[k]) /\ Counts(split(rs[k], at), rs[k], FALSE)
      /\ Kept(Truncate(rs[k], at), rs[k]) /\ Counts(Truncate(rs[k], at), rs[k], FALSE)
  BY <1>1, SplitHistory
<1> QED
  BY <1>2, <1>3, <1>4 DEF Kept

-----------------------------------------------------------------------------
(* What one call of insertByteRange does to the history of the bytes. *)

\* Every byte that a range holds stays in a range.
Holds == \A x \in Nat : (\E k \in Keys : Covers(k, x)) => (\E k \in Keys' : Covers(k, x)')

\* The range at j of the new map is the one at k of the old map, or was cut
\* from it, and has its times.
PartOf(j, k) ==
    /\ j = k \/ (k < j /\ j < ranges[k].endSeq)
    /\ ranges'[j].endSeq <= ranges[k].endSeq
    /\ HasBytes(k) <=> j < ranges'[j].endSeq
    /\ Kept(ranges'[j], ranges[k])

\* The call registers the bytes up to upTo: they are the range at its start,
\* which counts the segment once, and no other range does.
Registers(upTo) ==
    /\ op = "insert" /\ ~ZeroLength
    /\ frame.start < upTo /\ upTo <= frame.end
    /\ Keys \subseteq Keys' /\ Holds
    /\ frame.start \in Keys' /\ ranges'[frame.start].endSeq = upTo
    /\ \A j \in Keys' : \E k \in Keys :
         PartOf(j, k) /\ Counts(ranges'[j], ranges[k], j = frame.start)

\* A range that does not change is its own part.
LEMMA PartOfItself ==
    ASSUME NEW k \in Keys, ranges'[k] = ranges[k], ranges[k].endSeq \in Nat,
           ranges[k].sent_tstamp_pcap # <<>>
    PROVE  PartOf(k, k) /\ Counts(ranges'[k], ranges[k], FALSE)
BY DEF PartOf, Kept, Counts, Add, HasBytes, PacketsFrom, OnlyPackets, SendingsFrom

\* A segment that starts inside a range registers the rest of that range.
LEMMA SplitHostRegisters ==
    ASSUME TypeOK, StepInv, EverySent, SplitHost
    PROVE  \E upTo \in Nat :
             /\ Registers(upTo)
             /\ \/ upTo = frame.end /\ Return
                \/ upTo < frame.end /\ Recurse(upTo)
<1> DEFINE a == frame.start
           b == frame.end
<1>1. /\ rmTypeOK /\ RangeMap(ranges) /\ Keys \subseteq Nat
      /\ \A k \in Keys : ranges[k] \in ByteRanges /\ ranges[k].endSeq \in Nat
                         /\ ranges[k].sent_tstamp_pcap # <<>>
  BY DEF TypeOK, rmTypeOK, RangeMap, Keys, ByteRanges, EverySent
<1>2. /\ a \in Nat /\ b \in Nat /\ a < b /\ a # b /\ a \notin Keys /\ op = "insert" /\ ~ZeroLength
      /\ Typed /\ Disjoint /\ RangesInStream
  BY DEF StepInv, Typed, CallInStream, SplitHost
<1>3. PICK k \in Keys :
        LET host == ranges[k]
            cut == SplitAt(ranges, k, a)
        IN /\ Host(k)
           /\ IF b > host.endSeq
              THEN /\ ranges' = Put(cut, a, CreditSplit(cut[a]))
                   /\ Recurse(host.endSeq)
              ELSE LET cut2 == IF b = host.endSeq THEN cut
                               ELSE SplitAt(cut, a, b)
                   IN /\ ranges' = Put(cut2, a, CreditSplit(SetFin(cut2[a])))
                      /\ Return
  BY DEF SplitHost
<1> DEFINE r == ranges[k]
           E == r.endSeq
           cut == SplitAt(ranges, k, a)
<1>4. /\ k < a /\ a < E /\ E \in Nat /\ k \in Nat /\ k \in DOMAIN ranges /\ a # k
      /\ a \notin DOMAIN ranges /\ r \in ByteRanges /\ r.sent_tstamp_pcap # <<>>
  BY <1>1, <1>2, <1>3 DEF Host, IsPrev, Keys
<1>5. /\ RangeMap(cut)
      /\ DOMAIN cut = Keys \cup {a}
      /\ cut[k].endSeq = a
      /\ cut[a].endSeq = E
      /\ \A j \in Keys : j # k => cut[j] = ranges[j]
  <2>1. SplitFacts(ranges, k, a)
    BY <1>1, <1>2, <1>4, SplitAtType
  <2> QED
    BY <1>4, <2>1 DEF Keys, SplitFacts
<1>6. \A j \in {k, a} : /\ Kept(cut[j], r) /\ Counts(cut[j], r, FALSE)
                        /\ cut[j] \in ByteRanges /\ cut[j].sent_tstamp_pcap # <<>>
  BY <1>1, <1>2, <1>4, CutHistory
<1> HIDE DEF cut
<1>7. \A j \in Keys : (j < k => ranges[j].endSeq <= k) /\ (j > k => E <= j)
  BY <1>2, <1>4 DEF Disjoint
<1>8. ASSUME NEW j \in Keys, j # k, ranges'[j] = ranges[j]
      PROVE  PartOf(j, j) /\ Counts(ranges'[j], ranges[j], j = a)
  <2>1. PartOf(j, j) /\ Counts(ranges'[j], ranges[j], FALSE)
    BY <1>1, <1>8, PartOfItself
  <2>2. (j = a) = FALSE
    BY <1>2, <1>8
  <2> QED
    BY <2>1, <2>2
<1>9. CASE b >= E
  <2> DEFINE c == IF b > E THEN cut[a] ELSE SetFin(cut[a])
             n == CreditSplit(c)
  <2>1. /\ c \in ByteRanges /\ c.endSeq = E /\ Kept(c, cut[a]) /\ Counts(c, cut[a], FALSE)
        /\ c.sent_tstamp_pcap # <<>>
    <3>1. /\ SetFin(cut[a]) \in ByteRanges /\ SetFin(cut[a]).endSeq = E
          /\ Kept(SetFin(cut[a]), cut[a]) /\ Counts(SetFin(cut[a]), cut[a], FALSE)
      BY <1>1, <1>5, <1>6, CreditType, CreditHistory
    <3>2. Kept(cut[a], cut[a]) /\ Counts(cut[a], cut[a], FALSE)
      BY <1>6 DEF Kept, Counts, Add, PacketsFrom, OnlyPackets, SendingsFrom
    <3> QED
      BY <1>5, <1>6, <3>1, <3>2 DEF Kept
  <2>2. /\ n \in ByteRanges /\ n.endSeq = E /\ Kept(n, c) /\ Counts(n, c, TRUE)
    BY <1>1, <2>1, CreditType, CreditHistory
  <2>3. Kept(n, r) /\ Counts(n, r, TRUE)
    <3>1. Kept(c, r) /\ Counts(c, r, FALSE)
      BY <1>6, <2>1, KeptTransitive, CountsTransitive
    <3> HIDE DEF n, c
    <3> QED
      BY <2>2, <3>1, KeptTransitive, CountsTransitive
  <2>4. /\ ranges' = Put(cut, a, n)
        /\ (b > E /\ Recurse(E)) \/ (b = E /\ Return)
    <3>1. CASE b > E
      BY <1>3, <3>1 DEF cut
    <3>2. CASE b = E /\ ~(b > E)
      BY <1>3, <3>2 DEF cut
    <3> QED
      BY <1>2, <1>4, <1>9, <3>1, <3>2
  <2> HIDE DEF n
  <2>5. PutFacts(cut, a, n)
    BY <1>2, <1>5, <2>2, PutType
  <2>6. /\ Keys' = Keys \cup {a} /\ ranges'[a] = n /\ ranges'[k] = cut[k]
        /\ \A j \in Keys : j # k => ranges'[j] = ranges[j]
    BY <1>2, <1>4, <1>5, <2>4, <2>5 DEF PutFacts, Keys
  <2>7. CutAt(k, a)
    BY <1>5, <2>2, <2>4, <2>5, <2>6 DEF CutAt, KeptOutside, PutFacts
  <2>8. Holds
    <3> SUFFICES ASSUME NEW x \in Nat, NEW j \in Keys, Covers(j, x)
                 PROVE  \E i \in Keys' : Covers(i, x)'
      BY DEF Holds
    <3>1. CASE j # k
      BY <2>6, <3>1 DEF Covers
    <3>2. CASE j = k
      BY <1>2, <1>4, <1>5, <2>2, <2>6, <3>2 DEF Covers
    <3> QED
      BY <3>1, <3>2
  <2>9. PartOf(k, k) /\ Counts(ranges'[k], r, k = a)
    <3>1. (k = a) = FALSE
      BY <1>4
    <3>2. Kept(ranges'[k], r) /\ Counts(ranges'[k], r, FALSE)
      BY <1>6, <2>6
    <3>3. ranges'[k].endSeq <= E /\ (HasBytes(k) <=> k < ranges'[k].endSeq)
      BY <1>2, <1>4, <1>5, <2>6 DEF HasBytes
    <3> QED
      BY <3>1, <3>2, <3>3 DEF PartOf
  <2>10. PartOf(a, k) /\ Counts(ranges'[a], r, a = a)
    <3>1. (a = a) = TRUE
      OBVIOUS
    <3>2. Kept(ranges'[a], r) /\ Counts(ranges'[a], r, TRUE)
      BY <2>3, <2>6
    <3>3. ranges'[a].endSeq <= E /\ (HasBytes(k) <=> a < ranges'[a].endSeq)
      BY <1>2, <1>4, <2>2, <2>6 DEF HasBytes
    <3> QED
      BY <1>4, <3>1, <3>2, <3>3 DEF PartOf
  <2>11. \A j \in Keys' : \E i \in Keys :
           PartOf(j, i) /\ Counts(ranges'[j], ranges[i], j = a)
    BY <1>8, <2>6, <2>9, <2>10
  <2>12. Registers(E)
    BY <1>2, <1>4, <1>9, <2>2, <2>6, <2>8, <2>11 DEF Registers
  <2> QED
    BY <1>2, <1>4, <2>4, <2>12
<1>10. CASE b < E
  <2> DEFINE cut2 == SplitAt(cut, a, b)
             c == SetFin(cut2[a])
             n == CreditSplit(c)
  <2>1. b \notin Keys /\ b \notin DOMAIN cut /\ a \in DOMAIN cut
    BY <1>2, <1>4, <1>5, <1>7, <1>10
  <2>2. /\ RangeMap(cut2)
        /\ DOMAIN cut2 = Keys \cup {a, b}
        /\ cut2[a].endSeq = b
        /\ cut2[b].endSeq = E
        /\ \A j \in DOMAIN cut : j # a => cut2[j] = cut[j]
    <3>1. SplitFacts(cut, a, b)
      BY <1>2, <1>5, <2>1, SplitAtType
    <3> QED
      BY <1>5, <2>1, <3>1 DEF SplitFacts
  <2>3. \A j \in {a, b} : /\ Kept(cut2[j], cut[a]) /\ Counts(cut2[j], cut[a], FALSE)
                          /\ cut2[j] \in ByteRanges /\ cut2[j].sent_tstamp_pcap # <<>>
    <3>1. b # a /\ b \in Nat /\ cut[a].sent_tstamp_pcap # <<>>
      BY <1>2, <1>6
    <3>2. RangeMap(cut) /\ a \in DOMAIN cut /\ b \notin DOMAIN cut
      BY <1>5, <2>1
    <3> HIDE DEF a, b
    <3> QED
      BY <3>1, <3>2, CutHistory
  <2>4. \A j \in {a, b} : Kept(cut2[j], r) /\ Counts(cut2[j], r, FALSE)
    <3> TAKE j \in {a, b}
    <3> HIDE DEF cut2
    <3>1. Kept(cut2[j], cut[a]) /\ Counts(cut2[j], cut[a], FALSE)
      BY <2>3
    <3>2. Kept(cut[a], r) /\ Counts(cut[a], r, FALSE)
      BY <1>6
    <3> QED
      BY <3>1, <3>2, KeptTransitive, CountsTransitive
  <2>5. /\ c \in ByteRanges /\ c.endSeq = b /\ Kept(c, cut2[a]) /\ Counts(c, cut2[a], FALSE)
        /\ c.sent_tstamp_pcap # <<>>
    <3>1. /\ SetFin(cut2[a]) \in ByteRanges /\ SetFin(cut2[a]).endSeq = b
          /\ Kept(SetFin(cut2[a]), cut2[a]) /\ Counts(SetFin(cut2[a]), cut2[a], FALSE)
      <4> HIDE DEF cut2
      <4> QED
        BY <1>1, <2>2, <2>3, CreditType, CreditHistory
    <3> QED
      BY <3>1 DEF Kept
  <2>6. /\ n \in ByteRanges /\ n.endSeq = b /\ Kept(n, c) /\ Counts(n, c, TRUE)
    <3> HIDE DEF c
    <3> QED
      BY <1>1, <2>5, CreditType, CreditHistory
  <2>7. Kept(n, r) /\ Counts(n, r, TRUE)
    <3>1. Kept(c, r) /\ Counts(c, r, FALSE)
      <4>1. Kept(cut2[a], r) /\ Counts(cut2[a], r, FALSE)
        BY <2>4
      <4> HIDE DEF cut2, c
      <4> QED
        BY <2>5, <4>1, KeptTransitive, CountsTransitive
    <3> HIDE DEF n, c
    <3> QED
      BY <2>6, <3>1, KeptTransitive, CountsTransitive
  <2>8. ranges' = Put(cut2, a, n) /\ Return
    <3>1. ~(b > E) /\ b # E
      BY <1>2, <1>4, <1>10
    <3> QED
      BY <1>3, <3>1 DEF cut
  <2> HIDE DEF n, cut2
  <2>9. PutFacts(cut2, a, n)
    BY <1>2, <2>2, <2>6, PutType
  <2>10. /\ Keys' = Keys \cup {a, b} /\ ranges'[a] = n /\ ranges'[b] = cut2[b]
         /\ ranges'[k] = cut[k]
         /\ \A j \in Keys : j # k => ranges'[j] = ranges[j]
    BY <1>2, <1>4, <1>5, <2>1, <2>2, <2>8, <2>9 DEF PutFacts, Keys
  <2>11. Holds
    <3> SUFFICES ASSUME NEW x \in Nat, NEW j \in Keys, Covers(j, x)
                 PROVE  \E i \in Keys' : Covers(i, x)'
      BY DEF Holds
    <3>1. CASE j # k
      BY <2>10, <3>1 DEF Covers
    <3>2. CASE j = k
      <4>1. k <= x /\ x < E
        BY <3>2 DEF Covers
      <4>2. x < a \/ (a <= x /\ x < b) \/ b <= x
        BY <1>2
      <4> QED
        BY <1>5, <2>2, <2>6, <2>10, <4>1, <4>2 DEF Covers
    <3> QED
      BY <3>1, <3>2
  <2>12. PartOf(k, k) /\ Counts(ranges'[k], r, k = a)
    <3>1. (k = a) = FALSE
      BY <1>4
    <3>2. Kept(ranges'[k], r) /\ Counts(ranges'[k], r, FALSE)
      BY <1>6, <2>10
    <3>3. ranges'[k].endSeq <= E /\ (HasBytes(k) <=> k < ranges'[k].endSeq)
      BY <1>2, <1>4, <1>5, <2>10 DEF HasBytes
    <3> QED
      BY <3>1, <3>2, <3>3 DEF PartOf
  <2>13. PartOf(a, k) /\ Counts(ranges'[a], r, a = a)
    <3>1. (a = a) = TRUE
      OBVIOUS
    <3>2. Kept(ranges'[a], r) /\ Counts(ranges'[a], r, TRUE)
      BY <2>7, <2>10
    <3>3. ranges'[a].endSeq <= E /\ (HasBytes(k) <=> a < ranges'[a].endSeq)
      BY <1>2, <1>4, <1>10, <2>6, <2>10 DEF HasBytes
    <3> QED
      BY <1>4, <3>1, <3>2, <3>3 DEF PartOf
  <2>14. PartOf(b, k) /\ Counts(ranges'[b], r, b = a)
    <3>1. (b = a) = FALSE
      BY <1>2
    <3>2. Kept(ranges'[b], r) /\ Counts(ranges'[b], r, FALSE)
      BY <2>4, <2>10
    <3>3. /\ ranges'[b].endSeq <= E /\ (HasBytes(k) <=> b < ranges'[b].endSeq)
          /\ k < b /\ b < E
      BY <1>2, <1>4, <1>10, <2>2, <2>10 DEF HasBytes
    <3> QED
      BY <3>1, <3>2, <3>3 DEF PartOf
  <2>15. \A j \in Keys' : \E i \in Keys :
           PartOf(j, i) /\ Counts(ranges'[j], ranges[i], j = a)
    BY <1>8, <2>10, <2>12, <2>13, <2>14
  <2>16. Registers(b)
    BY <1>2, <2>6, <2>10, <2>11, <2>15 DEF Registers
  <2> QED
    BY <1>2, <2>8, <2>16
<1> QED
  BY <1>2, <1>4, <1>9, <1>10

\* A byte that a call starts at and that is the start of a range is its first
\* one, unless the range waits to be filled.
LEMMA StartHasBytes ==
    ASSUME TypeOK, StepInv, StartFound, SENT => byte_count(frame.start) # 0
    PROVE  HasBytes(frame.start)
<1> DEFINE a == frame.start
<1>1. /\ a \in Keys /\ a \in Nat /\ Keys \subseteq Nat /\ op = "insert" /\ ~ZeroLength
      /\ \A k \in Keys : ranges[k].endSeq \in Nat
      /\ Disjoint /\ RangesInStream
  BY DEF StartFound, StepInv, Typed
<1>2. CASE SENT
  BY <1>1, <1>2 DEF RangesInStream, byte_count, HasBytes
<1>3. CASE ~SENT
  <2>1. a \in base .. nxt - 1 /\ op \notin Failures
    BY <1>1 DEF StepInv, CallInStream, Typed, Failures
  <2>2. PICK k \in Keys : Covers(k, a)
    BY <1>3, <2>1 DEF StepInv, Frontier, Inserting
  <2>3. k \in Nat /\ k <= a /\ a < ranges[k].endSeq
    BY <1>1, <2>2 DEF Covers
  <2>4. k = a
    BY <1>1, <2>3 DEF Disjoint
  <2> QED
    BY <2>3, <2>4 DEF HasBytes
<1> QED
  BY <1>2, <1>3

\* A segment that starts where a range does registers the range, or the part of
\* it up to the segment's end.
LEMMA CoverRegisters ==
    ASSUME TypeOK, StepInv, EverySent, SpanRange \/ SplitTail \/ UpdateRange
    PROVE  \E upTo \in Nat :
             /\ Registers(upTo)
             /\ \/ upTo = frame.end /\ Return
                \/ /\ upTo < frame.end
                   /\ \/ Recurse(upTo)
                      \/ SpanRange /\ (Fail("assert_tstamp") \/ Fail("recursion_level"))
<1> DEFINE a == frame.start
           b == frame.end
           r == ranges[a]
           E == r.endSeq
<1>1. /\ rmTypeOK /\ RangeMap(ranges) /\ Keys \subseteq Nat
      /\ \A k \in Keys : ranges[k] \in ByteRanges /\ ranges[k].endSeq \in Nat
                         /\ ranges[k].sent_tstamp_pcap # <<>>
  BY DEF TypeOK, rmTypeOK, RangeMap, Keys, ByteRanges, EverySent
<1>2. StartFound /\ op = "insert" /\ ~ZeroLength /\ a \in Keys /\ (SENT => byte_count(a) # 0)
  <2>1. StartFound /\ op = "insert" /\ ~ZeroLength /\ a \in Keys
    BY DEF SpanRange, SplitTail, UpdateRange, StartFound
  <2>2. a \in Nat /\ b \in Nat /\ a < b /\ E \in Nat
    BY <1>1, <2>1 DEF StepInv, Typed, CallInStream
  <2>3. SENT => byte_count(a) # 0
    BY <2>2 DEF SpanRange, SplitTail, UpdateRange, byte_count
  <2> QED
    BY <2>1, <2>3
<1>3. /\ a \in Nat /\ b \in Nat /\ a < b /\ a # b /\ Disjoint
      /\ r \in ByteRanges /\ E \in Nat /\ r.sent_tstamp_pcap # <<>> /\ a < E
  <2>1. HasBytes(a)
    BY <1>2, StartHasBytes
  <2> QED
    BY <1>1, <1>2, <2>1 DEF StepInv, Typed, CallInStream, HasBytes
<1>4. ASSUME NEW j \in Keys, j # a, ranges'[j] = ranges[j]
      PROVE  PartOf(j, j) /\ Counts(ranges'[j], ranges[j], j = a)
  <2>1. PartOf(j, j) /\ Counts(ranges'[j], ranges[j], FALSE)
    BY <1>1, <1>4, PartOfItself
  <2>2. (j = a) = FALSE
    BY <1>4
  <2> QED
    BY <2>1, <2>2
<1>5. (a = a) = TRUE
  OBVIOUS
<1>6. CASE SpanRange \/ UpdateRange
  <2> DEFINE c == Credit(r)
             s == Add(c.syn, seg.flag = "syn")
             u == [c EXCEPT !.syn = s]
  <2>1. PICK n \in ByteRanges :
          ranges' = Put(ranges, a, n) /\ n.endSeq = E /\ Kept(n, r) /\ Counts(n, r, TRUE)
    <3>1. c \in ByteRanges /\ c.endSeq = E /\ Kept(c, r) /\ Counts(c, r, TRUE)
      BY <1>1, <1>3, CreditType, CreditHistory
    <3>2. u \in ByteRanges /\ u.endSeq = E /\ Kept(u, r) /\ Counts(u, r, TRUE)
      <4>1. c.syn \in Counters
        BY <3>1 DEF ByteRanges
      <4>2. s \in Counters
        BY <4>1, AddType
      <4> HIDE DEF c, s
      <4>3. u \in ByteRanges
        BY <3>1, <4>2 DEF ByteRanges
      <4>4. /\ u.endSeq = c.endSeq /\ u.acked = c.acked /\ u.ackTime = c.ackTime
            /\ u.sent_tstamp_pcap = c.sent_tstamp_pcap
            /\ u.data_sent_count = c.data_sent_count
            /\ u.data_received_count = c.data_received_count
            /\ u.received_tstamp_tcp = c.received_tstamp_tcp
        BY <3>1 DEF ByteRanges
      <4> HIDE DEF u
      <4>5. Kept(u, r)
        BY <3>1, <4>4 DEF Kept, getSendTime
      <4>6. Counts(u, r, TRUE)
        BY <3>1, <4>4 DEF Counts
      <4> QED
        BY <3>1, <4>3, <4>4, <4>5, <4>6
    <3>3. ranges' = Put(ranges, a, c) \/ ranges' = Put(ranges, a, u)
      BY <1>6 DEF SpanRange, UpdateRange
    <3> HIDE DEF c, u
    <3> QED
      BY <3>1, <3>2, <3>3
  <2>2. PutFacts(ranges, a, n)
    BY <1>1, <1>3, <2>1, PutType
  <2>3. /\ Keys' = Keys /\ ranges'[a] = n
        /\ \A j \in Keys : j # a => ranges'[j] = ranges[j]
    BY <1>2, <2>1, <2>2 DEF PutFacts, Keys
  <2>4. Holds
    BY <1>2, <2>1, <2>3 DEF Holds, Covers
  <2>5. PartOf(a, a) /\ Counts(ranges'[a], r, a = a)
    <3>1. Kept(ranges'[a], r) /\ Counts(ranges'[a], r, TRUE)
      BY <2>1, <2>3
    <3>2. ranges'[a].endSeq <= E /\ (HasBytes(a) <=> a < ranges'[a].endSeq)
      BY <1>3, <2>1, <2>3 DEF HasBytes
    <3> QED
      BY <1>5, <3>1, <3>2 DEF PartOf
  <2>6. \A j \in Keys' : \E i \in Keys :
           PartOf(j, i) /\ Counts(ranges'[j], ranges[i], j = a)
    BY <1>2, <1>4, <2>3, <2>5
  <2>7. \/ E = b /\ Return
        \/ /\ E < b
           /\ \/ Recurse(E)
              \/ SpanRange /\ (Fail("assert_tstamp") \/ Fail("recursion_level"))
    <3>1. CASE SpanRange
      BY <3>1 DEF SpanRange
    <3>2. CASE UpdateRange
      BY <3>2 DEF UpdateRange
    <3> QED
      BY <1>6, <3>1, <3>2
  <2>8. Registers(E)
    BY <1>2, <1>3, <2>1, <2>3, <2>4, <2>6, <2>7 DEF Registers
  <2> QED
    BY <1>3, <2>7, <2>8
<1>7. CASE SplitTail
  <2> DEFINE cut == SplitAt(ranges, a, b)
             n == Credit(cut[a])
  <2>1. b < E /\ Return /\ ranges' = Put(cut, a, n)
    BY <1>3, <1>7 DEF SplitTail
  <2>2. b \notin Keys /\ a \in DOMAIN ranges /\ b \notin DOMAIN ranges
    BY <1>1, <1>2, <1>3, <2>1 DEF Disjoint, Keys
  <2>3. /\ RangeMap(cut) /\ DOMAIN cut = Keys \cup {b}
        /\ cut[a].endSeq = b /\ cut[b].endSeq = E
        /\ \A j \in Keys : j # a => cut[j] = ranges[j]
    <3>1. SplitFacts(ranges, a, b)
      BY <1>1, <1>3, <2>2, SplitAtType
    <3> QED
      BY <2>2, <3>1 DEF SplitFacts, Keys
  <2>4. \A j \in {a, b} : /\ Kept(cut[j], r) /\ Counts(cut[j], r, FALSE)
                          /\ cut[j] \in ByteRanges /\ cut[j].sent_tstamp_pcap # <<>>
    BY <1>1, <1>3, <2>2, CutHistory
  <2> HIDE DEF cut
  <2>5. n \in ByteRanges /\ n.endSeq = b /\ Kept(n, cut[a]) /\ Counts(n, cut[a], TRUE)
    BY <1>1, <2>3, <2>4, CreditType, CreditHistory
  <2> HIDE DEF n
  <2>6. Kept(n, r) /\ Counts(n, r, TRUE)
    <3>1. Kept(cut[a], r) /\ Counts(cut[a], r, FALSE)
      BY <2>4
    <3> QED
      BY <2>5, <3>1, KeptTransitive, CountsTransitive
  <2>7. PutFacts(cut, a, n)
    BY <1>3, <2>3, <2>5, PutType
  <2>8. /\ Keys' = Keys \cup {b} /\ ranges'[a] = n /\ ranges'[b] = cut[b]
        /\ \A j \in Keys : j # a => ranges'[j] = ranges[j]
    BY <1>2, <1>3, <2>1, <2>2, <2>3, <2>7 DEF PutFacts, Keys
  <2>9. Holds
    <3> SUFFICES ASSUME NEW x \in Nat, NEW j \in Keys, Covers(j, x)
                 PROVE  \E i \in Keys' : Covers(i, x)'
      BY DEF Holds
    <3>1. CASE j # a
      BY <2>8, <3>1 DEF Covers
    <3>2. CASE j = a
      BY <1>2, <1>3, <2>3, <2>5, <2>8, <3>2 DEF Covers
    <3> QED
      BY <3>1, <3>2
  <2>10. PartOf(a, a) /\ Counts(ranges'[a], r, a = a)
    <3>1. Kept(ranges'[a], r) /\ Counts(ranges'[a], r, TRUE)
      BY <2>6, <2>8
    <3>2. ranges'[a].endSeq <= E /\ (HasBytes(a) <=> a < ranges'[a].endSeq)
      BY <1>3, <2>1, <2>5, <2>8 DEF HasBytes
    <3> QED
      BY <1>5, <3>1, <3>2 DEF PartOf
  <2>11. PartOf(b, a) /\ Counts(ranges'[b], r, b = a)
    <3>1. (b = a) = FALSE
      BY <1>3
    <3>2. Kept(ranges'[b], r) /\ Counts(ranges'[b], r, FALSE)
      BY <2>4, <2>8
    <3>3. ranges'[b].endSeq <= E /\ (HasBytes(a) <=> b < ranges'[b].endSeq)
      BY <1>3, <2>1, <2>3, <2>8 DEF HasBytes
    <3> QED
      BY <1>3, <2>1, <3>1, <3>2, <3>3 DEF PartOf
  <2>12. \A j \in Keys' : \E i \in Keys :
           PartOf(j, i) /\ Counts(ranges'[j], ranges[i], j = a)
    BY <1>2, <1>4, <2>8, <2>10, <2>11
  <2>13. Registers(b)
    BY <1>2, <1>3, <2>5, <2>8, <2>9, <2>12 DEF Registers
  <2> QED
    BY <1>3, <2>1, <2>13
<1> QED
  BY <1>6, <1>7

\* The call opens a range for the bytes up to the end of the segment, at the end
\* of the stream: a new range, or one that held no bytes so far.
Opens ==
    LET a == frame.start
        r == ranges'[a]
    IN /\ op = "insert" /\ ~ZeroLength /\ SENT /\ Return
       /\ Keys' = Keys \cup {a}
       /\ \A k \in Keys : k <= a /\ ranges[k].endSeq <= a /\ (k # a => ranges'[k] = ranges[k])
       /\ r.endSeq = frame.end
       /\ r.sent_tstamp_pcap # <<>> /\ getSendTime(r) <= clock
       /\ \A t \in PacketTimes(r.sent_tstamp_pcap) :
            t = seg.time \/ (a \in Keys /\ t \in PacketTimes(ranges[a].sent_tstamp_pcap))
       /\ \E t \in Sendings(r.sent_tstamp_pcap) : t.time = seg.time
       /\ \A t \in Sendings(r.sent_tstamp_pcap) :
            ~t.rdb \/ seg.is_rdb \/ (a \in Keys /\ t \in Sendings(ranges[a].sent_tstamp_pcap))
       /\ IF a \in Keys
          THEN /\ r.acked = ranges[a].acked /\ r.ackTime = ranges[a].ackTime
               /\ r.data_sent_count = Add(ranges[a].data_sent_count, TRUE)
               /\ r.data_received_count = ranges[a].data_received_count
               /\ r.received_tstamp_tcp = ranges[a].received_tstamp_tcp
          ELSE /\ ~r.acked /\ r.ackTime = 0
               /\ r.data_sent_count = Add(0, TRUE)
               /\ r.data_received_count = 0

\* New data opens a range; received data that no range holds changes nothing.
LEMMA InsertNewOpens ==
    ASSUME TypeOK, StepInv, EverySent, InsertNew
    PROVE  \/ Opens
           \/ UNCHANGED ranges /\ ~SENT /\ Return
           \/ /\ UNCHANGED ranges /\ Fail("assert_search")
              /\ frame.start < lastSeq /\ \A k \in Keys : k > frame.end
<1> DEFINE a == frame.start
           b == frame.end
           m == newByteRange(a, b)
           t == IF seg.is_rdb THEN "ST_NONE" ELSE "ST_PKT"
           i == increase_sent(m, seg.time, this_is_rdb_data, t)
           f == Add(i.fin, seg.flag = "fin")
           p == payloadSize(seg)
           r == [i EXCEPT !.fin = f, !.original_payload_size = p]
<1>1. op = "insert" /\ ~ZeroLength /\ a \notin Keys /\ (a >= lastSeq \/ ~\E k \in Keys : Host(k))
  BY DEF InsertNew
<1>2. /\ a \in Nat /\ b \in Nat /\ Keys \subseteq Nat /\ lastSeq \in Nat /\ RangeMap(ranges)
      /\ \A k \in Keys : ranges[k].endSeq \in Nat
      /\ a < b
  BY <1>1 DEF StepInv, Typed, CallInStream, TypeOK, rmTypeOK, RangeMap
<1>3. /\ seg.time \in Nat /\ this_is_rdb_data \in BOOLEAN /\ p \in Int /\ seg.time <= clock
  BY <1>1, SegmentType DEF TypeOK, payloadSize, EverySent
<1>4. m \in ByteRanges /\ m.endSeq = b
  BY <1>2, NewByteRangeType
<1>5. /\ ~m.acked /\ m.ackTime = 0 /\ m.sent_tstamp_pcap = <<>> /\ m.data_sent_count = 0
      /\ m.data_received_count = 0
  BY DEF newByteRange
<1>6. t \in SentTypes /\ t \notin {"ST_PURE_ACK", "ST_RST"}
  BY DEF SentTypes
<1>7. /\ i \in ByteRanges /\ i.endSeq = b /\ ~i.acked /\ i.ackTime = 0
      /\ i.sent_tstamp_pcap # <<>> /\ getSendTime(i) = seg.time
      /\ i.data_sent_count = Add(0, TRUE) /\ i.data_received_count = 0
      /\ \A u \in PacketTimes(i.sent_tstamp_pcap) : u = seg.time
      /\ SendingsFrom(i.sent_tstamp_pcap, <<>>, TRUE)
  <2> HIDE DEF m, t
  <2>1. i \in ByteRanges /\ i.endSeq = b
    BY <1>3, <1>4, <1>6, IncreaseSentType
  <2>2. /\ i.acked = m.acked /\ i.ackTime = m.ackTime
        /\ i.sent_tstamp_pcap # <<>> /\ getSendTime(i) = seg.time
        /\ i.data_sent_count = Add(0, TRUE) /\ i.data_received_count = 0
        /\ OnlyPackets(i.sent_tstamp_pcap, m.sent_tstamp_pcap, t = "ST_PKT", seg.time)
    BY <1>3, <1>4, <1>5, <1>6, IncreaseSentHistory DEF Add
  <2>5. Sendings(i.sent_tstamp_pcap) =
          Sendings(m.sent_tstamp_pcap) \cup {[time |-> seg.time, rdb |-> this_is_rdb_data]}
    BY <1>3, <1>4, <1>6, IncreaseSentHistory
  <2>3. PacketTimes(<<>>) = {}
    BY DEF PacketTimes
  <2>4. SendingsFrom(i.sent_tstamp_pcap, <<>>, TRUE)
    BY <1>5, <2>5, AddedSending
  <2> QED
    BY <1>5, <2>1, <2>2, <2>3, <2>4 DEF OnlyPackets
<1>8. r \in ByteRanges
  <2>1. i.fin \in Counters
    BY <1>7 DEF ByteRanges
  <2>2. f \in Counters
    BY <2>1, AddType
  <2> HIDE DEF i, f, p
  <2> QED
    BY <1>3, <1>7, <2>2 DEF ByteRanges
<1>9. /\ r.endSeq = b /\ ~r.acked /\ r.ackTime = 0
      /\ r.sent_tstamp_pcap # <<>> /\ getSendTime(r) <= clock
      /\ r.data_sent_count = Add(0, TRUE) /\ r.data_received_count = 0
      /\ \A u \in PacketTimes(r.sent_tstamp_pcap) : u = seg.time
      /\ \E u \in Sendings(r.sent_tstamp_pcap) : u.time = seg.time
      /\ \A u \in Sendings(r.sent_tstamp_pcap) : ~u.rdb \/ seg.is_rdb
  <2> HIDE DEF i, f, p
  <2>1. /\ r.endSeq = i.endSeq /\ r.acked = i.acked /\ r.ackTime = i.ackTime
        /\ r.sent_tstamp_pcap = i.sent_tstamp_pcap
        /\ r.data_sent_count = i.data_sent_count
        /\ r.data_received_count = i.data_received_count
    BY <1>7 DEF ByteRanges
  <2> HIDE DEF r
  <2>2. Sendings(<<>>) = {}
    BY DEF Sendings
  <2> QED
    BY <1>3, <1>7, <2>1, <2>2 DEF getSendTime, SendingsFrom
<1>10. \/ /\ Fail("assert_search") /\ UNCHANGED ranges
          /\ a < lastSeq /\ \A k \in Keys : k > b
       \/ Return /\ ranges' = IF SENT THEN Put(ranges, a, r) ELSE ranges
  BY DEF InsertNew
<1> HIDE DEF r
<1>11. CASE Return /\ SENT /\ ranges' = Put(ranges, a, r)
  <2>1. PutFacts(ranges, a, r)
    BY <1>2, <1>8, PutType
  <2>2. /\ Keys' = Keys \cup {a} /\ ranges'[a] = r
        /\ \A k \in Keys : k # a => ranges'[k] = ranges[k]
    BY <1>11, <2>1 DEF PutFacts, Keys
  <2>3. ~\E k \in Keys : Covers(k, a)
    <3> SUFFICES ASSUME NEW k \in Keys, Covers(k, a) PROVE FALSE
      OBVIOUS
    <3>1. k < a /\ a < ranges[k].endSeq
      BY <1>1, <1>2 DEF Covers
    <3>2. ranges[k].endSeq <= lastSeq
      BY <1>2, <3>1 DEF StepInv, LastSeqBound
    <3>3. Host(k)
      BY <1>1, CoverIsHost
    <3> QED
      BY <1>1, <1>2, <3>1, <3>2, <3>3
  <2>4. \A k \in Keys : k <= a
    BY <1>1, <1>11, <2>3, AtTheEnd
  <2>5. \A k \in Keys : ranges[k].endSeq <= a
    BY <1>2, <2>3, <2>4 DEF Covers
  <2>6. Opens
    BY <1>1, <1>9, <1>11, <2>2, <2>4, <2>5 DEF Opens
  <2> QED
    BY <2>6
<1> QED
  BY <1>10, <1>11

\* Data at a range without bytes fills it.
LEMMA FillEmptyOpens ==
    ASSUME TypeOK, StepInv, EverySent, FillEmpty
    PROVE  Opens /\ frame.start \in Keys
<1> DEFINE a == frame.start
           b == frame.end
           q == Truncate(ranges[a], b)
           o == [q EXCEPT !.original_payload_size = b - a]
           r == increase_sent(o, seg.time, this_is_rdb_data, "ST_PKT")
<1>1. op = "insert" /\ ~ZeroLength /\ SENT /\ a \in Keys
  BY DEF FillEmpty, StartFound
<1>2. /\ a \in Nat /\ b \in Nat /\ Keys \subseteq Nat /\ RangeMap(ranges)
      /\ \A k \in Keys : ranges[k].endSeq \in Nat
      /\ ranges[a] \in ByteRanges /\ ranges[a].sent_tstamp_pcap # <<>>
      /\ getSendTime(ranges[a]) <= clock
      /\ a < b /\ b - a \in Int
      /\ seg.time \in Nat /\ this_is_rdb_data \in BOOLEAN
  BY <1>1, SegmentType
     DEF StepInv, Typed, CallInStream, TypeOK, rmTypeOK, RangeMap, Keys, EverySent
<1>3. ranges[a].endSeq = a
  BY FillEmptyShape DEF TypeOK
<1>4. ~\E k \in Keys : Covers(k, a)
  <2> SUFFICES ASSUME NEW k \in Keys, Covers(k, a) PROVE FALSE
    OBVIOUS
  <2>1. k <= a /\ a < ranges[k].endSeq /\ k \in Nat
    BY <1>2 DEF Covers
  <2>2. k # a
    BY <1>2, <1>3, <2>1
  <2>3. ranges[k].endSeq <= a
    BY <1>1, <1>2, <2>1, <2>2 DEF StepInv, Disjoint
  <2> QED
    BY <1>2, <2>1, <2>3
<1>5. \A k \in Keys : k <= a
  BY <1>1, <1>4, AtTheEnd
<1>6. \A k \in Keys : ranges[k].endSeq <= a
  BY <1>2, <1>4, <1>5 DEF Covers
<1>7. ranges' = Put(ranges, a, r) /\ Return
  <2>1. ~\E n \in Keys : IsNext(a, n)
    <3> SUFFICES ASSUME NEW n \in Keys, IsNext(a, n) PROVE FALSE
      OBVIOUS
    <3>1. n \in Nat /\ a \in Nat /\ n <= a /\ n > a
      BY <1>2, <1>5 DEF IsNext
    <3> QED
      BY <3>1
  <2> QED
    BY <2>1 DEF FillEmpty
<1>8. /\ o \in ByteRanges /\ o.endSeq = b
      /\ o.acked = ranges[a].acked /\ o.ackTime = ranges[a].ackTime
      /\ o.sent_tstamp_pcap = ranges[a].sent_tstamp_pcap
      /\ o.data_sent_count = ranges[a].data_sent_count
      /\ o.data_received_count = ranges[a].data_received_count
      /\ o.received_tstamp_tcp = ranges[a].received_tstamp_tcp
  <2>1. q \in ByteRanges /\ q.endSeq = b
    BY <1>2, SplitType
  <2>2. /\ q.acked = ranges[a].acked /\ q.ackTime = ranges[a].ackTime
        /\ q.sent_tstamp_pcap = ranges[a].sent_tstamp_pcap
        /\ q.data_sent_count = ranges[a].data_sent_count
        /\ q.data_received_count = ranges[a].data_received_count
        /\ q.received_tstamp_tcp = ranges[a].received_tstamp_tcp
    BY <1>2 DEF Truncate, ByteRanges
  <2> HIDE DEF q
  <2> QED
    BY <1>2, <2>1, <2>2 DEF ByteRanges
<1> HIDE DEF o
<1>9. /\ r \in ByteRanges /\ r.endSeq = b /\ r.acked = ranges[a].acked
      /\ r.ackTime = ranges[a].ackTime
      /\ r.sent_tstamp_pcap # <<>> /\ getSendTime(r) <= clock
      /\ r.data_sent_count = Add(ranges[a].data_sent_count, TRUE)
      /\ r.data_received_count = ranges[a].data_received_count
      /\ r.received_tstamp_tcp = ranges[a].received_tstamp_tcp
      /\ \A u \in PacketTimes(r.sent_tstamp_pcap) :
           u \in PacketTimes(ranges[a].sent_tstamp_pcap) \/ u = seg.time
      /\ SendingsFrom(r.sent_tstamp_pcap, ranges[a].sent_tstamp_pcap, TRUE)
  <2>1. "ST_PKT" \in SentTypes /\ "ST_PKT" \notin {"ST_PURE_ACK", "ST_RST"}
    BY DEF SentTypes
  <2>2. r \in ByteRanges /\ r.endSeq = b
    BY <1>2, <1>8, <2>1, IncreaseSentType
  <2>3. /\ r.acked = o.acked /\ r.ackTime = o.ackTime /\ r.sent_tstamp_pcap # <<>> /\ getSendTime(r) = getSendTime(o)
        /\ r.data_sent_count = Add(o.data_sent_count, TRUE)
        /\ r.data_received_count = o.data_received_count
        /\ r.received_tstamp_tcp = o.received_tstamp_tcp
        /\ OnlyPackets(r.sent_tstamp_pcap, o.sent_tstamp_pcap, "ST_PKT" = "ST_PKT", seg.time)
        /\ Sendings(r.sent_tstamp_pcap) =
             Sendings(o.sent_tstamp_pcap) \cup {[time |-> seg.time, rdb |-> this_is_rdb_data]}
    BY <1>2, <1>8, <2>1, IncreaseSentHistory DEF Add
  <2>4. getSendTime(o) = getSendTime(ranges[a])
    BY <1>8 DEF getSendTime
  <2>5. SendingsFrom(r.sent_tstamp_pcap, ranges[a].sent_tstamp_pcap, TRUE)
    BY <1>8, <2>3, AddedSending
  <2> QED
    BY <1>2, <1>8, <2>2, <2>3, <2>4, <2>5 DEF OnlyPackets
<1> HIDE DEF r
<1>10. PutFacts(ranges, a, r)
  BY <1>2, <1>9, PutType
<1>11. /\ Keys' = Keys \cup {a} /\ ranges'[a] = r
       /\ \A k \in Keys : k # a => ranges'[k] = ranges[k]
  BY <1>7, <1>10 DEF PutFacts, Keys
<1>12. /\ \E t \in Sendings(r.sent_tstamp_pcap) : t.time = seg.time
       /\ \A t \in Sendings(r.sent_tstamp_pcap) :
            ~t.rdb \/ seg.is_rdb \/ (a \in Keys /\ t \in Sendings(ranges[a].sent_tstamp_pcap))
  BY <1>1, <1>9 DEF SendingsFrom
<1> QED
  BY <1>1, <1>5, <1>6, <1>7, <1>9, <1>11, <1>12 DEF Opens

\* A segment without payload adds an empty range, which counts as data only if
\* it is a SYN, FIN or RST.
LEMMA InsertZeroLengthHistory ==
    ASSUME TypeOK, StepInv, EverySent, InsertZeroLength
    PROVE  LET z == frame.start
               r == ranges'[z]
           IN /\ op = "insert" /\ ZeroLength /\ Return
              /\ z \notin Keys /\ Keys' = Keys \cup {z}
              /\ \A k \in Keys : ranges'[k] = ranges[k]
              /\ r.endSeq = z /\ ~r.acked /\ r.ackTime = 0
              /\ r.sent_tstamp_pcap # <<>> /\ getSendTime(r) <= clock
              /\ r.data_sent_count = Add(0, seg.flag # "none")
              /\ r.data_received_count = 0
              /\ \A u \in PacketTimes(r.sent_tstamp_pcap) : seg.flag # "none" /\ u = seg.time
              /\ \A u \in Sendings(r.sent_tstamp_pcap) : ~u.rdb \/ seg.is_rdb
<1> DEFINE z == frame.start
           m == newByteRange(z, z)
           c1 == Add(m.packet_retrans_count, seg.retrans)
           c2 == Add(m.rdb_count, seg.is_rdb)
           c3 == Add(m.syn, seg.flag = "syn")
           c4 == Add(m.fin, seg.flag = "fin")
           c5 == Add(m.rst, seg.flag = "rst")
           r == [m EXCEPT !.packet_retrans_count = c1, !.rdb_count = c2,
                          !.syn = c3, !.fin = c4, !.rst = c5]
           t == IF seg.flag # "none" THEN "ST_PKT" ELSE "ST_PURE_ACK"
           i == increase_sent(r, seg.time, this_is_rdb_data, t)
<1>1. /\ op = "insert" /\ ZeroLength /\ Return /\ z \notin Keys /\ start_seq = z
      /\ Keys' = Keys \cup {z}
  <2>1. op = "insert" /\ ZeroLength /\ Return /\ start_seq \notin Keys
    BY DEF InsertZeroLength
  <2> QED
    BY <2>1, InsertZeroLengthShape DEF TypeOK, start_seq
<1>2. /\ RangeMap(ranges) /\ z \in Nat
      /\ seg.time \in Nat /\ this_is_rdb_data \in BOOLEAN /\ seg.time <= clock
  BY <1>1, SegmentType DEF StepInv, Typed, TypeOK, rmTypeOK, RangeMap, EverySent
<1>3. /\ m \in ByteRanges /\ m.endSeq = z /\ ~m.acked /\ m.ackTime = 0 /\ m.sent_tstamp_pcap = <<>>
      /\ m.data_sent_count = 0 /\ m.data_received_count = 0
  <2>1. m \in ByteRanges /\ m.endSeq = z
    BY <1>2, NewByteRangeType
  <2> QED
    BY <2>1 DEF newByteRange
<1>4. c1 \in Counters /\ c2 \in Counters /\ c3 \in Counters /\ c4 \in Counters /\ c5 \in Counters
  <2> HIDE DEF m
  <2>1. /\ m.packet_retrans_count \in Counters /\ m.rdb_count \in Counters
        /\ m.syn \in Counters /\ m.fin \in Counters /\ m.rst \in Counters
    BY <1>3 DEF ByteRanges
  <2> QED
    BY <2>1, AddType
<1>5. /\ r \in ByteRanges /\ r.endSeq = z /\ ~r.acked /\ r.ackTime = 0 /\ r.sent_tstamp_pcap = <<>>
      /\ r.data_sent_count = 0 /\ r.data_received_count = 0
  <2> HIDE DEF m, c1, c2, c3, c4, c5
  <2> QED
    BY <1>3, <1>4 DEF ByteRanges
<1>6. ranges' = Put(ranges, z, i)
  BY <1>1 DEF InsertZeroLength
<1> HIDE DEF r
<1>7. /\ i \in ByteRanges /\ i.endSeq = z /\ ~i.acked /\ i.ackTime = 0
      /\ i.sent_tstamp_pcap # <<>> /\ getSendTime(i) = seg.time
      /\ i.data_sent_count = Add(0, seg.flag # "none") /\ i.data_received_count = 0
      /\ \A u \in PacketTimes(i.sent_tstamp_pcap) : seg.flag # "none" /\ u = seg.time
      /\ \A u \in Sendings(i.sent_tstamp_pcap) : ~u.rdb \/ seg.is_rdb
  <2>1. /\ t \in SentTypes /\ (t \notin {"ST_PURE_ACK", "ST_RST"}) = (seg.flag # "none")
        /\ t = "ST_PKT" => seg.flag # "none"
    BY DEF SentTypes
  <2>2. i \in ByteRanges /\ i.endSeq = z
    <3> HIDE DEF t
    <3> QED
      BY <1>2, <1>5, <2>1, IncreaseSentType
  <2>3. /\ i.acked = r.acked /\ i.ackTime = r.ackTime
        /\ i.sent_tstamp_pcap # <<>> /\ getSendTime(i) = seg.time
        /\ i.data_sent_count = Add(0, t \notin {"ST_PURE_ACK", "ST_RST"})
        /\ i.data_received_count = 0
        /\ OnlyPackets(i.sent_tstamp_pcap, r.sent_tstamp_pcap, t = "ST_PKT", seg.time)
    <3> HIDE DEF t
    <3> QED
      BY <1>2, <1>5, <2>1, IncreaseSentHistory
  <2>8. Sendings(i.sent_tstamp_pcap) =
          Sendings(r.sent_tstamp_pcap) \cup {[time |-> seg.time, rdb |-> this_is_rdb_data]}
    <3> HIDE DEF t
    <3> QED
      BY <1>2, <1>5, <2>1, IncreaseSentHistory
  <2>4. i.data_sent_count = Add(0, seg.flag # "none")
    <3> HIDE DEF i, t
    <3> QED
      BY <2>1, <2>3
  <2>5. PacketTimes(<<>>) = {}
    BY DEF PacketTimes
  <2>6. \A u \in PacketTimes(i.sent_tstamp_pcap) : seg.flag # "none" /\ u = seg.time
    <3> HIDE DEF i, t
    <3> QED
      BY <1>5, <2>1, <2>3, <2>5 DEF OnlyPackets
  <2>7. \A u \in Sendings(i.sent_tstamp_pcap) : ~u.rdb \/ seg.is_rdb
    <3> HIDE DEF i, t
    <3>1. SendingsFrom(i.sent_tstamp_pcap, r.sent_tstamp_pcap, TRUE)
      BY <2>8, AddedSending
    <3>2. Sendings(<<>>) = {}
      BY DEF Sendings
    <3> QED
      BY <1>5, <3>1, <3>2 DEF SendingsFrom
  <2> QED
    BY <1>5, <2>2, <2>3, <2>4, <2>6, <2>7
<1> HIDE DEF i
<1>8. PutFacts(ranges, z, i)
  BY <1>2, <1>7, PutType
<1>9. ranges'[z] = i /\ \A k \in Keys : ranges'[k] = ranges[k]
  BY <1>1, <1>6, <1>8 DEF PutFacts, Keys
<1> QED
  BY <1>1, <1>2, <1>7, <1>9

\* A segment without payload at a range counts as data if it is a SYN or a FIN.
LEMMA UpdateZeroLengthHistory ==
    ASSUME TypeOK, StepInv, EverySent, UpdateZeroLength
    PROVE  /\ op = "insert" /\ ZeroLength /\ Return
           /\ start_seq \in Keys /\ Keys' = Keys
           /\ \A k \in Keys : k # start_seq => ranges'[k] = ranges[k]
           /\ ranges'[start_seq].endSeq = ranges[start_seq].endSeq
           /\ Kept(ranges'[start_seq], ranges[start_seq])
           /\ Counts(ranges'[start_seq], ranges[start_seq], seg.flag \in {"syn", "fin"})
           /\ PacketsFrom(ranges'[start_seq].sent_tstamp_pcap,
                          ranges[start_seq].sent_tstamp_pcap, FALSE)
<1> DEFINE z == start_seq
           r == ranges[z]
           t == CASE seg.flag \in {"syn", "fin"} -> "ST_RTR"
                  [] seg.flag = "rst" -> "ST_RST"
                  [] OTHER -> "ST_PURE_ACK"
           i == increase_sent(r, seg.time, this_is_rdb_data, t)
           a == Add(i.syn, seg.flag = "syn")
           b == Add(i.fin, seg.flag = "fin")
           c == Add(i.rst, seg.flag = "rst")
           s == [i EXCEPT !.syn = a, !.fin = b, !.rst = c]
           j == IF seg.flag \in {"syn", "fin"}
                THEN increase_received(r, seg.tstamp_tcp, seg.time) ELSE r
           d == Add(j.packet_received_count, Outermost)
           v == [j EXCEPT !.packet_received_count = d]
<1>1. op = "insert" /\ ZeroLength /\ Return /\ z \in Keys
  BY DEF UpdateZeroLength
<1>2. /\ RangeMap(ranges) /\ z \in Nat /\ r \in ByteRanges /\ r.sent_tstamp_pcap # <<>>
      /\ seg.time \in Nat /\ seg.tstamp_tcp \in Nat /\ this_is_rdb_data \in BOOLEAN
  BY <1>1, SegmentType DEF TypeOK, rmTypeOK, RangeMap, EverySent, Keys
<1> DEFINE f == seg.flag \in {"syn", "fin"}
<1>3. PICK n \in ByteRanges : /\ ranges' = Put(ranges, z, n) /\ n.endSeq = r.endSeq
                               /\ Kept(n, r) /\ Counts(n, r, f)
                               /\ PacketsFrom(n.sent_tstamp_pcap, r.sent_tstamp_pcap, FALSE)
  <2>1. CASE SENT
    <3>1. t \in SentTypes /\ (t \notin {"ST_PURE_ACK", "ST_RST"}) = f /\ t # "ST_PKT"
      BY DEF SentTypes
    <3>2. /\ i \in ByteRanges /\ i.endSeq = r.endSeq
          /\ i.acked = r.acked /\ i.ackTime = r.ackTime
          /\ i.sent_tstamp_pcap # <<>> /\ getSendTime(i) = getSendTime(r)
          /\ i.data_sent_count = Add(r.data_sent_count, f)
          /\ i.data_received_count = r.data_received_count
          /\ i.received_tstamp_tcp = r.received_tstamp_tcp
          /\ \A u \in PacketTimes(i.sent_tstamp_pcap) : u \in PacketTimes(r.sent_tstamp_pcap)
          /\ SendingsFrom(i.sent_tstamp_pcap, r.sent_tstamp_pcap, TRUE)
      <4> HIDE DEF t
      <4>1. i \in ByteRanges /\ i.endSeq = r.endSeq
        BY <1>2, <3>1, IncreaseSentType
      <4>2. /\ i.acked = r.acked /\ i.ackTime = r.ackTime
            /\ i.sent_tstamp_pcap # <<>> /\ getSendTime(i) = getSendTime(r)
            /\ i.data_sent_count = Add(r.data_sent_count, t \notin {"ST_PURE_ACK", "ST_RST"})
            /\ i.data_received_count = r.data_received_count
            /\ i.received_tstamp_tcp = r.received_tstamp_tcp
            /\ OnlyPackets(i.sent_tstamp_pcap, r.sent_tstamp_pcap, t = "ST_PKT", seg.time)
        BY <1>2, <3>1, IncreaseSentHistory
      <4>4. Sendings(i.sent_tstamp_pcap) =
              Sendings(r.sent_tstamp_pcap) \cup {[time |-> seg.time, rdb |-> this_is_rdb_data]}
        <5>1. t \in SentTypes /\ r \in ByteRanges
          BY <1>2, <3>1
        <5> HIDE DEF r
        <5> QED
          BY <1>2, <5>1, IncreaseSentHistory
      <4> HIDE DEF i, f
      <4>3. SendingsFrom(i.sent_tstamp_pcap, r.sent_tstamp_pcap, TRUE)
        BY <4>4, AddedSending
      <4> QED
        BY <3>1, <4>1, <4>2, <4>3 DEF OnlyPackets
    <3>3. s \in ByteRanges
      <4> HIDE DEF i
      <4>1. i.syn \in Counters /\ i.fin \in Counters /\ i.rst \in Counters
        BY <3>2 DEF ByteRanges
      <4>2. a \in Counters /\ b \in Counters /\ c \in Counters
        BY <4>1, AddType
      <4> HIDE DEF a, b, c
      <4> QED
        BY <3>2, <4>2 DEF ByteRanges
    <3> HIDE DEF a, b, c, i
    <3>4. /\ s.endSeq = i.endSeq /\ s.acked = i.acked /\ s.ackTime = i.ackTime
          /\ s.sent_tstamp_pcap = i.sent_tstamp_pcap
          /\ s.data_sent_count = i.data_sent_count
          /\ s.data_received_count = i.data_received_count
          /\ s.received_tstamp_tcp = i.received_tstamp_tcp
      BY <3>2 DEF ByteRanges
    <3>5. ranges' = Put(ranges, z, s)
      BY <2>1 DEF UpdateZeroLength, a, b, c, i
    <3> HIDE DEF s, f
    <3>6. Kept(s, r)
      BY <3>2, <3>4 DEF Kept, getSendTime
    <3>7. PacketsFrom(s.sent_tstamp_pcap, r.sent_tstamp_pcap, FALSE)
      BY <3>2, <3>4 DEF PacketsFrom, OnlyPackets
    <3>8. Counts(s, r, f)
      BY <2>1, <3>2, <3>4, <3>7 DEF Counts, Add, PacketsFrom, OnlyPackets, SendingsFrom
    <3> QED
      BY <3>2, <3>3, <3>4, <3>5, <3>6, <3>7, <3>8
  <2>2. CASE ~SENT
    <3>1. /\ j \in ByteRanges /\ j.endSeq = r.endSeq
          /\ j.acked = r.acked /\ j.ackTime = r.ackTime
          /\ j.sent_tstamp_pcap = r.sent_tstamp_pcap
          /\ j.data_sent_count = r.data_sent_count
          /\ j.data_received_count = Add(r.data_received_count, f)
          /\ j.received_tstamp_tcp =
               IF f /\ r.data_received_count = 0 THEN seg.tstamp_tcp ELSE r.received_tstamp_tcp
      <4>1. CASE f
        <5> DEFINE w == increase_received(r, seg.tstamp_tcp, seg.time)
        <5>1. w \in ByteRanges /\ w.endSeq = r.endSeq
          BY <1>2, IncreaseReceivedType
        <5>2. /\ w.acked = r.acked /\ w.ackTime = r.ackTime
              /\ w.sent_tstamp_pcap = r.sent_tstamp_pcap
              /\ w.data_sent_count = r.data_sent_count
              /\ w.data_received_count = Add(r.data_received_count, TRUE)
              /\ w.received_tstamp_tcp =
                   IF r.data_received_count = 0 THEN seg.tstamp_tcp ELSE r.received_tstamp_tcp
          BY <1>2, IncreaseReceivedHistory
        <5>3. j = w
          BY <4>1
        <5> HIDE DEF w, j, f
        <5> QED
          BY <4>1, <5>1, <5>2, <5>3 DEF Add
      <4>2. CASE ~f
        BY <1>2, <4>2 DEF Add
      <4> QED
        BY <4>1, <4>2
    <3>2. v \in ByteRanges
      <4> HIDE DEF j
      <4>1. j.packet_received_count \in Counters
        BY <3>1 DEF ByteRanges
      <4>2. d \in Counters
        BY <4>1, AddType
      <4> HIDE DEF d
      <4> QED
        BY <3>1, <4>2 DEF ByteRanges
    <3> HIDE DEF j, d
    <3>3. /\ v.endSeq = j.endSeq /\ v.acked = j.acked /\ v.ackTime = j.ackTime
          /\ v.sent_tstamp_pcap = j.sent_tstamp_pcap
          /\ v.data_sent_count = j.data_sent_count
          /\ v.data_received_count = j.data_received_count
          /\ v.received_tstamp_tcp = j.received_tstamp_tcp
      BY <3>1 DEF ByteRanges
    <3>4. ranges' = Put(ranges, z, v)
      BY <2>2 DEF UpdateZeroLength, j, d
    <3> HIDE DEF v, f
    <3>5. Kept(v, r)
      BY <1>2, <3>1, <3>3 DEF Kept, getSendTime
    <3>6. PacketsFrom(v.sent_tstamp_pcap, r.sent_tstamp_pcap, FALSE)
      BY <3>1, <3>3 DEF PacketsFrom, OnlyPackets
    <3>7. Counts(v, r, f)
      BY <2>2, <3>1, <3>3, <3>6 DEF Counts, Add, PacketsFrom, OnlyPackets, SendingsFrom
    <3> QED
      BY <3>1, <3>2, <3>3, <3>4, <3>5, <3>6, <3>7
  <2> QED
    BY <2>1, <2>2
<1>4. PutFacts(ranges, z, n)
  BY <1>2, <1>3, PutType
<1>5. Keys' = Keys /\ ranges'[z] = n /\ \A k \in Keys : k # z => ranges'[k] = ranges[k]
  BY <1>1, <1>3, <1>4 DEF PutFacts, Keys
<1> QED
  BY <1>1, <1>3, <1>5

=============================================================================
