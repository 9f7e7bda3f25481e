-------------------------- MODULE SeqTrackerProofs --------------------------
(***************************************************************************)
(* For every number W of raw sequence numbers: getRelativeSequenceNumber   *)
(* returns the true offset of every segment within half a turn of the      *)
(* largest offset so far, unless the segment is one of the two kinds       *)
(* singled out in SeqTracker, and the tracking fields never drift.         *)
(***************************************************************************)
EXTENDS SeqTracker, TLAPS

-----------------------------------------------------------------------------
(* Facts about division by W. *)

LEMMA DivMod ==
    \A a \in Int : /\ a = W * (a \div W) + (a % W)
                   /\ a % W \in 0 .. W - 1
                   /\ a \div W \in Int
  BY WAssumption

LEMMA HalfTurn == Half \in Nat /\ W = 2 * Half /\ Half > 2
  BY WAssumption DEF Half

LEMMA DivModUnique ==
    ASSUME NEW q \in Int, NEW p \in Int,
           NEW r \in 0 .. W - 1, NEW s \in 0 .. W - 1,
           W * q + r = W * p + s
    PROVE  q = p /\ r = s
  <1>1. CASE q > p
    <2>1. W * (q - p) = s - r
      BY WAssumption
    <2>2. W * (q - p) >= W
      BY WAssumption, <1>1, q - p >= 1
    <2>3. QED
      BY <2>1, <2>2, WAssumption
  <1>2. CASE q < p
    <2>1. W * (p - q) = r - s
      BY WAssumption
    <2>2. W * (p - q) >= W
      BY WAssumption, <1>2, p - q >= 1
    <2>3. QED
      BY <2>1, <2>2, WAssumption
  <1>3. QED
    BY <1>1, <1>2, WAssumption

\* A remainder and a quotient are known once the number is written with them.
LEMMA DivModIs ==
    ASSUME NEW q \in Int, NEW r \in 0 .. W - 1
    PROVE  (W * q + r) % W = r /\ (W * q + r) \div W = q
  <1> DEFINE a == W * q + r
  <1>1. a \in Int
    BY WAssumption
  <1>2. a = W * (a \div W) + (a % W) /\ a % W \in 0 .. W - 1 /\ a \div W \in Int
    BY <1>1, DivMod
  <1> HIDE DEF a
  <1>3. W * q + r = W * (a \div W) + (a % W)
    BY <1>2 DEF a
  <1>4. q = a \div W /\ r = a % W
    BY <1>2, <1>3, DivModUnique
  <1>5. QED
    BY <1>4 DEF a

\* The difference of two raw numbers that are less than half a turn apart.
LEMMA RawDifference ==
    ASSUME NEW X \in Nat, NEW A \in Nat, X - A < Half, A - X < Half
    PROVE  /\ X >= A => ((X % W) - (A % W)) % W = X - A
           /\ X < A => ((X % W) - (A % W)) % W = X - A + W
  <1>1. /\ X = W * (X \div W) + (X % W) /\ X % W \in 0 .. W - 1 /\ X \div W \in Int
        /\ A = W * (A \div W) + (A % W) /\ A % W \in 0 .. W - 1 /\ A \div W \in Int
    BY DivMod
  <1> DEFINE k == (A \div W) - (X \div W)
  <1>2. k \in Int
    BY <1>1
  <1>3. (X % W) - (A % W) = W * k + (X - A)
    BY <1>1, WAssumption
  <1>4. k + 1 \in Int /\ k - 1 \in Int
    BY <1>2
  <1>5. CASE X >= A
    <2>1. X - A \in 0 .. W - 1
      BY <1>5, HalfTurn
    <2>2. (W * k + (X - A)) % W = X - A
      BY <1>2, <2>1, DivModIs
    <2>3. QED
      BY <2>2, <1>3, <1>5
  <1>6. CASE X < A
    <2>1. X - A + W \in 0 .. W - 1
      BY <1>6, HalfTurn
    <2>2. (W * (k - 1) + (X - A + W)) % W = X - A + W
      BY <1>4, <2>1, DivModIs
    <2>3. W * (k - 1) + (X - A + W) = (X % W) - (A % W)
      BY <1>2, <1>3, WAssumption
    <2>4. QED
      BY <2>2, <2>3, <1>6
  <1>7. QED
    BY <1>5, <1>6

\* The four branches of getRelativeSequenceNumber all move wrap_index to the
\* true position of the segment plus one.
LEMMA WrapPositionExact ==
    ASSUME NEW f \in 0 .. W - 1, NEW L \in Nat, NEW r \in Nat,
           r - L < Half, L - r < Half, f + r + 1 < Word64
    PROVE  WrapPosition((f + r) % W, f, L, (f + L) % W) = f + r + 1
  <1> DEFINE X == f + r
             A == f + L
             s == X % W
             a == A % W
  <1>1. X \in Nat /\ A \in Nat /\ X - A < Half /\ A - X < Half
    BY WAssumption
  <1>2. /\ X >= A => (s - a) % W = X - A
        /\ X < A => (s - a) % W = X - A + W
    BY <1>1, RawDifference
  <1>3. /\ A >= X => (a - s) % W = A - X
        /\ A < X => (a - s) % W = A - X + W
    BY <1>1, RawDifference
  <1>4. /\ X = W * (X \div W) + s /\ s \in 0 .. W - 1 /\ X \div W \in Int
        /\ A = W * (A \div W) + a /\ a \in 0 .. W - 1 /\ A \div W \in Int
    BY <1>1, DivMod
  <1>5. s >= a /\ X >= A => s - a = X - A
    <2> SUFFICES ASSUME s >= a, X >= A PROVE s - a = X - A
      OBVIOUS
    <2>1. s - a \in 0 .. W - 1
      BY <1>4, WAssumption
    <2>2. (W * 0 + (s - a)) % W = s - a
      BY <2>1, DivModIs
    <2>3. W * 0 + (s - a) = s - a
      BY <1>4, WAssumption
    <2>4. QED
      BY <2>2, <2>3, <1>2
  <1>6. s < a /\ X < A => s - a = X - A
    <2> SUFFICES ASSUME s < a, X < A PROVE s - a = X - A
      OBVIOUS
    <2>1. a - s \in 0 .. W - 1
      BY <1>4, WAssumption
    <2>2. (W * 0 + (a - s)) % W = a - s
      BY <2>1, DivModIs
    <2>3. W * 0 + (a - s) = a - s
      BY <1>4, WAssumption
    <2>4. QED
      BY <2>2, <2>3, <1>3, <1>4, <1>1
  <1>7. X + 1 \in 0 .. Word64 - 1 /\ Word64 \in Nat
    BY <1>1, WAssumption DEF Word64
  <1>8. (X + 1) % Word64 = X + 1
    BY <1>7
  <1> DEFINE move == IF s < a
                     THEN IF before(s, a) THEN -(a - s) ELSE (s - a) % W
                     ELSE IF after_or_equal(a, s) THEN s - a ELSE -((a - s) % W)
  <1>9. move = X - A
    <2>1. CASE X >= A
      <3>1. ~ before(s, a) /\ after_or_equal(a, s)
        BY <2>1, <1>1, <1>2, HalfTurn DEF before, after_or_equal
      <3>2. QED
        BY <3>1, <2>1, <1>2, <1>5, <1>4
    <2>2. CASE X < A
      <3>1. before(s, a) /\ ~ after_or_equal(a, s)
        BY <2>2, <1>1, <1>2, HalfTurn DEF before, after_or_equal
      <3>2. QED
        BY <3>1, <2>2, <1>1, <1>3, <1>6, <1>4
    <2>3. QED
      BY <2>1, <2>2, <1>1
  <1>10. f + L + 1 + move = X + 1
    BY <1>9
  <1>11. WrapPosition(s, f, L, a) = (f + L + 1 + move) % Word64
    BY DEF WrapPosition
  <1>12. QED
    BY <1>8, <1>10, <1>11

\* Adding to a raw number is adding to the position.
LEMMA RawPlus ==
    ASSUME NEW X \in Nat, NEW n \in Nat
    PROVE  ((X % W) + n) % W = (X + n) % W
  <1> DEFINE Y == (X % W) + n
             k == (X \div W) + (Y \div W)
  <1>1. X = W * (X \div W) + (X % W) /\ X \div W \in Int /\ X % W \in 0 .. W - 1
    BY DivMod
  <1>2. Y = W * (Y \div W) + (Y % W) /\ Y % W \in 0 .. W - 1 /\ Y \div W \in Int
    <2>1. Y \in Int
      BY <1>1, WAssumption
    <2>2. QED
      BY <2>1, DivMod
  <1>3. k \in Int
    BY <1>1, <1>2
  <1>4. X + n = W * k + (Y % W)
    <2>1. X + n = W * (X \div W) + Y
      BY <1>1, WAssumption
    <2>2. W * (X \div W) + W * (Y \div W) = W * k
      BY <1>1, <1>2, WAssumption
    <2>3. QED
      BY <2>1, <2>2, <1>1, <1>2, WAssumption
  <1>5. (W * k + (Y % W)) % W = Y % W
    BY <1>2, <1>3, DivModIs
  <1>6. QED
    BY <1>4, <1>5

\* The offset is exact for an input within half a turn of the reference point,
\* unless it starts at raw number W - 1 or is refused, and the program ends
\* exactly if the offset is beyond its limit.
THEOREM RelativeOffsetExact ==
    ASSUME NEW f \in 0 .. W - 1, NEW L \in Nat, NEW r \in Nat,
           r + W < Word64,
           r - L < Half, L - r < Half,
           (f + r) % W # W - 1,
           ~ BeforeFirst((f + r) % W, f, (f + L) % W)
    PROVE  getRelativeSequenceNumber((f + r) % W, f, L, (f + L) % W)
             = IF r > RelLimit THEN Aborted ELSE r
  <1> DEFINE X == f + r
             s == X % W
             q == X \div W
  <1>1. X \in Nat /\ Word64 \in Nat
    BY WAssumption DEF Word64
  <1>2. X + 1 < Word64
    BY <1>1, WAssumption
  <1>3. X = W * q + s /\ s \in 0 .. W - 1 /\ q \in Int
    BY <1>1, DivMod
  <1>4. s + 1 \in 0 .. W - 1
    BY <1>3, WAssumption
  <1>5. (W * q + (s + 1)) \div W = q
    BY <1>3, <1>4, DivModIs
  <1>6. X + 1 = W * q + (s + 1)
    BY <1>3, <1>1, WAssumption
  <1>7. (X + 1) \div W = q
    BY <1>5, <1>6
  <1>8. WrapPosition(s, f, L, (f + L) % W) = X + 1
    BY <1>1, <1>2, WrapPositionExact
  <1>9. s + q * W - f = r
    BY <1>3, <1>1, WAssumption
  <1>10. r \in 0 .. Word64 - 1
    BY <1>1, WAssumption
  <1>11. r % Word64 = r
    BY <1>10, <1>1
  <1>12. getRelativeSequenceNumber(s, f, L, (f + L) % W)
           = IF r % Word64 > RelLimit THEN Aborted ELSE r % Word64
    BY <1>7, <1>8, <1>9 DEF getRelativeSequenceNumber
  <1>13. QED
    BY <1>11, <1>12

-----------------------------------------------------------------------------
(* The state machine. *)

LEMMA ConstantFacts ==
    /\ W \in Nat /\ W > 4 /\ Half \in Nat /\ W = 2 * Half
    /\ RelLimit \in Nat /\ Word64 \in Nat
    /\ MaxStream \in Nat /\ Window \in 1 .. Half - 1
    /\ MaxPayload \in 1 .. Half - 1
  BY WAssumption, HalfTurn, RelLimitAssumption, WindowAssumption,
     MaxPayloadAssumption, MaxStreamAssumption DEF Word64

LEMMA RelativeType ==
    ASSUME NEW seq \in 0 .. W - 1, NEW f \in 0 .. W - 1,
           NEW L \in Nat, NEW abs \in 0 .. W - 1
    PROVE  getRelativeSequenceNumber(seq, f, L, abs) \in Nat \cup {Aborted}
  <1> DEFINE p == WrapPosition(seq, f, L, abs)
             rel == (seq + (p \div W) * W - f) % Word64
  <1>1. Word64 \in Nat /\ Word64 > 0
    BY WAssumption DEF Word64
  <1>2. (seq - abs) % W \in Int /\ (abs - seq) % W \in Int
    BY WAssumption
  <1>3. p \in Int
    BY <1>1, <1>2 DEF WrapPosition
  <1>4. p \div W \in Int
    BY <1>3, DivMod
  <1>5. (p \div W) * W \in Int
    BY <1>4, WAssumption
  <1> HIDE DEF p
  <1>6. seq + (p \div W) * W - f \in Int
    BY <1>5, WAssumption
  <1>7. rel \in Nat
    BY <1>1, <1>6
  <1>8. Invalid \in Nat
    BY <1>1 DEF Invalid
  <1>9. getRelativeSequenceNumber(seq, f, L, abs) \in {Invalid, Aborted, rel}
    BY DEF getRelativeSequenceNumber, p
  <1>10. QED
    BY <1>7, <1>8, <1>9

LEMMA RawSeqType ==
    ASSUME TypeOK, NEW pos \in 0 .. MaxStream
    PROVE  RawSeq(pos) \in 0 .. W - 1
  <1>1. firstSeq + pos \in Int
    BY ConstantFacts DEF TypeOK
  <1>2. QED
    BY <1>1, DivMod DEF RawSeq

LEMMA OffsetType ==
    ASSUME TypeOK, NEW pos \in 0 .. MaxStream
    PROVE  Offset(pos) \in Nat \cup {Aborted}
  BY RawSeqType, RelativeType DEF TypeOK, Offset

LEMMA MoveToType ==
    ASSUME TypeOK, NEW pos \in 0 .. MaxStream, NEW n \in Nat, MoveTo(pos, n)
    PROVE  largestSeq' \in Nat /\ largestSeqAbsolute' \in 0 .. W - 1
  <1>1. (RawSeq(pos) + n) % W \in 0 .. W - 1
    <2>1. RawSeq(pos) + n \in Int
      BY RawSeqType, ConstantFacts
    <2>2. QED
      BY <2>1, DivMod
  <1>2. CASE Refused(pos)
    BY <1>2 DEF MoveTo, TypeOK
  <1>3. CASE ~Refused(pos)
    <2>1. Offset(pos) \in Nat
      BY <1>3, OffsetType DEF Refused
    <2>2. QED
      BY <1>1, <1>3, <2>1 DEF MoveTo
  <1>4. QED
    BY <1>2, <1>3

\* What every input leaves of the types, whatever it moves.
LEMMA InputType ==
    ASSUME TypeOK, NEW t, NEW pos \in 0 .. MaxStream, Convert(t, pos),
           ref' \in 0 .. MaxStream,
           largestSeq' \in Nat, largestSeqAbsolute' \in 0 .. W - 1
    PROVE  TypeOK'
  <1>1. Offset(pos) \in Int
    BY OffsetType DEF Aborted
  <1>2. seen' \in [start : 0 .. MaxStream, seq : Int]
    BY <1>1 DEF Convert
  <1>3. clean' \in BOOLEAN /\ running' \in BOOLEAN
    BY DEF Convert
  <1>4. type' = type /\ firstSeq' = firstSeq
    BY DEF Convert
  <1>5. QED
    BY <1>2, <1>3, <1>4 DEF TypeOK

LEMMA ProcessSentType ==
    ASSUME TypeOK, NEW pos \in 0 .. MaxStream, NEW payload \in 1 .. MaxPayload,
           pos + payload <= MaxStream, processSent(pos, payload)
    PROVE  TypeOK'
  <1>1. Convert("RELSEQ_SEND_OUT", pos) /\ payload \in Nat
    BY ConstantFacts DEF processSent
  <1>2. ref' \in 0 .. MaxStream
    BY ConstantFacts DEF processSent, TypeOK
  <1>3. MoveTo(pos, payload) \/ UNCHANGED <<largestSeq, largestSeqAbsolute>>
    BY DEF processSent
  <1>4. largestSeq' \in Nat /\ largestSeqAbsolute' \in 0 .. W - 1
    <2>1. CASE MoveTo(pos, payload)
      BY <2>1, <1>1, MoveToType
    <2>2. CASE UNCHANGED <<largestSeq, largestSeqAbsolute>>
      BY <2>2 DEF TypeOK
    <2>3. QED
      BY <1>3, <2>1, <2>2
  <1>5. QED
    BY <1>1, <1>2, <1>4, InputType

LEMMA NextType == TypeOK /\ [Next]_vars => TypeOK'
  <1> SUFFICES ASSUME TypeOK, [Next]_vars
               PROVE  TypeOK'
    OBVIOUS
  <1>1. ASSUME NEW payload \in 1 .. MaxPayload, SendNew(payload)
        PROVE  TypeOK'
    <2>1. ref \in 0 .. MaxStream
      BY DEF TypeOK
    <2>2. QED
      BY <1>1, <2>1, ProcessSentType DEF SendNew
  <1>2. ASSUME NEW payload \in 1 .. MaxPayload, NEW pos \in 0 .. MaxStream,
               Retransmit(pos, payload)
        PROVE  TypeOK'
    BY <1>2, ProcessSentType DEF Retransmit
  <1>3. ASSUME NEW payload \in 1 .. MaxPayload, NEW pos \in 0 .. MaxStream,
               registerRecvd(pos, payload)
        PROVE  TypeOK'
    <2>1. /\ Convert("RELSEQ_RECV_INN", pos) /\ payload \in Nat
          /\ MoveTo(pos, payload) /\ ref' \in 0 .. MaxStream
      BY <1>3, ConstantFacts DEF registerRecvd
    <2>2. QED
      BY <2>1, MoveToType, InputType
  <1>4. ASSUME NEW payload \in 1 .. MaxPayload, calculateSojournTime(payload)
        PROVE  TypeOK'
    <2>1. /\ Convert("RELSEQ_SOJ_SEQ", ref) /\ ref \in 0 .. MaxStream
          /\ ref' \in 0 .. MaxStream
          /\ largestSeq' \in Nat /\ largestSeqAbsolute' \in 0 .. W - 1
      BY <1>4, ConstantFacts DEF calculateSojournTime, TypeOK
    <2>2. QED
      BY <2>1, InputType
  <1>5. ASSUME NEW pos \in 0 .. MaxStream, NEW accepted \in BOOLEAN,
               processAcks(pos, accepted)
        PROVE  TypeOK'
    <2>1. Convert("RELSEQ_SEND_ACK", pos) /\ ref' \in 0 .. MaxStream
      BY <1>5 DEF processAcks, TypeOK
    <2>2. largestSeq' \in Nat /\ largestSeqAbsolute' \in 0 .. W - 1
      <3>1. CASE accepted
        BY <1>5, <3>1, MoveToType DEF processAcks
      <3>2. CASE ~accepted
        BY <1>5, <3>2 DEF processAcks, TypeOK
      <3>3. QED
        BY <3>1, <3>2
    <2>3. QED
      BY <2>1, <2>2, InputType
  <1>6. CASE UNCHANGED vars
    BY <1>6 DEF vars, TypeOK
  <1>7. QED
    BY <1>1, <1>2, <1>3, <1>4, <1>5, <1>6 DEF Next

\* Type correctness of the tracker, for every choice of the constants.
THEOREM TypeCorrect == Spec => []TypeOK
  <1>1. Init => TypeOK
    BY ConstantFacts DEF Init, TypeOK
  <1>2. QED
    BY <1>1, NextType, PTL DEF Spec

-----------------------------------------------------------------------------
(* Offsets.  While the program runs its reference point is never further   *)
(* beyond the limit than one segment: an input there ends it.              *)

TrackInv ==
    /\ OffsetsExact
    /\ type # "RELSEQ_SOJ_SEQ" /\ clean /\ running => ref <= RelLimit + MaxPayload

\* The offset of an input near an exact reference point.
LEMMA OffsetAt ==
    ASSUME TypeOK, TrackInv, type # "RELSEQ_SOJ_SEQ", clean, running,
           NEW pos \in 0 .. MaxStream, Near(pos), ~OffByOne(pos), ~UpperHalf(pos)
    PROVE  Offset(pos) = IF pos > RelLimit THEN Aborted ELSE pos
  <1>1. largestSeq = ref /\ largestSeqAbsolute = (firstSeq + ref) % W
    BY DEF TrackInv, OffsetsExact, RawSeq
  <1>2. /\ ref \in Nat /\ pos \in Nat /\ firstSeq \in 0 .. W - 1
        /\ ref <= RelLimit + MaxPayload
    BY ConstantFacts DEF TypeOK, TrackInv
  <1>3. pos - ref < Half /\ ref - pos < Half
    BY <1>2, ConstantFacts DEF Near
  <1>4. pos + W < Word64
    <2>1. Word64 >= 5 * W
      BY WAssumption DEF Word64
    <2>2. pos < RelLimit + Half + Half
      BY <1>2, <1>3, ConstantFacts
    <2>3. QED
      BY <2>1, <2>2, <1>2, ConstantFacts, RelLimitAssumption
  <1>5. /\ (firstSeq + pos) % W # W - 1
        /\ ~ BeforeFirst((firstSeq + pos) % W, firstSeq, (firstSeq + ref) % W)
    BY <1>1 DEF OffByOne, UpperHalf, RawSeq
  <1>6. getRelativeSequenceNumber((firstSeq + pos) % W, firstSeq, ref,
                                  (firstSeq + ref) % W)
          = IF pos > RelLimit THEN Aborted ELSE pos
    BY <1>2, <1>3, <1>4, <1>5, RelativeOffsetExact
  <1>7. QED
    BY <1>6, <1>1 DEF Offset, RawSeq

\* Moving the reference point keeps it exact.
LEMMA MoveToExact ==
    ASSUME TypeOK, NEW pos \in 0 .. MaxStream, NEW n \in Nat, ~(pos > RelLimit),
           Offset(pos) = pos, MoveTo(pos, n)
    PROVE  largestSeq' = pos + n /\ largestSeqAbsolute' = RawSeq(pos + n)
  <1>1. ~Refused(pos)
    <2>1. Word64 >= 5 * W /\ RelLimit <= 3 * W
      BY WAssumption, RelLimitAssumption DEF Word64
    <2>2. QED
      BY <2>1, ConstantFacts DEF Refused, Aborted, Invalid
  <1>2. (RawSeq(pos) + n) % W = RawSeq(pos + n)
    <2>1. firstSeq + pos \in Nat /\ (firstSeq + pos) + n = firstSeq + (pos + n)
      BY ConstantFacts DEF TypeOK
    <2>2. (((firstSeq + pos) % W) + n) % W = ((firstSeq + pos) + n) % W
      BY <2>1, RawPlus
    <2>3. QED
      BY <2>1, <2>2 DEF RawSeq
  <1>3. QED
    BY <1>1, <1>2 DEF MoveTo

\* An input of one of the three kinds that move their reference point keeps
\* the invariant, if it leaves the reference point at its true position.
LEMMA InputExact ==
    ASSUME TypeOK, TypeOK', TrackInv, NEW t, t # "RELSEQ_SOJ_SEQ",
           NEW pos \in 0 .. MaxStream, Near(pos), Convert(t, pos),
           /\ ref <= RelLimit + MaxPayload /\ ~(pos > RelLimit)
           => ref' <= RelLimit + MaxPayload,
           /\ largestSeq = ref /\ largestSeqAbsolute = RawSeq(ref)
           /\ ~(pos > RelLimit) /\ Offset(pos) = pos
           => largestSeq' = ref' /\ largestSeqAbsolute' = RawSeq(ref')
    PROVE  TrackInv'
  <1>1. /\ running /\ type = t /\ type' = type /\ firstSeq' = firstSeq
        /\ seen' = [start |-> pos, seq |-> Offset(pos)]
        /\ clean' = (clean /\ ~OffByOne(pos) /\ ~UpperHalf(pos))
        /\ running' = (Offset(pos) # Aborted)
    BY DEF Convert
  <1> SUFFICES ASSUME clean'
               PROVE  /\ IF running'
                         THEN /\ seen'.seq = seen'.start
                              /\ largestSeq' = ref'
                              /\ largestSeqAbsolute' = RawSeq(ref)'
                         ELSE seen'.start > RelLimit
                      /\ running' => ref' <= RelLimit + MaxPayload
    BY DEF TrackInv, OffsetsExact
  <1>2. clean /\ ~OffByOne(pos) /\ ~UpperHalf(pos)
    BY <1>1
  <1>3. Offset(pos) = IF pos > RelLimit THEN Aborted ELSE pos
    BY <1>1, <1>2, OffsetAt
  <1>4. /\ largestSeq = ref /\ largestSeqAbsolute = RawSeq(ref)
        /\ ref <= RelLimit + MaxPayload
    BY <1>1, <1>2 DEF TrackInv, OffsetsExact
  <1>5. CASE pos > RelLimit
    BY <1>1, <1>3, <1>5
  <1>6. CASE ~(pos > RelLimit)
    <2>1. Offset(pos) = pos
      BY <1>3, <1>6
    <2>2. largestSeq' = ref' /\ largestSeqAbsolute' = RawSeq(ref')
      BY <1>4, <1>6, <2>1
    <2>3. RawSeq(ref)' = RawSeq(ref')
      BY <1>1 DEF RawSeq
    <2>4. running'
      <3>1. pos # Aborted
        BY ConstantFacts DEF Aborted
      <3>2. QED
        BY <1>1, <2>1, <3>1
    <2>5. QED
      BY <1>1, <1>4, <1>6, <2>1, <2>2, <2>3, <2>4
  <1>7. QED
    BY <1>5, <1>6

LEMMA ProcessSentExact ==
    ASSUME TypeOK, TypeOK', TrackInv,
           NEW pos \in 0 .. MaxStream, NEW payload \in 1 .. MaxPayload,
           Near(pos), processSent(pos, payload)
    PROVE  TrackInv'
  <1>1. /\ Convert("RELSEQ_SEND_OUT", pos)
        /\ ref' = IF pos + payload > ref THEN pos + payload ELSE ref
    BY DEF processSent
  <1>2. ref \in Nat /\ pos \in Nat /\ payload \in Nat /\ payload <= MaxPayload
    BY ConstantFacts DEF TypeOK
  <1>3. ref <= RelLimit + MaxPayload /\ ~(pos > RelLimit) => ref' <= RelLimit + MaxPayload
    BY <1>1, <1>2, ConstantFacts
  <1>4. ASSUME largestSeq = ref, largestSeqAbsolute = RawSeq(ref),
               ~(pos > RelLimit), Offset(pos) = pos
        PROVE  largestSeq' = ref' /\ largestSeqAbsolute' = RawSeq(ref')
    <2>1. CASE pos + payload > ref
      <3>1. ~Refused(pos)
        <4>1. Word64 >= 5 * W /\ RelLimit <= 3 * W
          BY WAssumption, RelLimitAssumption DEF Word64
        <4>2. QED
          BY <4>1, <1>4, ConstantFacts DEF Refused, Aborted, Invalid
      <3>2. MoveTo(pos, payload)
        BY <3>1, <2>1, <1>4 DEF processSent
      <3>3. QED
        BY <3>2, <1>1, <1>2, <1>4, <2>1, MoveToExact
    <2>2. CASE ~(pos + payload > ref)
      BY <2>2, <1>1, <1>4 DEF processSent
    <2>3. QED
      BY <2>1, <2>2
  <1>5. QED
    BY <1>1, <1>3, <1>4, InputExact

\* For every number of raw sequence numbers, every first sequence number and
\* every window below half a turn: the offsets of segments sent, received and
\* of acknowledgements are exact and the reference points do not drift, until
\* one of the two defective kinds of input is met; and no other input but one
\* beyond the program's limit ends it.
THEOREM OffsetsAlwaysExact == Spec => []OffsetsExact
  <1>1. Init => TrackInv
    <2> SUFFICES ASSUME Init PROVE TrackInv
      OBVIOUS
    <2>1. firstSeq \in 0 .. W - 1
      BY DEF Init
    <2>2. (W * 0 + firstSeq) % W = firstSeq
      BY <2>1, DivModIs
    <2>3. W * 0 + firstSeq = firstSeq /\ firstSeq + 0 = firstSeq
      BY <2>1, ConstantFacts
    <2>4. RawSeq(0) = firstSeq
      BY <2>2, <2>3 DEF RawSeq
    <2>5. QED
      BY <2>4, ConstantFacts DEF Init, TrackInv, OffsetsExact
  <1>2. TypeOK /\ TypeOK' /\ TrackInv /\ [Next]_vars => TrackInv'
    <2> SUFFICES ASSUME TypeOK, TypeOK', TrackInv, [Next]_vars
                 PROVE  TrackInv'
      OBVIOUS
    <2>1. ASSUME NEW payload \in 1 .. MaxPayload, SendNew(payload)
          PROVE  TrackInv'
      <3>1. ref \in 0 .. MaxStream /\ Near(ref)
        BY ConstantFacts DEF TypeOK, Near
      <3>2. QED
        BY <2>1, <3>1, ProcessSentExact DEF SendNew
    <2>2. ASSUME NEW payload \in 1 .. MaxPayload, NEW pos \in 0 .. MaxStream,
                 Retransmit(pos, payload)
          PROVE  TrackInv'
      BY <2>2, ProcessSentExact DEF Retransmit
    <2>3. ASSUME NEW payload \in 1 .. MaxPayload, NEW pos \in 0 .. MaxStream,
                 registerRecvd(pos, payload)
          PROVE  TrackInv'
      <3>1. /\ Convert("RELSEQ_RECV_INN", pos) /\ Near(pos)
            /\ MoveTo(pos, payload) /\ ref' = pos + payload
        BY <2>3 DEF registerRecvd
      <3>2. pos \in Nat /\ payload \in Nat /\ payload <= MaxPayload
        BY ConstantFacts
      <3>3. ~(pos > RelLimit) => ref' <= RelLimit + MaxPayload
        BY <3>1, <3>2, ConstantFacts
      <3>4. ~(pos > RelLimit) /\ Offset(pos) = pos
              => largestSeq' = ref' /\ largestSeqAbsolute' = RawSeq(ref')
        BY <3>1, <3>2, MoveToExact
      <3>5. QED
        BY <3>1, <3>3, <3>4, InputExact
    <2>4. ASSUME NEW payload \in 1 .. MaxPayload, calculateSojournTime(payload)
          PROVE  TrackInv'
      <3>1. type' = "RELSEQ_SOJ_SEQ"
        BY <2>4 DEF calculateSojournTime, Convert
      <3>2. QED
        BY <3>1 DEF TrackInv, OffsetsExact
    <2>5. ASSUME NEW pos \in 0 .. MaxStream, NEW accepted \in BOOLEAN,
                 processAcks(pos, accepted)
          PROVE  TrackInv'
      <3>1. /\ Convert("RELSEQ_SEND_ACK", pos) /\ Near(pos)
            /\ ref' = IF accepted THEN pos ELSE ref
        BY <2>5 DEF processAcks
      <3>2. ref <= RelLimit + MaxPayload /\ ~(pos > RelLimit)
              => ref' <= RelLimit + MaxPayload
        <4>1. pos \in Nat /\ RelLimit \in Nat /\ MaxPayload \in Nat
          BY ConstantFacts
        <4>2. ~(pos > RelLimit) => pos <= RelLimit + MaxPayload
          BY <4>1
        <4>3. QED
          BY <3>1, <4>2
      <3>3. ASSUME largestSeq = ref, largestSeqAbsolute = RawSeq(ref),
                   ~(pos > RelLimit), Offset(pos) = pos
            PROVE  largestSeq' = ref' /\ largestSeqAbsolute' = RawSeq(ref')
        <4>1. CASE accepted
          <5>1. MoveTo(pos, 0)
            BY <2>5, <4>1 DEF processAcks
          <5>2. pos + 0 = pos
            OBVIOUS
          <5>3. QED
            BY <5>1, <5>2, <3>1, <3>3, <4>1, MoveToExact
        <4>2. CASE ~accepted
          BY <2>5, <3>1, <3>3, <4>2 DEF processAcks
        <4>3. QED
          BY <4>1, <4>2
      <3>4. QED
        BY <3>1, <3>2, <3>3, InputExact
    <2>6. CASE UNCHANGED vars
      BY <2>6 DEF vars, TrackInv, OffsetsExact, RawSeq
    <2>7. QED
      BY <2>1, <2>2, <2>3, <2>4, <2>5, <2>6 DEF Next
  <1>3. TrackInv => OffsetsExact
    BY DEF TrackInv
  <1>4. QED
    BY <1>1, <1>2, <1>3, TypeCorrect, PTL DEF Spec

-----------------------------------------------------------------------------
(* The inverse mapping. *)

\* A 64 bit offset is congruent to what it was before it was cut to 64 bits.
LEMMA InverseAt ==
    ASSUME NEW f \in 0 .. W - 1, NEW raw \in 0 .. W - 1, NEW q \in Int,
           NEW rel, rel = (raw + q * W - f) % Word64
    PROVE  absolute_seq(f, rel) = raw
  <1> DEFINE a == raw + q * W - f
             d == a \div Word64
             k == q - W * d
  <1>1. Word64 \in Nat /\ Word64 > 0 /\ Word64 = W * W
    BY WAssumption DEF Word64
  <1>2. q * W \in Int
    BY WAssumption
  <1>3. a \in Int
    BY <1>2, WAssumption
  <1>a. rel = a % Word64
    OBVIOUS
  <1> HIDE DEF a
  <1>4. a = Word64 * d + rel /\ d \in Int /\ rel \in Int
    BY <1>1, <1>3, <1>a
  <1> HIDE DEF d
  <1>5. W * d \in Int /\ k \in Int
    BY <1>4, WAssumption
  <1>6. Word64 * d = W * (W * d)
    BY <1>1, <1>4, WAssumption
  <1>7. W * k = q * W - W * (W * d)
    BY <1>5, WAssumption
  <1>8. f + rel = W * k + raw
    BY <1>2, <1>4, <1>5, <1>6, <1>7, WAssumption DEF a
  <1> HIDE DEF k
  <1>9. (f + rel) \div W = k
    BY <1>5, <1>8, DivModIs
  <1>10. W * k = k * W /\ W * k \in Int
    BY <1>5, WAssumption
  <1>11. QED
    BY <1>4, <1>8, <1>9, <1>10, WAssumption DEF absolute_seq

\* Along every trace the printed sequence numbers are those of the packets,
\* for every word size, also after an offset was computed a turn too high.
THEOREM AbsoluteSeqAlwaysInverse == Spec => []AbsoluteSeqInverse
  <1>1. Init => AbsoluteSeqInverse
    <2> SUFFICES ASSUME Init PROVE absolute_seq(firstSeq, 0) = RawSeq(0)
      BY DEF Init, AbsoluteSeqInverse
    <2>1. firstSeq \in 0 .. W - 1 /\ firstSeq + 0 = firstSeq /\ 0 + firstSeq = firstSeq
      BY ConstantFacts DEF Init
    <2>2. (W * 0 + firstSeq) % W = firstSeq /\ (W * 0 + firstSeq) \div W = 0
      BY <2>1, DivModIs
    <2>3. W * 0 + firstSeq = firstSeq /\ 0 * W = 0
      BY <2>1, ConstantFacts
    <2>4. QED
      BY <2>1, <2>2, <2>3, ConstantFacts DEF RawSeq, absolute_seq
  <1>2. TypeOK /\ AbsoluteSeqInverse /\ [Next]_vars => AbsoluteSeqInverse'
    <2> SUFFICES ASSUME TypeOK, AbsoluteSeqInverse, [Next]_vars
                 PROVE  AbsoluteSeqInverse'
      OBVIOUS
    <2>1. ASSUME NEW t, NEW pos \in 0 .. MaxStream, Convert(t, pos)
          PROVE  AbsoluteSeqInverse'
      <3> SUFFICES ASSUME Offset(pos) # Aborted, Offset(pos) # Invalid
                   PROVE  absolute_seq(firstSeq, Offset(pos)) = RawSeq(pos)
        BY <2>1 DEF AbsoluteSeqInverse, Convert, RawSeq
      <3> DEFINE raw == RawSeq(pos)
                 p == WrapPosition(raw, firstSeq, largestSeq, largestSeqAbsolute)
                 q == p \div W
      <3>1. raw \in 0 .. W - 1 /\ firstSeq \in 0 .. W - 1
        BY RawSeqType DEF TypeOK
      <3>2. q \in Int
        <4>1. (raw - largestSeqAbsolute) % W \in Int /\ (largestSeqAbsolute - raw) % W \in Int
          BY <3>1, ConstantFacts DEF TypeOK
        <4>2. p \in Int
          BY <3>1, <4>1, ConstantFacts, WAssumption DEF WrapPosition, TypeOK, Word64
        <4>3. QED
          BY <4>2, DivMod
      <3>3. Offset(pos) = (raw + q * W - firstSeq) % Word64
        BY DEF Offset, getRelativeSequenceNumber
      <3> HIDE DEF raw, q
      <3>4. absolute_seq(firstSeq, Offset(pos)) = raw
        BY <3>1, <3>2, <3>3, InverseAt
      <3>5. QED
        BY <3>4 DEF raw
    <2>2. ref \in 0 .. MaxStream
      BY DEF TypeOK
    <2>3. CASE UNCHANGED vars
      BY <2>3 DEF vars, AbsoluteSeqInverse, RawSeq
    <2>4. QED
      BY <2>1, <2>2, <2>3 DEF Next, SendNew, Retransmit, processSent, registerRecvd,
                              calculateSojournTime, processAcks
  <1>3. QED
    BY <1>1, <1>2, TypeCorrect, PTL DEF Spec
=============================================================================
