----------------------------- MODULE SeqTracker -----------------------------
(***************************************************************************)
(* How the raw sequence numbers of one connection become stream offsets.   *)
(* A connection has four reference points, each a largest offset so far    *)
(* and the raw number that belongs to it, one for each kind of input       *)
(* (relative_seq_type): the segments sent (Dump::processSent, moved by     *)
(* Connection::registerSent), the acknowledgements (Dump::processAcks),    *)
(* the segments received (Connection::registerRecvd) and the writes of the *)
(* application (Dump::calculateSojournTime).  They do not depend on each   *)
(* other, so type picks the one that is followed.                          *)
(*                                                                         *)
(* The input moves through a stream of bytes and may go back by Window     *)
(* bytes; ref and seen are the true position of the reference point and of *)
(* the last input, which the program does not know.                        *)
(***************************************************************************)
EXTENDS SeqNum

CONSTANTS
    Window,       \* how far one input may lie from the reference point
    MaxPayload,   \* bound: bytes in a segment
    MaxStream     \* bound: bytes in the stream

ASSUME WindowAssumption == Window \in 1 .. Half - 1
ASSUME MaxPayloadAssumption == MaxPayload \in 1 .. Half - 1
ASSUME MaxStreamAssumption == MaxStream \in Nat

VARIABLES
    type,                     \* relative_seq_type
    firstSeq,                 \* rm->firstSeq
    largestSeq,               \* lastLargestEndSeq, lastLargestAckSeq, ...
    largestSeqAbsolute,       \* lastLargestSeqAbsolute, lastLargestAckSeqAbsolute, ...
    running,                  \* FALSE after a failed assert
    ref,                      \* true position of the reference point
    seen,                     \* last input: its true start, the offset computed
    clean                     \* no input so far was one of OffByOne, UpperHalf

vars == <<type, firstSeq, largestSeq, largestSeqAbsolute, running, ref, seen, clean>>

Types == {"RELSEQ_SEND_OUT", "RELSEQ_SEND_ACK", "RELSEQ_RECV_INN", "RELSEQ_SOJ_SEQ"}

RawSeq(pos) == (firstSeq + pos) % W

\* The connection is created from the first segment captured: getConn passes
\* its raw sequence number to the constructor, which does not use it for the
\* reference point of the writes.
Init ==
    /\ type \in Types
    /\ firstSeq \in 0 .. W - 1
    /\ largestSeq = 0
    /\ largestSeqAbsolute = IF type = "RELSEQ_SOJ_SEQ" THEN 0 ELSE firstSeq
    /\ running = TRUE
    /\ ref = 0
    /\ seen = [start |-> 0, seq |-> 0]
    /\ clean = TRUE

\* The two kinds of input whose offset the code gets wrong: the extra 1 in
\* wrap_index reaches the next wrap, and a position in the upper half of a
\* turn compares as before(seq, firstSeq).
OffByOne(pos) == RawSeq(pos) = W - 1
UpperHalf(pos) == BeforeFirst(RawSeq(pos), firstSeq, largestSeqAbsolute)

\* Connection::getRelativeSequenceNumber for the input at pos.
Offset(pos) ==
    getRelativeSequenceNumber(RawSeq(pos), firstSeq, largestSeq, largestSeqAbsolute)

Convert(t, pos) ==
    /\ running
    /\ type = t
    /\ seen' = [start |-> pos, seq |-> Offset(pos)]
    /\ clean' = (clean /\ ~OffByOne(pos) /\ ~UpperHalf(pos))
    /\ running' = (Offset(pos) # Aborted)
    /\ UNCHANGED <<type, firstSeq>>

\* The assert failed, or the caller returns early.
Refused(pos) == Offset(pos) \in {Aborted, Invalid}

\* Mutant of MoveTo: the raw number does not wrap.
MoveToNoWrap(pos, n) ==
    IF Refused(pos) THEN UNCHANGED <<largestSeq, largestSeqAbsolute>>
    ELSE /\ largestSeq' = Offset(pos) + n
         /\ largestSeqAbsolute' = RawSeq(pos) + n

\* The reference point is moved n bytes behind the input.
MoveTo(pos, n) ==
    IF Refused(pos) THEN UNCHANGED <<largestSeq, largestSeqAbsolute>>
    ELSE /\ largestSeq' = Offset(pos) + n
         /\ largestSeqAbsolute' = (RawSeq(pos) + n) % W

Near(pos) == pos - ref <= Window /\ ref - pos <= Window

\* processSent and registerSent: a segment that carries bytes pos ..
\* pos + payload - 1 moves the reference point if it ends beyond it.
processSent(pos, payload) ==
    /\ Convert("RELSEQ_SEND_OUT", pos)
    /\ ref' = IF pos + payload > ref THEN pos + payload ELSE ref
    /\ IF ~Refused(pos) /\ Offset(pos) + payload > largestSeq
       THEN MoveTo(pos, payload)
       ELSE UNCHANGED <<largestSeq, largestSeqAbsolute>>

SendNew(payload) ==
    /\ ref + payload <= MaxStream
    /\ processSent(ref, payload)

Retransmit(pos, payload) ==
    /\ pos < ref
    /\ Near(pos)
    /\ pos + payload <= MaxStream
    /\ processSent(pos, payload)

\* processAcks: the reference point follows the acknowledgements that
\* processAck accepts, back too when an older one arrives late.
processAcks(pos, accepted) ==
    /\ Near(pos)
    /\ Convert("RELSEQ_SEND_ACK", pos)
    /\ ref' = IF accepted THEN pos ELSE ref
    /\ IF accepted THEN MoveTo(pos, 0) ELSE UNCHANGED <<largestSeq, largestSeqAbsolute>>

\* registerRecvd: the reference point is behind the last segment received,
\* which may be an old one.
registerRecvd(pos, payload) ==
    /\ Near(pos)
    /\ pos + payload <= MaxStream
    /\ Convert("RELSEQ_RECV_INN", pos)
    /\ ref' = pos + payload
    /\ MoveTo(pos, payload)

\* calculateSojournTime: the application writes in order; nothing moves the
\* reference point.
calculateSojournTime(payload) ==
    /\ ref + payload <= MaxStream
    /\ Convert("RELSEQ_SOJ_SEQ", ref)
    /\ ref' = ref + payload
    /\ UNCHANGED <<largestSeq, largestSeqAbsolute>>

Next ==
    \/ \E payload \in 1 .. MaxPayload :
         \/ SendNew(payload)
         \/ \E pos \in 0 .. MaxStream : Retransmit(pos, payload) \/ registerRecvd(pos, payload)
         \/ calculateSojournTime(payload)
    \/ \E pos \in 0 .. MaxStream, accepted \in BOOLEAN : processAcks(pos, accepted)

Spec == Init /\ [][Next]_vars

-----------------------------------------------------------------------------

\* The types of the state; the raw reference number stays a 32 bit one.
TypeOK ==
    /\ type \in Types
    /\ firstSeq \in 0 .. W - 1
    /\ largestSeq \in Nat
    /\ largestSeqAbsolute \in 0 .. W - 1
    /\ running \in BOOLEAN
    /\ ref \in 0 .. MaxStream
    /\ seen \in [start : 0 .. MaxStream, seq : Int]
    /\ clean \in BOOLEAN

\* Until the first input that starts at raw number W - 1 or is refused as
\* "before first", every segment sent or received and every acknowledgement is
\* given its true offset, across any number of wraps, for inputs on either side
\* of a wrap and whether the reference point moves forward or back; the
\* reference point is where the stream says; and the program only ends at an
\* input beyond its limit (getRelativeSequenceNumber, registerSent, processAcks,
\* registerRecvd).
OffsetsExact ==
    type # "RELSEQ_SOJ_SEQ" /\ clean =>
        IF running
        THEN /\ seen.seq = seen.start
             /\ largestSeq = ref
             /\ largestSeqAbsolute = RawSeq(ref)
        ELSE seen.start > RelLimit

\* The printed sequence numbers (absolute_seq) are those of the packets: the
\* inverse mapping undoes the offset, even where the offset is a turn too high.
AbsoluteSeqInverse ==
    running /\ seen.seq # Invalid =>
        absolute_seq(firstSeq, seen.seq) = RawSeq(seen.start)

\* "Returns the relative sequence number or std::numeric_limits<ulong>::max()
\* if it failed" (the comment of getRelativeSequenceNumber).
ReturnsOffsetOrInvalid == seen.seq \in {seen.start, Invalid}

\* assert(0 && "Incorrect sequence number calculation!") is not reached by the
\* first bytes that an application writes.
SojournConverts == type = "RELSEQ_SOJ_SEQ" /\ seen.start < Half => running

=============================================================================
