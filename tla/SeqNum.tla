------------------------------- MODULE SeqNum -------------------------------
(***************************************************************************)
(* Sequence number arithmetic of analyseTCP: the comparisons of util.h,    *)
(* the conversion of a raw 32 bit sequence number to a 64 bit offset from  *)
(* the start of the stream (Connection.cc) and its inverse                 *)
(* (RangeManager::absolute_seq).                                           *)
(*                                                                         *)
(* W is the number of raw sequence numbers (2^32 in the program).  An      *)
(* unsigned 64 bit value is a number below W * W, so every 64 bit          *)
(* operation is taken modulo W * W.                                        *)
(***************************************************************************)
EXTENDS Integers

CONSTANTS
    W,           \* 4294967296 in the program
    RelLimit     \* 9999999999 in the program, between 2 * W and 3 * W

ASSUME WAssumption == W \in Nat /\ W > 4 /\ W % 2 = 0
ASSUME RelLimitAssumption == RelLimit \in 2 * W .. 3 * W

Half == W \div 2
Word64 == W * W

\* std::numeric_limits<ulong>::max(): the sequence number is refused.
Invalid == Word64 - 1

\* assert(0 && "Incorrect sequence number calculation!"): the program ends.
Aborted == -1

\* (signed int) (seq1 - seq2) < 0
before(seq1, seq2) == (seq1 - seq2) % W >= Half

\* (signed int) (seq2 - seq1) >= 0
after_or_equal(seq1, seq2) == (seq2 - seq1) % W < Half

\* Refused by the inner test of the "earlier sequence number" branch.
BeforeFirst(seq, firstSeq, largestSeqAbsolute) ==
    /\ seq < largestSeqAbsolute
    /\ before(seq, largestSeqAbsolute)
    /\ before(seq, firstSeq)

\* Mutant of WrapPosition: no branch for data older than a wrap.
WrapPositionNoWrapBack(seq, firstSeq, largestSeq, largestSeqAbsolute) ==
    LET start == firstSeq + largestSeq + 1
        move == IF /\ seq < largestSeqAbsolute
                   /\ ~before(seq, largestSeqAbsolute)
                THEN (seq - largestSeqAbsolute) % W
                ELSE seq - largestSeqAbsolute
    IN (start + move) % Word64

\* The value of wrap_index just before it is divided by W.
WrapPosition(seq, firstSeq, largestSeq, largestSeqAbsolute) ==
    LET start == firstSeq + largestSeq + 1
        move == IF seq < largestSeqAbsolute
                THEN IF before(seq, largestSeqAbsolute)
                     THEN -(largestSeqAbsolute - seq)
                     ELSE (seq - largestSeqAbsolute) % W
                ELSE IF after_or_equal(largestSeqAbsolute, seq)
                     THEN seq - largestSeqAbsolute
                     ELSE -((largestSeqAbsolute - seq) % W)
    IN (start + move) % Word64

getRelativeSequenceNumber(seq, firstSeq, largestSeq, largestSeqAbsolute) ==
    LET wrap_index ==
            WrapPosition(seq, firstSeq, largestSeq, largestSeqAbsolute) \div W
        seq_relative == (seq + wrap_index * W - firstSeq) % Word64
    IN IF BeforeFirst(seq, firstSeq, largestSeqAbsolute) THEN Invalid
       ELSE IF seq_relative > RelLimit THEN Aborted
       ELSE seq_relative

\* Mutant of absolute_seq: divides by W - 1.
absolute_seqShort(firstSeq, seq) ==
    (seq + firstSeq) - ((firstSeq + seq) \div (W - 1)) * W

\* Only called with offsets of the stream, so firstSeq + seq does not overflow.
absolute_seq(firstSeq, seq) ==
    (seq + firstSeq) - ((firstSeq + seq) \div W) * W

=============================================================================
