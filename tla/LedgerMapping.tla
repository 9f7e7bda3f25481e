--------------------------- MODULE LedgerMapping ---------------------------
(***************************************************************************)
(* The ledger that the map of byte ranges stands for: a byte has the       *)
(* counts of the range that holds it, and what is left to register is the  *)
(* rest of the segment that insertByteRange works on.                      *)
(***************************************************************************)
EXTENDS Connection

Held(x) == \E k \in Keys : Covers(k, x)
Holder(x) == CHOOSE k \in Keys : Covers(k, x)

SentCount(x) == IF Held(x) THEN ranges[Holder(x)].data_sent_count ELSE 0
RecvdCount(x) == IF Held(x) THEN ranges[Holder(x)].data_received_count ELSE 0

Unregistered ==
    IF op = "insert" /\ ~ZeroLength
    THEN [side |-> IF SENT THEN "sent" ELSE "recvd", from |-> frame.start, to |-> frame.end]
    ELSE [side |-> "none", from |-> 0, to |-> 0]

Ledger == INSTANCE ByteLedger WITH
    Bytes <- 0 .. MaxSeq,
    Modulus <- CounterMod,
    sent <- [x \in 0 .. MaxSeq |-> SentCount(x)],
    recvd <- [x \in 0 .. MaxSeq |-> RecvdCount(x)],
    todo <- Unregistered

\* Registering a segment counts each of its bytes exactly once, whatever the
\* map looks like: the recursion of insertByteRange leaves no byte out and
\* visits none twice, and no other step changes a count.
RefinesLedger == Ledger!LedgerSpec

=============================================================================
