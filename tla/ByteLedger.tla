----------------------------- MODULE ByteLedger -----------------------------
(***************************************************************************)
(* What the map of byte ranges promises: for every byte of the stream, how *)
(* often it was sent and how often it was received.  A segment is          *)
(* registered from its first byte to its last, in one or more pieces, and  *)
(* every byte of it is counted exactly once.                               *)
(***************************************************************************)
EXTENDS Integers

CONSTANTS
    Bytes,      \* offsets in the stream
    Modulus     \* counters wrap at Modulus

VARIABLES
    sent,       \* byte -> number of transmissions
    recvd,      \* byte -> number of receptions
    todo        \* what is left of the segment being registered

ledgerVars == <<sent, recvd, todo>>

Nothing == [side |-> "none", from |-> 0, to |-> 0]

LedgerInit ==
    /\ sent = [b \in Bytes |-> 0]
    /\ recvd = [b \in Bytes |-> 0]
    /\ todo = Nothing

Begin(side, from, to) ==
    /\ todo = Nothing
    /\ from < to
    /\ todo' = [side |-> side, from |-> from, to |-> to]
    /\ UNCHANGED <<sent, recvd>>

Count(f, from, to) ==
    [b \in Bytes |-> IF from <= b /\ b < to THEN (f[b] + 1) % Modulus ELSE f[b]]

Credit(upTo) ==
    /\ todo.from < upTo
    /\ upTo <= todo.to
    /\ \/ /\ todo.side = "sent"
          /\ sent' = Count(sent, todo.from, upTo)
          /\ UNCHANGED recvd
       \/ /\ todo.side = "recvd"
          /\ recvd' = Count(recvd, todo.from, upTo)
          /\ UNCHANGED sent
    /\ todo' = IF upTo = todo.to THEN Nothing ELSE [todo EXCEPT !.from = upTo]

LedgerNext ==
    \/ \E side \in {"sent", "recvd"}, from \in Bytes, to \in Bytes \cup {b + 1 : b \in Bytes} :
         Begin(side, from, to)
    \/ \E upTo \in Bytes \cup {b + 1 : b \in Bytes} : Credit(upTo)

LedgerSpec == LedgerInit /\ [][LedgerNext]_ledgerVars

=============================================================================
