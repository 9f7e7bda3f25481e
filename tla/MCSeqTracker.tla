---------------------------- MODULE MCSeqTracker ----------------------------
(***************************************************************************)
(* SeqTracker with 16 sequence numbers instead of 2^32, for every first    *)
(* sequence number and a stream of two and a half turns.                   *)
(***************************************************************************)
EXTENDS SeqTracker
=============================================================================
