---------------------------- MODULE MCConnection ----------------------------
(***************************************************************************)
(* Connection for TLC, with its statistics and its refinement of           *)
(* ByteLedger.                                                             *)
(***************************************************************************)
EXTENDS PacketStats, LedgerMapping

=============================================================================
