----------------------------- MODULE MCSojourn -----------------------------
(***************************************************************************)
(* Sojourn for TLC, with the properties of the receiver's trace: what is   *)
(* read after the sender's trace is either that or the writes.             *)
(***************************************************************************)
EXTENDS MCConnection, Sojourn
=============================================================================
