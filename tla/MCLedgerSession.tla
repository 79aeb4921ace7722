-------------------------- MODULE MCLedgerSession --------------------------
(* A small instance of LedgerSession for TLC. *)
EXTENDS LedgerSession
=============================================================================
