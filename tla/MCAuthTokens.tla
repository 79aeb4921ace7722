---------------------------- MODULE MCAuthTokens ----------------------------
(* Small instances of AuthTokens for TLC. *)
EXTENDS AuthTokens, TLC

ProcSymmetry == Permutations(Procs)
=============================================================================
