----------------------------- MODULE MCBankFetch -----------------------------
(* A small instance of BankFetch for TLC. *)
EXTENDS BankFetch, TLC

CardSymmetry == Permutations(PB)

\* The bank's clocks are put back at 12, the fetcher's at 36.
MCBankZone == [t \in Hours |-> IF t < 12 THEN 3 ELSE 2]
MCFetcherZone == [t \in Hours |-> IF t < 36 THEN -10 ELSE -11]

ASSUME WindowAssumption == WindowIsWide
=============================================================================
