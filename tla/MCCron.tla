------------------------------- MODULE MCCron -------------------------------
(* A small instance of Cron for TLC. *)
EXTENDS Cron

CONSTANTS a1, a2, i1, i2, b1, b2, b3

Statement(i, a, b) == [id |-> i, acc |-> a, body |-> b]

\* A good statement of the first account, and one of the second, which the bank may
\* also show so that the ledger refuses it, or so that it cannot be converted.
MCRefused    == {Statement(i2, a2, b1)}
MCMalformed  == {Statement(i2, a2, b2)}
MCGood       == {Statement(i1, a1, b1), Statement(i2, a2, b3)}
MCStatements == MCGood \cup MCRefused \cup MCMalformed
MCOrder      == <<a1, a2>>
=============================================================================
