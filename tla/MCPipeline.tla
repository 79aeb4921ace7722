----------------------------- MODULE MCPipeline -----------------------------
(* Small instances of Pipeline for TLC. *)
EXTENDS Pipeline, TLC

CONSTANTS a1, a2, i1, i2, i3, b1, b2

Statement(i, a, b) == [id |-> i, acc |-> a, body |-> b]

\* Two versions of a statement (a hold and its settlement) next to another one
\* on an account, and one on a second account.
MCStatements == {Statement(i1, a1, b1), Statement(i1, a1, b2),
                 Statement(i2, a1, b1), Statement(i3, a2, b1)}
MCRefused   == {Statement(i1, a1, b2)}
MCMalformed == {Statement(i3, a2, b1)}

\* The two versions alone, which two fetches can hold at once.
MCVersions == {Statement(i1, a1, b1), Statement(i1, a1, b2)}

MCNone == {}

ProcessSymmetry == Permutations(Fetchers) \cup Permutations(Syncers)
=============================================================================
