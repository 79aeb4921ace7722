--------------------------- MODULE MCConfigBinding ---------------------------
(* Small instances of ConfigBinding for TLC. *)
EXTENDS ConfigBinding

CONSTANTS local, remote, vault, log, google, key

\* A parameter of each type; `flag` has a source tag of its own.
MCTypeOf == [level |-> "string", limit |-> "int", flag |-> "bool"]
MCParams == DOMAIN MCTypeOf
MCHeld == [level |-> {"missing", "text", "number"},
           limit |-> {"number", "text"},
           flag  |-> {"digit", "number"}]

Field(g, k, s)  == [group |-> g, key |-> k, exported |-> TRUE, source |-> s]
Group(s)        == [isStructPtr |-> TRUE, exported |-> TRUE, source |-> s]
Tagged(s, g, f) == [isStructPtr |-> TRUE, groups |-> g,
                    fields |-> [level |-> Field(log, key, NoTag),
                                limit |-> Field(google, s, NoTag),
                                flag  |-> Field(google, key, f)]]
Groups2(s)      == [g \in {log, google} |-> IF g = log THEN Group(local) ELSE Group(s)]

\* Well tagged; tagged with a source nobody has registered; a field without a
\* key; a group without a source.
MCReceivers == {Tagged(key, Groups2(local), remote), Tagged(key, Groups2(vault), remote),
                Tagged(NoTag, Groups2(local), remote), Tagged(key, Groups2(NoTag), remote)}

\* Two strings, one of each registered source.
MCTwoTypeOf == [level |-> "string", flag |-> "string"]
MCTwoParams == DOMAIN MCTwoTypeOf
MCTwoHeld == [p \in MCTwoParams |-> {"missing", "text", "number"}]
MCTwoReceivers ==
  {[isStructPtr |-> TRUE, groups |-> [g \in {log} |-> Group(local)],
    fields |-> [level |-> Field(log, key, NoTag), flag |-> Field(log, key, remote)]]}
=============================================================================
