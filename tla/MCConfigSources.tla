--------------------------- MODULE MCConfigSources ---------------------------
(* A small instance of ConfigSources for TLC. *)
EXTENDS ConfigSources

CONSTANTS p1, p2, n1, n2, n3

\* The cluster's name of p1 is the service's name of p2.
MCServiceName == [p \in Params |-> IF p = p1 THEN n1 ELSE n2]
MCClusterName == [p \in Params |-> IF p = p1 THEN n2 ELSE n3]
=============================================================================
