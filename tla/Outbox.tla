------------------------------- MODULE Outbox -------------------------------
(***************************************************************************)
(* What the transactions table promises to whoever owns the bank accounts: *)
(* it is an outbox.  A transaction is recorded once and its row is never   *)
(* rewritten; only recorded transactions are delivered to the ledger, each *)
(* any number of times; and a row is confirmed (synced_at set) only after  *)
(* the ledger has taken that very transaction.  Confirmation is final.     *)
(***************************************************************************)
EXTENDS Naturals

CONSTANTS Ids,         \* primary keys of the table
          Statements,  \* transactions, records with at least an id
          NoTrx        \* no row

VARIABLES stored,      \* the row of each id, or NoTrx
          synced,      \* ids whose row is confirmed
          ledger       \* how often the ledger has taken each transaction

vars == <<stored, synced, ledger>>

Init ==
  /\ stored = [i \in Ids |-> NoTrx]
  /\ synced = {}
  /\ ledger = [t \in Statements |-> 0]

Record(t) ==
  /\ stored[t.id] = NoTrx
  /\ stored' = [stored EXCEPT ![t.id] = t]
  /\ UNCHANGED <<synced, ledger>>

Deliver(t) ==
  /\ stored[t.id] = t
  /\ ledger' = [ledger EXCEPT ![t] = @ + 1]
  /\ UNCHANGED <<stored, synced>>

Confirm(i) ==
  /\ stored[i] # NoTrx
  /\ ledger[stored[i]] > 0
  /\ synced' = synced \cup {i}
  /\ UNCHANGED <<stored, ledger>>

Next ==
  \/ \E t \in Statements : Record(t) \/ Deliver(t)
  \/ \E i \in Ids : Confirm(i)

Spec == Init /\ [][Next]_vars
=============================================================================
