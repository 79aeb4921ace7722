------------------------------ MODULE Pipeline ------------------------------
(***************************************************************************)
(* The two programs that move bank transactions to the ledger, and the     *)
(* table between them: fetch-transactions asks a bank for the statements   *)
(* of one account and stores those whose id is new; `ledger sync` reads    *)
(* the rows of one account that are not synced, reports each to the ledger *)
(* and marks it.  Every process is a command run to its end by cron or by  *)
(* hand; several may run at once, and each can fail or be killed between   *)
(* any two of its steps.  A statement is a transaction as ToDTO leaves it: *)
(* its id (the table's primary key), its account, and a body that stands   *)
(* for amount, date, comment and type.                                     *)
(***************************************************************************)
EXTENDS Naturals, FiniteSets

CONSTANTS Fetchers,    \* processes running fetch-transactions
          Syncers,     \* processes running ledger sync
          Ids,         \* values of transactions.id
          Accounts,    \* ledger account ids
          Statements,  \* what banks answer: records with id, acc and body
          Malformed,   \* statements ToDTO cannot convert
          Refused,     \* statements the ledger answers with an error status
          NoTrx,       \* no row, no transaction at hand
          MaxFaults    \* bound: failures of a process, database or network

ASSUME ProcessesAssumption == IsFiniteSet(Fetchers) /\ IsFiniteSet(Syncers)
ASSUME StatementsAssumption ==
  \A t \in Statements : t.id \in Ids /\ t.acc \in Accounts
ASSUME NoTrxAssumption == NoTrx \notin Statements
ASSUME KindsAssumption == Malformed \subseteq Statements /\ Refused \subseteq Statements
ASSUME MaxFaultsAssumption == MaxFaults \in Nat

VARIABLES stored,  \* table transactions: the row of each id, or NoTrx
          synced,  \* ids whose row has a synced_at
          ledger,  \* how often the ledger took each statement (its own state)
          late,    \* reports under way to the ledger whose sender has given up
          bank,    \* statements the bank answers for the fetched window
          faults,  \* failures so far
          fpc,     \* where each fetch-transactions is in its code
          trxs,    \* its slice `transactions`
          todo,    \* what is left of that slice
          fcur,    \* the trxDto found missing and about to be saved
          spc,     \* where each sync is in its code
          stodo,   \* what is left of its slice `notSyncedTrxs`
          scur     \* the trx it has reported and is about to mark

external == <<ledger, late, bank>>
table    == <<stored, synced>>
fetchers == <<fpc, trxs, todo, fcur>>
syncers  == <<spc, stodo, scur>>
vars     == <<table, external, faults, fetchers, syncers>>

Init ==
  /\ stored = [i \in Ids |-> NoTrx]
  /\ synced = {}
  /\ ledger = [t \in Statements |-> 0]
  /\ late = [t \in Statements |-> 0]
  /\ bank = {}
  /\ faults = 0
  /\ fpc  = [f \in Fetchers |-> "stopped"]
  /\ trxs = [f \in Fetchers |-> {}]
  /\ todo = [f \in Fetchers |-> {}]
  /\ fcur = [f \in Fetchers |-> NoTrx]
  /\ spc   = [s \in Syncers |-> "stopped"]
  /\ stodo = [s \in Syncers |-> {}]
  /\ scur  = [s \in Syncers |-> NoTrx]

-----------------------------------------------------------------------------
(* The queries of dal.Storage, each one SQL statement.                     *)

\* Mutant: the query also asks for synced_at IS NULL.
ExistsPending(i) == stored[i] # NoTrx /\ i \notin synced

PendingTransactionExist(i) == stored[i] # NoTrx

\* Mutant: no condition on synced_at.
AllTransactions(a) ==
  {stored[i] : i \in {j \in Ids : stored[j] # NoTrx /\ stored[j].acc = a}}

NotSyncedTransactions(a) ==
  {stored[i] : i \in {j \in Ids \ synced : stored[j] # NoTrx /\ stored[j].acc = a}}

\* Mutant: the update on conflict leaves synced_at out.
SaveKeepsSyncedAt(t, syncedAt) ==
  /\ stored' = [stored EXCEPT ![t.id] = t]
  /\ synced' = IF syncedAt THEN synced \cup {t.id} ELSE synced

\* The upsert writes every column of the row, synced_at included.
SavePendingTransaction(t, syncedAt) ==
  /\ stored' = [stored EXCEPT ![t.id] = t]
  /\ synced' = IF syncedAt THEN synced \cup {t.id} ELSE synced \ {t.id}

\* Something outside the program fails, as often as the bound allows.
Fault == faults < MaxFaults /\ faults' = faults + 1

-----------------------------------------------------------------------------
(* The bank.  A statement appears, or replaces an earlier version of       *)
(* itself (a hold that settles), or leaves the window that is fetched.     *)

BankPosts(t) ==
  /\ t \notin bank
  /\ bank' = {u \in bank : u.id # t.id \/ u.acc # t.acc} \cup {t}
  /\ UNCHANGED <<table, ledger, late, faults, fetchers, syncers>>

BankForgets(t) ==
  /\ t \in bank
  /\ bank' = bank \ {t}
  /\ UNCHANGED <<table, ledger, late, faults, fetchers, syncers>>

-----------------------------------------------------------------------------
(* cmd/fetch-transactions                                                  *)

FetchStops(f) ==
  /\ fpc'  = [fpc EXCEPT ![f] = "stopped"]
  /\ trxs' = [trxs EXCEPT ![f] = {}]
  /\ todo' = [todo EXCEPT ![f] = {}]
  /\ fcur' = [fcur EXCEPT ![f] = NoTrx]

Fetch(f, a) ==
  /\ fpc[f] \in {"stopped", "done"}
  /\ fpc'  = [fpc EXCEPT ![f] = "check"]
  /\ trxs' = [trxs EXCEPT ![f] = {t \in bank : t.acc = a}]
  /\ todo' = [todo EXCEPT ![f] = {t \in bank : t.acc = a}]
  /\ UNCHANGED <<table, external, faults, fcur, syncers>>

\* Mutant: the loop ends at the first row that exists.
CheckExistsBreaks(f) ==
  \E t \in todo[f] \ Malformed :
    /\ fpc[f] = "check"
    /\ IF PendingTransactionExist(t.id)
         THEN /\ todo' = [todo EXCEPT ![f] = {}]
              /\ UNCHANGED <<fpc, fcur>>
         ELSE /\ todo' = [todo EXCEPT ![f] = @ \ {t}]
              /\ fpc'  = [fpc EXCEPT ![f] = "save"]
              /\ fcur' = [fcur EXCEPT ![f] = t]
    /\ UNCHANGED <<table, external, faults, trxs, syncers>>

\* Mutant: a statement stays in the slice until its row is seen.
CheckExistsStays(f) ==
  \E t \in todo[f] \ Malformed :
    /\ fpc[f] = "check"
    /\ IF PendingTransactionExist(t.id)
         THEN /\ todo' = [todo EXCEPT ![f] = @ \ {t}]
              /\ UNCHANGED <<fpc, fcur>>
         ELSE /\ fpc'  = [fpc EXCEPT ![f] = "save"]
              /\ fcur' = [fcur EXCEPT ![f] = t]
              /\ UNCHANGED todo
    /\ UNCHANGED <<table, external, faults, trxs, syncers>>

\* ToDTO and the existence check of the next element.
CheckExists(f) ==
  \E t \in todo[f] \ Malformed :
    /\ fpc[f] = "check"
    /\ todo' = [todo EXCEPT ![f] = @ \ {t}]
    /\ IF PendingTransactionExist(t.id)
         THEN UNCHANGED <<fpc, fcur>>
         ELSE /\ fpc'  = [fpc EXCEPT ![f] = "save"]
              /\ fcur' = [fcur EXCEPT ![f] = t]
    /\ UNCHANGED <<table, external, faults, trxs, syncers>>

SaveFetched(f) ==
  /\ fpc[f] = "save"
  /\ SavePendingTransaction(fcur[f], FALSE)
  /\ fpc'  = [fpc EXCEPT ![f] = "check"]
  /\ fcur' = [fcur EXCEPT ![f] = NoTrx]
  /\ UNCHANGED <<external, faults, trxs, todo, syncers>>

\* ToDTO fails: the rest of the slice is dropped, exit status 1.
FetchMalformed(f) ==
  /\ fpc[f] = "check"
  /\ todo[f] \cap Malformed # {}
  /\ FetchStops(f)
  /\ UNCHANGED <<table, external, faults, syncers>>

FetchDone(f) ==
  /\ fpc[f] = "check"
  /\ todo[f] = {}
  /\ fpc' = [fpc EXCEPT ![f] = "done"]
  /\ UNCHANGED <<table, external, faults, trxs, todo, fcur, syncers>>

\* A query fails or the process is killed; or the command fails before it has
\* any statements, for its configuration or the bank.
FetchFails(f) ==
  /\ Fault
  /\ FetchStops(f)
  /\ UNCHANGED <<table, external, syncers>>

-----------------------------------------------------------------------------
(* cmd/ledger, command sync                                                *)

SyncStops(s) ==
  /\ spc'   = [spc EXCEPT ![s] = "stopped"]
  /\ stodo' = [stodo EXCEPT ![s] = {}]
  /\ scur'  = [scur EXCEPT ![s] = NoTrx]

SyncReads(s, rows) ==
  /\ spc[s] \in {"stopped", "done"}
  /\ spc'   = [spc EXCEPT ![s] = IF rows = {} THEN "done" ELSE "session"]
  /\ stodo' = [stodo EXCEPT ![s] = rows]
  /\ UNCHANGED <<table, external, fetchers, scur>>

FindNotSynced(s, a) ==
  SyncReads(s, NotSyncedTransactions(a)) /\ UNCHANGED faults

\* rows.Next() ends the loop on a read error too, and rows.Err() is not asked:
\* the rows that were not read are missing from the result.
FindTruncated(s, a) ==
  /\ Fault
  /\ \E rows \in SUBSET NotSyncedTransactions(a) :
       rows # NotSyncedTransactions(a) /\ SyncReads(s, rows)

\* FetchAuthToken and NewAPI, which leave this table and the ledger alone.
StartSession(s) ==
  /\ spc[s] = "session"
  /\ spc' = [spc EXCEPT ![s] = "report"]
  /\ UNCHANGED <<table, external, faults, fetchers, stodo, scur>>

LedgerTakes(t) == ledger' = [ledger EXCEPT ![t] = @ + 1]

Report(s) ==
  \E t \in stodo[s] \ Refused :
    /\ spc[s] = "report"
    /\ LedgerTakes(t)
    /\ spc'  = [spc EXCEPT ![s] = "mark"]
    /\ scur' = [scur EXCEPT ![s] = t]
    /\ UNCHANGED <<table, late, bank, faults, fetchers, stodo>>

\* No 2xx comes back, because the connection breaks or the process is killed;
\* the report may reach the ledger all the same, at any later time.
ReportUnanswered(s) ==
  \E t \in stodo[s] \ Refused :
    /\ spc[s] = "report"
    /\ Fault
    /\ late' = [late EXCEPT ![t] = @ + 1]
    /\ SyncStops(s)
    /\ UNCHANGED <<table, ledger, bank, fetchers>>

LedgerTakesLate(t) ==
  /\ late[t] > 0
  /\ LedgerTakes(t)
  /\ late' = [late EXCEPT ![t] = @ - 1]
  /\ UNCHANGED <<table, bank, faults, fetchers, syncers>>

\* An error status: the rows behind this one are not reported, exit status 1.
ReportRefused(s) ==
  \E t \in stodo[s] \cap Refused :
    /\ spc[s] = "report"
    /\ SyncStops(s)
    /\ UNCHANGED <<table, external, faults, fetchers>>

\* Mutant: SyncedAt is not set.
MarkUnsynced(s) ==
  /\ spc[s] = "mark"
  /\ SavePendingTransaction(scur[s], FALSE)
  /\ spc'   = [spc EXCEPT ![s] = "report"]
  /\ stodo' = [stodo EXCEPT ![s] = @ \ {scur[s]}]
  /\ scur'  = [scur EXCEPT ![s] = NoTrx]
  /\ UNCHANGED <<external, faults, fetchers>>

\* Mutant: the transaction of the last turn is kept.
MarkKeepsTrx(s) ==
  /\ spc[s] = "mark"
  /\ SavePendingTransaction(scur[s], TRUE)
  /\ spc'   = [spc EXCEPT ![s] = "report"]
  /\ stodo' = [stodo EXCEPT ![s] = @ \ {scur[s]}]
  /\ UNCHANGED <<external, faults, fetchers, scur>>

\* The row read at the start is written back whole, with a synced_at.
MarkSynced(s) ==
  /\ spc[s] = "mark"
  /\ SavePendingTransaction(scur[s], TRUE)
  /\ spc'   = [spc EXCEPT ![s] = "report"]
  /\ stodo' = [stodo EXCEPT ![s] = @ \ {scur[s]}]
  /\ scur'  = [scur EXCEPT ![s] = NoTrx]
  /\ UNCHANGED <<external, faults, fetchers>>

SyncDone(s) ==
  /\ spc[s] = "report"
  /\ stodo[s] = {}
  /\ spc' = [spc EXCEPT ![s] = "done"]
  /\ UNCHANGED <<table, external, faults, fetchers, stodo, scur>>

\* A request or query fails without effect, the first one too, or the process
\* is killed.
SyncFails(s) ==
  /\ Fault
  /\ SyncStops(s)
  /\ UNCHANGED <<table, external, fetchers>>

-----------------------------------------------------------------------------
Outside == \E t \in Statements : BankPosts(t) \/ BankForgets(t) \/ LedgerTakesLate(t)

FetcherSteps(f) ==
  CheckExists(f) \/ SaveFetched(f) \/ FetchMalformed(f) \/ FetchDone(f)

FetcherNext(f) ==
  (\E a \in Accounts : Fetch(f, a)) \/ FetcherSteps(f) \/ FetchFails(f)

SyncerSteps(s) ==
  StartSession(s) \/ Report(s) \/ ReportRefused(s) \/ MarkSynced(s) \/ SyncDone(s)

SyncerNext(s) ==
  \/ \E a \in Accounts : FindNotSynced(s, a) \/ FindTruncated(s, a)
  \/ SyncerSteps(s)
  \/ ReportUnanswered(s)
  \/ SyncFails(s)

Next ==
  \/ Outside
  \/ \E f \in Fetchers : FetcherNext(f)
  \/ \E s \in Syncers : SyncerNext(s)

Spec == Init /\ [][Next]_vars

-----------------------------------------------------------------------------
(* Type invariant: besides the types, a transaction is at hand exactly     *)
(* between the check and the save, or the report and the mark, of a        *)
(* process (the loops of both commands).                                   *)
TypeOK ==
  /\ stored \in [Ids -> Statements \cup {NoTrx}]
  /\ synced \subseteq Ids
  /\ ledger \in [Statements -> Nat]
  /\ late \in [Statements -> Nat]
  /\ bank \subseteq Statements
  /\ faults \in 0..MaxFaults
  /\ fpc  \in [Fetchers -> {"stopped", "check", "save", "done"}]
  /\ trxs \in [Fetchers -> SUBSET Statements]
  /\ todo \in [Fetchers -> SUBSET Statements]
  /\ fcur \in [Fetchers -> Statements \cup {NoTrx}]
  /\ \A f \in Fetchers : fpc[f] = "save" <=> fcur[f] # NoTrx
  /\ spc   \in [Syncers -> {"stopped", "session", "report", "mark", "done"}]
  /\ stodo \in [Syncers -> SUBSET Statements]
  /\ scur  \in [Syncers -> Statements \cup {NoTrx}]
  /\ \A s \in Syncers : spc[s] = "mark" <=> scur[s] # NoTrx

(* A row with a synced_at holds, in every column, a transaction the ledger *)
(* has taken: whatever other fetches and syncs wrote between the report    *)
(* and the mark, no row is taken out of the queue unreported, and none is  *)
(* marked that the ledger refused (the order of cmd/ledger 110-125).       *)
SyncedWasAccepted ==
  \A i \in synced : stored[i] # NoTrx /\ ledger[stored[i]] > 0

(* When a fetch ends with success, every statement the bank answered has a *)
(* row of its account (cmd/fetch-transactions 84-102): a statement is only *)
(* skipped for a row that is its own.  Needs ids that differ from account  *)
(* to account, which the banks' id schemes must provide.                   *)
IdsPerAccount == \A t, u \in Statements : t.id = u.id => t.acc = u.acc

FetchCompletes ==
  \A f \in Fetchers : fpc[f] = "done" =>
    \A t \in trxs[f] : stored[t.id] # NoTrx /\ stored[t.id].acc = t.acc

(* With one fetch at a time, the table is an outbox: rows are written once *)
(* and confirmed once, and exactly the row that was stored is reported,    *)
(* although both commands write rows whole from copies they hold           *)
(* (sql_storage.go 90-111).                                                *)
OneFetcher == \A f, g \in Fetchers : f = g

Table == INSTANCE Outbox WITH
  Ids        <- Ids,
  Statements <- Statements,
  NoTrx      <- NoTrx,
  stored     <- stored,
  synced     <- synced,
  ledger     <- ledger

ImplementsOutbox == Table!Spec

(* With one sync at a time too, a synced transaction is never reported     *)
(* again, by this or any later run of sync; what may still reach the       *)
(* ledger are earlier reports whose sender has failed.                     *)
OneSyncer == \A s, r \in Syncers : s = r

Reports(t) == ledger[t] + late[t]

SyncedNeverReportedAgain ==
  [][\A t \in Statements : t.id \in synced => Reports(t)' = Reports(t)]_vars

(* How often the ledger can be sent a transaction: once by each sync for   *)
(* each fetch that found its row missing, for the save writes the row as   *)
(* not synced, whoever has marked it meanwhile (cmd/fetch-transactions     *)
(* 88-100); and once more for each failure between the report and the mark *)
(* (cmd/ledger 110-123).  One fetch and one sync without failures report   *)
(* it once.                                                                *)
DuplicatesNeedFaults ==
  \A t \in Statements :
    Reports(t) <= faults + Cardinality(Fetchers) * Cardinality(Syncers)

(* A command ends by itself, whatever the others do to the table           *)
(* meanwhile: there is a number of steps it has left, which depends on its *)
(* slice alone, every step of its loop takes from that number, and nothing *)
(* but its start adds to it.  Rows that appear, disappear from the window, *)
(* are overwritten or marked by others keep no loop going, and no step is  *)
(* retried (cmd/fetch-transactions 84-102, cmd/ledger 109-126).            *)
FetchStepsLeft(f) ==
  IF fpc[f] = "check" THEN 2 * Cardinality(todo[f]) + 1
  ELSE IF fpc[f] = "save" THEN 2 * Cardinality(todo[f]) + 2
  ELSE 0

SyncStepsLeft(s) ==
  IF spc[s] = "session" THEN 2 * Cardinality(stodo[s]) + 2
  ELSE IF spc[s] = "report" THEN 2 * Cardinality(stodo[s]) + 1
  ELSE IF spc[s] = "mark" THEN 2 * Cardinality(stodo[s])
  ELSE 0

FetchStepsGoDown(f) ==
  /\ FetcherSteps(f) => FetchStepsLeft(f)' < FetchStepsLeft(f)
  /\ FetchStepsLeft(f)' > FetchStepsLeft(f) => \E a \in Accounts : Fetch(f, a)

SyncStepsGoDown(s) ==
  /\ SyncerSteps(s) => SyncStepsLeft(s)' < SyncStepsLeft(s)
  /\ SyncStepsLeft(s)' > SyncStepsLeft(s) =>
       \E a \in Accounts : FindNotSynced(s, a) \/ FindTruncated(s, a)

RunsEnd ==
  [][/\ \A f \in Fetchers : FetchStepsGoDown(f)
     /\ \A s \in Syncers : SyncStepsGoDown(s)]_vars
=============================================================================
