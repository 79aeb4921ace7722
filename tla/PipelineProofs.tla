--------------------------- MODULE PipelineProofs ---------------------------
(***************************************************************************)
(* What Pipeline keeps for every number of processes, statements, accounts *)
(* and failures.                                                           *)
(***************************************************************************)
EXTENDS Pipeline, FiniteSetTheorems, TLAPS

USE StatementsAssumption, NoTrxAssumption, KindsAssumption, MaxFaultsAssumption

-----------------------------------------------------------------------------
(* Types                                                                   *)

LEMMA TypeInit == Init => TypeOK
  BY DEF Init, TypeOK

\* A step of a fetch-transactions process keeps the types.
LEMMA FetcherTypes ==
  ASSUME TypeOK, NEW f \in Fetchers, FetcherNext(f)
  PROVE  TypeOK'
  <1> USE DEF TypeOK, table, external, syncers
  <1>1. ASSUME NEW a \in Accounts, Fetch(f, a) PROVE TypeOK'
    BY <1>1 DEF Fetch
  <1>2. CASE CheckExists(f)
    BY <1>2 DEF CheckExists
  <1>3. CASE SaveFetched(f)
    BY <1>3 DEF SaveFetched, SavePendingTransaction
  <1>4. CASE FetchMalformed(f)
    BY <1>4 DEF FetchMalformed, FetchStops
  <1>5. CASE FetchDone(f)
    BY <1>5 DEF FetchDone
  <1>6. CASE FetchFails(f)
    BY <1>6 DEF FetchFails, FetchStops, Fault
  <1>7. QED
    BY <1>1, <1>2, <1>3, <1>4, <1>5, <1>6 DEF FetcherNext, FetcherSteps

\* A step of a sync process keeps the types.
LEMMA SyncerTypes ==
  ASSUME TypeOK, NEW s \in Syncers, SyncerNext(s)
  PROVE  TypeOK'
  <1> USE DEF TypeOK, table, external, fetchers
  <1>1. ASSUME NEW a \in Accounts, FindNotSynced(s, a) PROVE TypeOK'
    <2>1. NotSyncedTransactions(a) \subseteq Statements
      BY DEF NotSyncedTransactions
    <2>2. QED
      BY <1>1, <2>1 DEF FindNotSynced, SyncReads
  <1>2. ASSUME NEW a \in Accounts, FindTruncated(s, a) PROVE TypeOK'
    <2>1. NotSyncedTransactions(a) \subseteq Statements
      BY DEF NotSyncedTransactions
    <2>2. PICK rows \in SUBSET Statements : SyncReads(s, rows)
      BY <1>2, <2>1 DEF FindTruncated
    <2>3. QED
      BY <1>2, <2>2 DEF SyncReads, FindTruncated, Fault
  <1>3. CASE StartSession(s)
    BY <1>3 DEF StartSession
  <1>4. CASE Report(s)
    BY <1>4 DEF Report, LedgerTakes
  <1>5. CASE ReportRefused(s)
    BY <1>5 DEF ReportRefused, SyncStops
  <1>6. CASE MarkSynced(s)
    BY <1>6 DEF MarkSynced, SavePendingTransaction
  <1>7. CASE SyncDone(s)
    BY <1>7 DEF SyncDone
  <1>8. CASE ReportUnanswered(s)
    BY <1>8 DEF ReportUnanswered, SyncStops, Fault
  <1>9. CASE SyncFails(s)
    BY <1>9 DEF SyncFails, SyncStops, Fault
  <1>10. QED
    BY <1>1, <1>2, <1>3, <1>4, <1>5, <1>6, <1>7, <1>8, <1>9
       DEF SyncerNext, SyncerSteps

LEMMA TypeNext == TypeOK /\ [Next]_vars => TypeOK'
  <1> SUFFICES ASSUME TypeOK, [Next]_vars PROVE TypeOK'
    OBVIOUS
  <1>1. CASE Outside
    <2>1. ASSUME NEW t \in Statements, BankPosts(t) \/ BankForgets(t) PROVE TypeOK'
      BY <2>1 DEF BankPosts, BankForgets, TypeOK, table, fetchers, syncers
    <2>2. ASSUME NEW t \in Statements, LedgerTakesLate(t) PROVE TypeOK'
      BY <2>2 DEF LedgerTakesLate, LedgerTakes, TypeOK, table, fetchers, syncers
    <2>3. QED
      BY <1>1, <2>1, <2>2 DEF Outside
  <1>2. CASE UNCHANGED vars
    BY <1>2 DEF TypeOK, vars, table, external, fetchers, syncers
  <1>3. QED
    BY <1>1, <1>2, FetcherTypes, SyncerTypes DEF Next

(* The variables keep their types, and a transaction is at hand exactly    *)
(* where the loops of the two commands have one.                           *)
THEOREM TypeCorrect == Spec => []TypeOK
  <1>1. QED
    BY TypeInit, TypeNext, PTL DEF Spec

-----------------------------------------------------------------------------
(* Synced rows were accepted, for any number of fetches and syncs.  The    *)
(* mark writes back the copy the process reported, so what has to hold     *)
(* between the two steps is a fact about that copy alone.                  *)

AtHandAccepted == \A s \in Syncers : spc[s] = "mark" => ledger[scur[s]] > 0

AcceptedInv == TypeOK /\ AtHandAccepted /\ SyncedWasAccepted

\* No step makes the ledger forget what it took.
LEMMA LedgerGrows ==
  ASSUME TypeOK, [Next]_vars, NEW t \in Statements
  PROVE  ledger'[t] >= ledger[t]
  <1>1. CASE UNCHANGED ledger
    BY <1>1 DEF TypeOK
  <1>2. CASE \E u \in Statements : LedgerTakes(u)
    BY <1>2 DEF LedgerTakes, TypeOK
  <1>3. UNCHANGED ledger \/ \E u \in Statements : LedgerTakes(u)
    <2>1. ASSUME NEW s \in Syncers, SyncerNext(s)
          PROVE  UNCHANGED ledger \/ \E u \in Statements : LedgerTakes(u)
      BY <2>1 DEF SyncerNext, SyncerSteps, FindNotSynced, FindTruncated,
                  SyncReads, StartSession, Report, ReportRefused, MarkSynced,
                  SyncDone, ReportUnanswered, SyncFails, external, TypeOK
    <2>2. ASSUME NEW f \in Fetchers, FetcherNext(f) PROVE UNCHANGED ledger
      BY <2>2 DEF FetcherNext, FetcherSteps, Fetch, CheckExists, SaveFetched,
                  FetchMalformed, FetchDone, FetchFails, external
    <2>3. CASE Outside
      BY <2>3 DEF Outside, BankPosts, BankForgets, LedgerTakesLate
    <2>4. CASE UNCHANGED vars
      BY <2>4 DEF vars, external
    <2>5. QED
      BY <2>1, <2>2, <2>3, <2>4 DEF Next
  <1>4. QED
    BY <1>1, <1>2, <1>3

\* Where the table and the syncs are left alone, the invariant stays.
LEMMA AcceptedElsewhere ==
  ASSUME AcceptedInv, [Next]_vars, UNCHANGED <<table, syncers>>
  PROVE  AcceptedInv'
  BY TypeNext, LedgerGrows
     DEF AcceptedInv, AtHandAccepted, SyncedWasAccepted, TypeOK, table, syncers

LEMMA AcceptedNext == AcceptedInv /\ [Next]_vars => AcceptedInv'
  <1> SUFFICES ASSUME AcceptedInv, [Next]_vars PROVE AcceptedInv'
    OBVIOUS
  <1>t. TypeOK'
    BY TypeNext DEF AcceptedInv
  <1>l. \A t \in Statements : ledger'[t] >= ledger[t]
    BY LedgerGrows DEF AcceptedInv
  <1>1. CASE Outside
    BY <1>1, AcceptedElsewhere DEF Outside, BankPosts, BankForgets, LedgerTakesLate
  <1>2. ASSUME NEW f \in Fetchers, FetcherNext(f) PROVE AcceptedInv'
    <2>1. CASE SaveFetched(f)
      BY <2>1, <1>t DEF SaveFetched, SavePendingTransaction, external, syncers,
                        AcceptedInv, AtHandAccepted, SyncedWasAccepted, TypeOK
    <2>2. CASE ~SaveFetched(f)
      BY <1>2, <2>2, AcceptedElsewhere
         DEF FetcherNext, FetcherSteps, Fetch, CheckExists, FetchMalformed,
             FetchDone, FetchFails
    <2>3. QED
      BY <2>1, <2>2
  <1>3. ASSUME NEW s \in Syncers, SyncerNext(s) PROVE AcceptedInv'
    <2>1. CASE Report(s)
      <3>1. PICK t \in stodo[s] : /\ LedgerTakes(t)
                                  /\ scur' = [scur EXCEPT ![s] = t]
                                  /\ spc' = [spc EXCEPT ![s] = "mark"]
                                  /\ UNCHANGED table
        BY <2>1 DEF Report
      <3>2. AtHandAccepted'
        <4> SUFFICES ASSUME NEW r \in Syncers, spc'[r] = "mark"
                     PROVE  ledger'[scur'[r]] > 0
          BY DEF AtHandAccepted
        <4>1. CASE r = s
          BY <3>1, <4>1 DEF LedgerTakes, AcceptedInv, TypeOK
        <4>2. CASE r # s
          <5>1. spc[r] = "mark" /\ scur'[r] = scur[r] /\ scur[r] \in Statements
            BY <3>1, <4>2 DEF AcceptedInv, TypeOK
          <5>2. QED
            BY <5>1, <1>l, <1>t DEF AcceptedInv, AtHandAccepted, TypeOK
        <4>3. QED
          BY <4>1, <4>2
      <3>3. SyncedWasAccepted'
        BY <3>1, <1>l, <1>t DEF SyncedWasAccepted, AcceptedInv, TypeOK, table
      <3>4. QED
        BY <3>2, <3>3, <1>t DEF AcceptedInv
    <2>2. CASE MarkSynced(s)
      BY <2>2, <1>t DEF MarkSynced, SavePendingTransaction, external, AcceptedInv,
                        AtHandAccepted, SyncedWasAccepted, TypeOK
    <2>3. CASE ~Report(s) /\ ~MarkSynced(s)
      <3>1. UNCHANGED table /\ \A r \in Syncers :
               spc'[r] = "mark" => spc[r] = "mark" /\ scur'[r] = scur[r]
        BY <1>3, <2>3
           DEF SyncerNext, SyncerSteps, FindNotSynced, FindTruncated, SyncReads,
               StartSession, ReportRefused, SyncDone, ReportUnanswered, SyncFails,
               SyncStops, AcceptedInv, TypeOK
      <3>2. QED
        BY <3>1, <1>l, <1>t
           DEF AcceptedInv, AtHandAccepted, SyncedWasAccepted, TypeOK, table
    <2>4. QED
      BY <2>1, <2>2, <2>3
  <1>4. CASE UNCHANGED vars
    BY <1>4, AcceptedElsewhere DEF vars
  <1>5. QED
    BY <1>1, <1>2, <1>3, <1>4 DEF Next

(* A row with a synced_at holds a transaction the ledger has taken,        *)
(* whatever the number of processes that write the table at once.          *)
THEOREM SyncedAccepted == Spec => []SyncedWasAccepted
  <1>1. Init => AcceptedInv
    BY TypeInit DEF Init, AcceptedInv, AtHandAccepted, SyncedWasAccepted
  <1>2. AcceptedInv => SyncedWasAccepted
    BY DEF AcceptedInv
  <1>3. QED
    BY <1>1, <1>2, AcceptedNext, PTL DEF Spec

-----------------------------------------------------------------------------
(* A fetch that ends with success has a row for every statement.  Each     *)
(* statement of the answer is still to do, or at hand, or has a row; rows  *)
(* are never deleted, and a row's id and account are those of a statement. *)

Handled(f) ==
  \A t \in trxs[f] : t \in todo[f] \/ t = fcur[f] \/ stored[t.id] # NoTrx

KeyedRows == \A i \in Ids : stored[i] # NoTrx => stored[i].id = i

FetchInv ==
  /\ TypeOK
  /\ KeyedRows
  /\ \A f \in Fetchers : Handled(f)
  /\ \A f \in Fetchers : fpc[f] = "done" => todo[f] = {}

\* What a step does to the table: nothing, or one row is written.
RowWritten(t) == \E b \in BOOLEAN : SavePendingTransaction(t, b)

LEMMA TableSteps ==
  ASSUME TypeOK, [Next]_vars
  PROVE  \/ UNCHANGED table
         \/ \E t \in Statements : RowWritten(t)
  <1>1. ASSUME NEW s \in Syncers, SyncerNext(s)
        PROVE  UNCHANGED table \/ \E t \in Statements : RowWritten(t)
    <2>1. CASE MarkSynced(s)
      BY <2>1 DEF MarkSynced, RowWritten, TypeOK
    <2>2. CASE ~MarkSynced(s)
      BY <1>1, <2>2
         DEF SyncerNext, SyncerSteps, FindNotSynced, FindTruncated, SyncReads,
             StartSession, Report, ReportRefused, SyncDone, ReportUnanswered, SyncFails
    <2>3. QED
      BY <2>1, <2>2
  <1>2. ASSUME NEW f \in Fetchers, FetcherNext(f)
        PROVE  UNCHANGED table \/ \E t \in Statements : RowWritten(t)
    <2>1. CASE SaveFetched(f)
      BY <2>1 DEF SaveFetched, RowWritten, TypeOK
    <2>2. CASE ~SaveFetched(f)
      BY <1>2, <2>2 DEF FetcherNext, FetcherSteps, Fetch, CheckExists,
                        FetchMalformed, FetchDone, FetchFails
    <2>3. QED
      BY <2>1, <2>2
  <1>3. CASE Outside
    BY <1>3 DEF Outside, BankPosts, BankForgets, LedgerTakesLate
  <1>4. CASE UNCHANGED vars
    BY <1>4 DEF vars
  <1>5. QED
    BY <1>1, <1>2, <1>3, <1>4 DEF Next

\* Rows stay, and stay filed under their id.
LEMMA RowsStay ==
  ASSUME TypeOK, KeyedRows, [Next]_vars
  PROVE  /\ KeyedRows'
         /\ \A i \in Ids : stored[i] # NoTrx => stored'[i] # NoTrx
  <1>1. CASE UNCHANGED table
    BY <1>1 DEF KeyedRows, table
  <1>2. CASE \E t \in Statements : RowWritten(t)
    BY <1>2 DEF KeyedRows, RowWritten, SavePendingTransaction, TypeOK
  <1>3. QED
    BY <1>1, <1>2, TableSteps

LEMMA FetchNext == FetchInv /\ [Next]_vars => FetchInv'
  <1> SUFFICES ASSUME FetchInv, [Next]_vars PROVE FetchInv'
    OBVIOUS
  <1>t. TypeOK /\ TypeOK'
    BY TypeNext DEF FetchInv
  <1>r. /\ KeyedRows'
        /\ \A i \in Ids : stored[i] # NoTrx => stored'[i] # NoTrx
    BY RowsStay DEF FetchInv
  <1>1. CASE UNCHANGED fetchers
    BY <1>1, <1>t, <1>r DEF FetchInv, Handled, fetchers, TypeOK
  <1>2. ASSUME NEW f \in Fetchers, FetcherNext(f) PROVE FetchInv'
    <2>1. ASSUME NEW g \in Fetchers, g # f
          PROVE  Handled(g)' /\ (fpc'[g] = "done" => todo'[g] = {})
      <3>1. /\ fpc'[g] = fpc[g] /\ trxs'[g] = trxs[g]
            /\ todo'[g] = todo[g] /\ fcur'[g] = fcur[g]
        <4>1. CASE CheckExists(f)
          BY <2>1, <4>1, <1>t DEF CheckExists, TypeOK
        <4>2. CASE FetchMalformed(f) \/ FetchFails(f)
          BY <2>1, <4>2, <1>t DEF FetchMalformed, FetchFails, FetchStops, TypeOK
        <4>3. CASE SaveFetched(f) \/ FetchDone(f)
          BY <2>1, <4>3, <1>t DEF SaveFetched, FetchDone, TypeOK
        <4>4. ASSUME NEW a \in Accounts, Fetch(f, a)
              PROVE  /\ fpc'[g] = fpc[g] /\ trxs'[g] = trxs[g]
                     /\ todo'[g] = todo[g] /\ fcur'[g] = fcur[g]
          BY <2>1, <4>4, <1>t DEF Fetch, TypeOK
        <4>5. QED
          BY <1>2, <4>1, <4>2, <4>3, <4>4 DEF FetcherNext, FetcherSteps
      <3>2. QED
        BY <3>1, <1>t, <1>r DEF FetchInv, Handled, TypeOK
    <2>2. Handled(f)' /\ (fpc'[f] = "done" => todo'[f] = {})
      <3>1. ASSUME NEW a \in Accounts, Fetch(f, a)
            PROVE  Handled(f)' /\ (fpc'[f] = "done" => todo'[f] = {})
        BY <3>1, <1>t DEF Fetch, Handled, TypeOK
      <3>2. CASE CheckExists(f)
        BY <3>2, <1>t DEF CheckExists, PendingTransactionExist, FetchInv,
                          Handled, TypeOK, table
      <3>3. CASE SaveFetched(f)
        BY <3>3, <1>t, <1>r DEF SaveFetched, SavePendingTransaction, FetchInv,
                                Handled, TypeOK
      <3>4. CASE FetchDone(f)
        BY <3>4, <1>t DEF FetchDone, FetchInv, Handled, TypeOK, table
      <3>5. CASE FetchMalformed(f) \/ FetchFails(f)
        BY <3>5, <1>t DEF FetchMalformed, FetchFails, FetchStops, Handled, TypeOK
      <3>6. QED
        BY <1>2, <3>1, <3>2, <3>3, <3>4, <3>5 DEF FetcherNext, FetcherSteps
    <2>3. QED
      BY <2>1, <2>2, <1>t, <1>r DEF FetchInv
  <1>3. ASSUME NEW s \in Syncers, SyncerNext(s) PROVE UNCHANGED fetchers
    BY <1>3 DEF SyncerNext, SyncerSteps, FindNotSynced, FindTruncated, SyncReads,
                StartSession, Report, ReportRefused, MarkSynced, SyncDone,
                ReportUnanswered, SyncFails
  <1>4. CASE Outside
    BY <1>1, <1>4 DEF Outside, BankPosts, BankForgets, LedgerTakesLate
  <1>5. CASE UNCHANGED vars
    BY <1>1, <1>5 DEF vars
  <1>6. QED
    BY <1>1, <1>2, <1>3, <1>4, <1>5 DEF Next

(* When a fetch ends with success every statement of the answer has a row  *)
(* of its account, provided the banks' ids tell the accounts apart.        *)
THEOREM FetchComplete ==
  ASSUME IdsPerAccount
  PROVE  Spec => []FetchCompletes
  <1>1. Init => FetchInv
    BY TypeInit DEF Init, FetchInv, Handled, KeyedRows
  <1>2. FetchInv => FetchCompletes
    <2> SUFFICES ASSUME FetchInv, NEW f \in Fetchers, fpc[f] = "done",
                        NEW t \in trxs[f]
                 PROVE  stored[t.id] # NoTrx /\ stored[t.id].acc = t.acc
      BY DEF FetchCompletes
    <2>1. t \in Statements /\ fcur[f] = NoTrx /\ todo[f] = {}
      BY DEF FetchInv, TypeOK
    <2>2. stored[t.id] # NoTrx /\ stored[t.id].id = t.id
      BY <2>1 DEF FetchInv, Handled, KeyedRows
    <2>3. QED
      BY <2>1, <2>2, IdsPerAccount DEF FetchInv, TypeOK, IdsPerAccount
  <1>3. QED
    BY <1>1, <1>2, FetchNext, PTL DEF Spec

-----------------------------------------------------------------------------
(* With one fetch at a time the table is an outbox.  The two commands act  *)
(* on copies they made earlier: a sync on the rows it read, a fetch on the *)
(* answer that a row is missing.  The invariant says that the copies are   *)
(* still true of the table.                                                *)

QueueIsStored == \A s \in Syncers : \A t \in stodo[s] : stored[t.id] = t

AtHandIsMissing == \A f \in Fetchers : fpc[f] = "save" => stored[fcur[f].id] = NoTrx

AtHandIsQueued == \A s \in Syncers : spc[s] = "mark" => scur[s] \in stodo[s]

LateIsStored == \A t \in Statements : late[t] > 0 => stored[t.id] = t

OutboxInv ==
  /\ AcceptedInv
  /\ KeyedRows
  /\ QueueIsStored
  /\ AtHandIsMissing
  /\ AtHandIsQueued
  /\ LateIsStored

\* Only the one fetch writes a row that was not there; what a sync writes was there.
LEMMA OneWriter ==
  ASSUME OneFetcher, OutboxInv, NEW s \in Syncers, MarkSynced(s)
  PROVE  /\ stored' = stored
         /\ stored[scur[s].id] = scur[s]
         /\ synced' = synced \cup {scur[s].id}
  <1>1. scur[s] \in Statements /\ stored[scur[s].id] = scur[s]
    BY DEF MarkSynced, OutboxInv, AtHandIsQueued, QueueIsStored,
           AcceptedInv, TypeOK
  <1>2. QED
    BY <1>1 DEF MarkSynced, SavePendingTransaction, OutboxInv, AcceptedInv, TypeOK

LEMMA FetcherOutbox ==
  ASSUME OneFetcher, OutboxInv, NEW f \in Fetchers, FetcherNext(f)
  PROVE  QueueIsStored' /\ AtHandIsMissing' /\ AtHandIsQueued'
  <1>t. TypeOK /\ \A g \in Fetchers : g = f
    BY DEF OneFetcher, OutboxInv, AcceptedInv
  <1>1. CASE SaveFetched(f)
    <2>1. /\ fcur[f] \in Statements /\ stored[fcur[f].id] = NoTrx
          /\ stored' = [stored EXCEPT ![fcur[f].id] = fcur[f]]
          /\ fpc' = [fpc EXCEPT ![f] = "check"]
          /\ UNCHANGED syncers
      BY <1>1, <1>t DEF SaveFetched, SavePendingTransaction, OutboxInv,
                        AtHandIsMissing, TypeOK
    <2>2. QueueIsStored'
      BY <2>1, <1>t DEF QueueIsStored, OutboxInv, TypeOK, syncers
    <2>3. QED
      BY <2>1, <2>2, <1>t DEF AtHandIsMissing, AtHandIsQueued, OutboxInv,
                              TypeOK, syncers
  <1>2. CASE CheckExists(f)
    BY <1>2, <1>t DEF CheckExists, PendingTransactionExist, OutboxInv,
                      QueueIsStored, AtHandIsMissing, AtHandIsQueued, TypeOK,
                      table, syncers
  <1>3. CASE ~SaveFetched(f) /\ ~CheckExists(f)
    <2>1. UNCHANGED <<table, syncers>> /\ fpc'[f] # "save"
      BY <1>3, <1>t DEF FetcherNext, FetcherSteps, Fetch, FetchMalformed, FetchDone,
                        FetchFails, FetchStops, TypeOK
    <2>2. QED
      BY <2>1, <1>t DEF OutboxInv, QueueIsStored, AtHandIsMissing, AtHandIsQueued,
                        TypeOK, table, syncers
  <1>4. QED
    BY <1>1, <1>2, <1>3

LEMMA SyncerOutbox ==
  ASSUME OneFetcher, OutboxInv, NEW s \in Syncers, SyncerNext(s)
  PROVE  QueueIsStored' /\ AtHandIsMissing' /\ AtHandIsQueued'
  <1>t. TypeOK
    BY DEF OutboxInv, AcceptedInv
  <1>u. UNCHANGED fetchers /\ UNCHANGED stored
    BY OneWriter
       DEF SyncerNext, SyncerSteps, FindNotSynced, FindTruncated, SyncReads,
           StartSession, Report, ReportRefused, MarkSynced, SyncDone,
           ReportUnanswered, SyncFails, table
  <1>m. AtHandIsMissing'
    BY <1>u DEF AtHandIsMissing, OutboxInv, fetchers
  <1>1. ASSUME NEW rows, NEW a \in Accounts, SyncReads(s, rows),
               rows \subseteq NotSyncedTransactions(a)
        PROVE  QueueIsStored' /\ AtHandIsQueued'
    <2>1. \A t \in rows : stored[t.id] = t
      BY <1>1, <1>t DEF NotSyncedTransactions, OutboxInv, KeyedRows
    <2>2. QED
      BY <1>1, <2>1, <1>t, <1>u DEF SyncReads, QueueIsStored, AtHandIsQueued,
                                    OutboxInv, TypeOK
  <1>2. ASSUME NEW a \in Accounts, FindNotSynced(s, a) \/ FindTruncated(s, a)
        PROVE  QueueIsStored' /\ AtHandIsQueued'
    BY <1>1, <1>2 DEF FindNotSynced, FindTruncated
  <1> DEFINE Shrinks == \A r \in Syncers :
                          /\ stodo'[r] \subseteq stodo[r]
                          /\ spc'[r] = "mark" => scur'[r] \in stodo'[r]
  <1>3. ASSUME Shrinks PROVE QueueIsStored' /\ AtHandIsQueued'
    BY <1>3, <1>u DEF QueueIsStored, AtHandIsQueued, OutboxInv
  <1>q. \A r \in Syncers : spc[r] = "mark" => scur[r] \in stodo[r]
    BY DEF OutboxInv, AtHandIsQueued
  <1>4. ASSUME Report(s) PROVE Shrinks
    BY <1>4, <1>q, <1>t DEF Report, TypeOK
  <1>5. ASSUME MarkSynced(s) PROVE Shrinks
    BY <1>5, <1>q, <1>t DEF MarkSynced, TypeOK
  <1>6. ASSUME StartSession(s) \/ SyncDone(s) PROVE Shrinks
    BY <1>6, <1>q, <1>t DEF StartSession, SyncDone, TypeOK
  <1>7. ASSUME ReportRefused(s) \/ ReportUnanswered(s) \/ SyncFails(s) PROVE Shrinks
    BY <1>7, <1>q, <1>t DEF ReportRefused, ReportUnanswered, SyncFails,
                            SyncStops, TypeOK
  <1>8. QED
    BY <1>m, <1>2, <1>3, <1>4, <1>5, <1>6, <1>7 DEF SyncerNext, SyncerSteps

\* A report under way is of a row, which is not rewritten meanwhile.
LEMMA LateNext ==
  ASSUME OneFetcher, OutboxInv, [Next]_vars
  PROVE  LateIsStored'
  <1>t. TypeOK /\ TypeOK' /\ LateIsStored
    BY TypeNext DEF OutboxInv, AcceptedInv
  <1>1. ASSUME NEW s \in Syncers, SyncerNext(s) PROVE LateIsStored'
    <2>1. stored' = stored
      BY <1>1, OneWriter
         DEF SyncerNext, SyncerSteps, FindNotSynced, FindTruncated, SyncReads,
             StartSession, Report, ReportRefused, MarkSynced, SyncDone,
             ReportUnanswered, SyncFails, table
    <2>2. CASE ReportUnanswered(s)
      <3>1. PICK t \in stodo[s] : late' = [late EXCEPT ![t] = @ + 1]
        BY <2>2 DEF ReportUnanswered
      <3>2. stored[t.id] = t
        BY DEF OutboxInv, QueueIsStored
      <3>3. QED
        BY <2>1, <3>1, <3>2, <1>t DEF LateIsStored, TypeOK
    <2>3. CASE ~ReportUnanswered(s)
      <3>1. late' = late
        BY <1>1, <2>3
           DEF SyncerNext, SyncerSteps, FindNotSynced, FindTruncated, SyncReads,
               StartSession, Report, ReportRefused, MarkSynced, SyncDone,
               SyncFails, external
      <3>2. QED
        BY <2>1, <3>1, <1>t DEF LateIsStored
    <2>4. QED
      BY <2>2, <2>3
  <1>2. ASSUME NEW f \in Fetchers, FetcherNext(f) PROVE LateIsStored'
    <2>1. late' = late
      BY <1>2 DEF FetcherNext, FetcherSteps, Fetch, CheckExists, SaveFetched,
                  FetchMalformed, FetchDone, FetchFails, external
    <2>2. \A i \in Ids : stored[i] # NoTrx => stored'[i] = stored[i]
      <3>1. CASE SaveFetched(f)
        BY <3>1, <1>t DEF SaveFetched, SavePendingTransaction, OutboxInv,
                          AtHandIsMissing, TypeOK
      <3>2. CASE ~SaveFetched(f)
        BY <1>2, <3>2 DEF FetcherNext, FetcherSteps, Fetch, CheckExists,
                          FetchMalformed, FetchDone, FetchFails, table
      <3>3. QED
        BY <3>1, <3>2
    <2>3. QED
      BY <2>1, <2>2, <1>t DEF LateIsStored
  <1>3. ASSUME NEW t \in Statements, BankPosts(t) \/ BankForgets(t)
        PROVE  LateIsStored'
    BY <1>3, <1>t DEF BankPosts, BankForgets, table, LateIsStored
  <1>4. ASSUME NEW t \in Statements, LedgerTakesLate(t) PROVE LateIsStored'
    BY <1>4, <1>t DEF LedgerTakesLate, table, LateIsStored, TypeOK
  <1>5. CASE UNCHANGED vars
    BY <1>5, <1>t DEF vars, table, external, LateIsStored
  <1>6. QED
    BY <1>1, <1>2, <1>3, <1>4, <1>5 DEF Next, Outside

LEMMA OutboxNext ==
  ASSUME OneFetcher
  PROVE  OutboxInv /\ [Next]_vars => OutboxInv'
  <1> SUFFICES ASSUME OutboxInv, [Next]_vars PROVE OutboxInv'
    OBVIOUS
  <1>a. AcceptedInv' /\ KeyedRows' /\ LateIsStored'
    BY AcceptedNext, RowsStay, LateNext DEF OutboxInv, AcceptedInv
  <1>1. CASE Outside \/ UNCHANGED vars
    <2>1. UNCHANGED <<table, fetchers, syncers>>
      BY <1>1 DEF Outside, BankPosts, BankForgets, LedgerTakesLate, vars
    <2>2. QED
      BY <2>1, <1>a DEF OutboxInv, QueueIsStored, AtHandIsMissing, AtHandIsQueued,
                        table, fetchers, syncers
  <1>2. QED
    BY <1>1, <1>a, FetcherOutbox, SyncerOutbox, OneFetcher DEF Next, OutboxInv

LEMMA OutboxInit == Init => OutboxInv
  BY TypeInit DEF Init, OutboxInv, AcceptedInv, AtHandAccepted, SyncedWasAccepted,
                  KeyedRows, QueueIsStored, AtHandIsMissing, AtHandIsQueued,
                  LateIsStored

\* Every step of Pipeline is a step of the outbox or leaves it alone.
LEMMA OutboxStep ==
  ASSUME OneFetcher, OutboxInv, [Next]_vars
  PROVE  [Table!Next]_(Table!vars)
  <1> USE DEF Table!vars
  <1>t. TypeOK
    BY DEF OutboxInv, AcceptedInv
  <1>1. ASSUME NEW f \in Fetchers, FetcherNext(f)
        PROVE  [Table!Next]_(Table!vars)
    <2>1. CASE SaveFetched(f)
      <3>1. fcur[f] \in Statements /\ stored[fcur[f].id] = NoTrx
        BY <2>1, <1>t DEF SaveFetched, OutboxInv, AtHandIsMissing, TypeOK
      <3>2. fcur[f].id \notin synced
        BY <3>1 DEF OutboxInv, AcceptedInv, SyncedWasAccepted
      <3>3. Table!Record(fcur[f])
        BY <2>1, <3>1, <3>2 DEF SaveFetched, SavePendingTransaction, external,
                                Table!Record
      <3>4. QED
        BY <3>1, <3>3 DEF Table!Next
    <2>2. CASE ~SaveFetched(f)
      BY <1>1, <2>2 DEF FetcherNext, FetcherSteps, Fetch, CheckExists,
                        FetchMalformed, FetchDone, FetchFails, table, external
    <2>3. QED
      BY <2>1, <2>2
  <1>2. ASSUME NEW t \in Statements, stored[t.id] = t, LedgerTakes(t), UNCHANGED table
        PROVE  [Table!Next]_(Table!vars)
    <2>1. Table!Deliver(t)
      BY <1>2 DEF LedgerTakes, table, Table!Deliver
    <2>2. QED
      BY <2>1 DEF Table!Next
  <1>3. ASSUME NEW s \in Syncers, SyncerNext(s)
        PROVE  [Table!Next]_(Table!vars)
    <2>1. CASE Report(s)
      <3>1. PICK t \in stodo[s] : LedgerTakes(t) /\ UNCHANGED table
        BY <2>1 DEF Report
      <3>2. t \in Statements /\ stored[t.id] = t
        BY <1>t DEF OutboxInv, QueueIsStored, TypeOK
      <3>3. QED
        BY <1>2, <3>1, <3>2
    <2>2. CASE MarkSynced(s)
      <3>1. scur[s].id \in Ids /\ stored[scur[s].id] = scur[s] /\ scur[s] # NoTrx
            /\ ledger[scur[s]] > 0
        BY <2>2, <1>t, OneWriter DEF MarkSynced, OutboxInv, AcceptedInv,
                                     AtHandAccepted, TypeOK
      <3>2. Table!Confirm(scur[s].id)
        BY <2>2, <3>1, OneWriter DEF MarkSynced, external, Table!Confirm
      <3>3. QED
        BY <3>1, <3>2 DEF Table!Next
    <2>3. CASE ~Report(s) /\ ~MarkSynced(s)
      BY <1>3, <2>3
         DEF SyncerNext, SyncerSteps, FindNotSynced, FindTruncated, SyncReads,
             StartSession, ReportRefused, ReportUnanswered, SyncDone, SyncFails,
             table, external
    <2>4. QED
      BY <2>1, <2>2, <2>3
  <1>4. CASE Outside
    <2>1. ASSUME NEW t \in Statements, LedgerTakesLate(t)
          PROVE  [Table!Next]_(Table!vars)
      BY <1>2, <2>1 DEF LedgerTakesLate, OutboxInv, LateIsStored
    <2>2. ASSUME NEW t \in Statements, BankPosts(t) \/ BankForgets(t)
          PROVE  UNCHANGED Table!vars
      BY <2>2 DEF BankPosts, BankForgets, table
    <2>3. QED
      BY <1>4, <2>1, <2>2 DEF Outside
  <1>5. CASE UNCHANGED vars
    BY <1>5 DEF vars, table, external
  <1>6. QED
    BY <1>1, <1>3, <1>4, <1>5 DEF Next

(* With one fetch at a time, fetches and syncs together implement the      *)
(* outbox: no row is rewritten, none is confirmed before that very         *)
(* transaction was taken, and a confirmation is final.                     *)
THEOREM OutboxImplemented ==
  ASSUME OneFetcher
  PROVE  Spec => ImplementsOutbox
  <1>1. Init => Table!Init
    BY DEF Init, Table!Init
  <1>2. OutboxInv /\ [Next]_vars => [Table!Next]_(Table!vars)
    BY OutboxStep
  <1>3. QED
    BY <1>1, <1>2, OutboxInit, OutboxNext, PTL DEF Spec, ImplementsOutbox, Table!Spec

-----------------------------------------------------------------------------
(* With one sync at a time too, the rows a sync still has to report are    *)
(* not synced, because nobody else marks rows.                             *)

QueueIsPending == \A s \in Syncers : \A t \in stodo[s] : t.id \notin synced

PendingInv == OutboxInv /\ QueueIsPending

LEMMA PendingNext ==
  ASSUME OneFetcher, OneSyncer
  PROVE  PendingInv /\ [Next]_vars => PendingInv'
  <1> SUFFICES ASSUME PendingInv, [Next]_vars PROVE QueueIsPending'
    BY OutboxNext DEF PendingInv
  <1>t. OutboxInv /\ TypeOK
    BY DEF PendingInv, OutboxInv, AcceptedInv
  <1>1. ASSUME NEW s \in Syncers, SyncerNext(s) PROVE QueueIsPending'
    <2>r. \A r \in Syncers : r = s
      BY OneSyncer DEF OneSyncer
    <2>1. ASSUME NEW a \in Accounts, NEW rows, SyncReads(s, rows),
                 rows \subseteq NotSyncedTransactions(a)
          PROVE  QueueIsPending'
      <3>1. \A t \in rows : t.id \notin synced
        BY <2>1 DEF NotSyncedTransactions, OutboxInv, KeyedRows, PendingInv
      <3>2. stodo'[s] = rows /\ synced' = synced
        BY <2>1, <1>t DEF SyncReads, TypeOK, table
      <3>3. QED
        BY <3>1, <3>2, <2>r DEF QueueIsPending
    <2>2. CASE MarkSynced(s)
      <3>1. \A t \in stodo'[s] : t \in stodo[s] /\ t # scur[s]
        BY <2>2, <1>t DEF MarkSynced, TypeOK
      <3>2. \A t \in stodo'[s] : t.id # scur[s].id
        BY <3>1, <2>2, <1>t, OneWriter DEF OutboxInv, QueueIsStored
      <3>3. QED
        BY <3>1, <3>2, <2>r, <2>2, <1>t, OneWriter DEF QueueIsPending, PendingInv
    <2>3. ASSUME synced' = synced, stodo'[s] \subseteq stodo[s]
          PROVE  QueueIsPending'
      BY <2>3, <2>r DEF QueueIsPending, PendingInv
    <2>4. ASSUME Report(s) \/ StartSession(s) \/ SyncDone(s) \/ ReportRefused(s)
                 \/ ReportUnanswered(s) \/ SyncFails(s)
          PROVE  synced' = synced /\ stodo'[s] \subseteq stodo[s]
      BY <2>4, <1>t DEF Report, StartSession, SyncDone, ReportRefused,
                        ReportUnanswered, SyncFails, SyncStops, TypeOK, table
    <2>5. ASSUME NEW a \in Accounts, FindNotSynced(s, a) \/ FindTruncated(s, a)
          PROVE  QueueIsPending'
      BY <2>1, <2>5 DEF FindNotSynced, FindTruncated
    <2>6. QED
      BY <1>1, <2>2, <2>3, <2>4, <2>5 DEF SyncerNext, SyncerSteps
  <1>2. ASSUME NEW f \in Fetchers, FetcherNext(f) PROVE QueueIsPending'
    <2>1. synced' \subseteq synced /\ stodo' = stodo
      BY <1>2 DEF FetcherNext, FetcherSteps, Fetch, CheckExists, SaveFetched,
                  SavePendingTransaction, FetchMalformed, FetchDone, FetchFails,
                  table, syncers
    <2>2. QED
      BY <2>1 DEF QueueIsPending, PendingInv
  <1>3. CASE Outside \/ UNCHANGED vars
    BY <1>3 DEF Outside, BankPosts, BankForgets, LedgerTakesLate, vars, table,
                syncers, QueueIsPending, PendingInv
  <1>4. QED
    BY <1>1, <1>2, <1>3 DEF Next

LEMMA PendingInit == Init => PendingInv
  BY OutboxInit DEF Init, PendingInv, QueueIsPending

\* A late report that arrives was counted when it was sent.
LEMMA OutsideSendsNothing ==
  ASSUME TypeOK, Outside \/ UNCHANGED vars
  PROVE  \A t \in Statements : Reports(t)' = Reports(t)
  <1>1. ASSUME NEW u \in Statements, LedgerTakesLate(u), NEW t \in Statements
        PROVE  Reports(t)' = Reports(t)
    <2>1. ledger \in [Statements -> Nat] /\ late \in [Statements -> Nat]
      BY DEF TypeOK
    <2>2. ledger' = [ledger EXCEPT ![u] = @ + 1] /\ late' = [late EXCEPT ![u] = @ - 1]
      BY <1>1 DEF LedgerTakesLate, LedgerTakes
    <2>3. CASE t = u
      BY <2>1, <2>2, <2>3 DEF Reports
    <2>4. CASE t # u
      BY <2>1, <2>2, <2>4 DEF Reports
    <2>5. QED
      BY <2>3, <2>4
  <1>2. ASSUME NEW u \in Statements, BankPosts(u) \/ BankForgets(u)
        PROVE  UNCHANGED <<ledger, late>>
    BY <1>2 DEF BankPosts, BankForgets
  <1>3. CASE UNCHANGED vars
    BY <1>3 DEF vars, external, Reports
  <1>4. QED
    BY <1>1, <1>2, <1>3 DEF Outside, Reports

(* With one fetch and one sync at a time, the ledger is never sent again a *)
(* transaction whose row is marked.                                        *)
THEOREM NotReportedAgain ==
  ASSUME OneFetcher, OneSyncer
  PROVE  Spec => SyncedNeverReportedAgain
  <1>1. ASSUME PendingInv, [Next]_vars, NEW t \in Statements, t.id \in synced
        PROVE  Reports(t)' = Reports(t)
    <2>t. TypeOK
      BY <1>1 DEF PendingInv, OutboxInv, AcceptedInv
    <2>1. ASSUME NEW s \in Syncers, SyncerNext(s) PROVE Reports(t)' = Reports(t)
      <3>1. t \notin stodo[s]
        BY <1>1 DEF PendingInv, QueueIsPending
      <3>2. CASE Report(s)
        BY <3>1, <3>2, <2>t DEF Report, LedgerTakes, Reports, TypeOK
      <3>3. CASE ReportUnanswered(s)
        BY <3>1, <3>3, <2>t DEF ReportUnanswered, Reports, TypeOK
      <3>4. CASE ~Report(s) /\ ~ReportUnanswered(s)
        BY <2>1, <3>4
           DEF SyncerNext, SyncerSteps, FindNotSynced, FindTruncated, SyncReads,
               StartSession, ReportRefused, MarkSynced, SyncDone, SyncFails,
               external, Reports
      <3>5. QED
        BY <3>2, <3>3, <3>4
    <2>2. ASSUME NEW f \in Fetchers, FetcherNext(f) PROVE Reports(t)' = Reports(t)
      BY <2>2 DEF FetcherNext, FetcherSteps, Fetch, CheckExists, SaveFetched,
                  FetchMalformed, FetchDone, FetchFails, external, Reports
    <2>3. CASE Outside \/ UNCHANGED vars
      BY <2>3, <2>t, OutsideSendsNothing
    <2>4. QED
      BY <1>1, <2>1, <2>2, <2>3 DEF Next
  <1>2. PendingInv /\ [Next]_vars =>
          [\A t \in Statements : t.id \in synced => Reports(t)' = Reports(t)]_vars
    BY <1>1
  <1>3. QED
    BY <1>2, PendingInit, PendingNext, PTL DEF Spec, SyncedNeverReportedAgain

-----------------------------------------------------------------------------
(* Every report is paid for.  Once a transaction has a row, what can still *)
(* be reported of it without a failure is bounded: once by each sync that  *)
(* has it to do or may read it, and once by each sync for each fetch that  *)
(* found the row missing and is still to save it.                          *)

Pending(i) == {f \in Fetchers : fcur[f] # NoTrx /\ fcur[f].id = i}

MayReport(t) ==
  {s \in Syncers : scur[s] # t /\ (t.id \notin synced \/ t \in stodo[s])}

Spent(t) == Reports(t) + Cardinality(Pending(t.id)) * Cardinality(Syncers)
                       + Cardinality(MayReport(t))

Budget == faults + Cardinality(Fetchers) * Cardinality(Syncers)

\* What has no row has not been read, let alone reported.
NoneUnstored ==
  \A t \in Statements : stored[t.id] = NoTrx =>
    Reports(t) = 0 /\ \A s \in Syncers : t \notin stodo[s] /\ scur[s] # t

PaidFor == \A t \in Statements : stored[t.id] # NoTrx => Spent(t) <= Budget

CountInv == TypeOK /\ KeyedRows /\ NoneUnstored /\ PaidFor

\* Counting processes.
LEMMA FetchersCounted ==
  ASSUME NEW P \in SUBSET Fetchers
  PROVE  /\ IsFiniteSet(P) /\ Cardinality(P) \in Nat
         /\ Cardinality(P) <= Cardinality(Fetchers)
  BY ProcessesAssumption, FS_Subset, FS_CardinalityType

LEMMA SyncersCounted ==
  ASSUME NEW P \in SUBSET Syncers
  PROVE  /\ IsFiniteSet(P) /\ Cardinality(P) \in Nat
         /\ Cardinality(P) <= Cardinality(Syncers)
  BY ProcessesAssumption, FS_Subset, FS_CardinalityType

LEMMA TimesMonotone ==
  ASSUME NEW m \in Nat, NEW n \in Nat, NEW k \in Nat, m <= n
  PROVE  m * k <= n * k /\ m * k \in Nat /\ n * k \in Nat
  <1>1. n = m + (n - m) /\ n - m \in Nat
    OBVIOUS
  <1>2. n * k = m * k + (n - m) * k /\ (n - m) * k \in Nat /\ m * k \in Nat
    BY <1>1
  <1>3. QED
    BY <1>2

\* A step of a sync that reports something: of a transaction it has to do.
LEMMA OneMoreReport ==
  ASSUME TypeOK, NEW s \in Syncers, Report(s) \/ ReportUnanswered(s)
  PROVE  \E t \in stodo[s] :
           /\ t \in Statements
           /\ Reports(t)' = Reports(t) + 1
           /\ \A u \in Statements : u # t => Reports(u)' = Reports(u)
           /\ UNCHANGED synced
           /\ spc[s] = "report"
           /\ \/ scur'[s] = t /\ faults' = faults
              \/ faults' = faults + 1
  <1>1. ledger \in [Statements -> Nat] /\ late \in [Statements -> Nat]
    BY DEF TypeOK
  <1>2. CASE Report(s)
    <2>1. PICK t \in stodo[s] :
            /\ ledger' = [ledger EXCEPT ![t] = @ + 1] /\ late' = late
            /\ scur' = [scur EXCEPT ![s] = t] /\ spc[s] = "report"
            /\ UNCHANGED <<synced, faults>>
      BY <1>2 DEF Report, LedgerTakes, table
    <2>2. t \in Statements /\ scur'[s] = t
      BY <2>1 DEF TypeOK
    <2>3. Reports(t)' = Reports(t) + 1
      BY <1>1, <2>1, <2>2 DEF Reports
    <2>4. \A u \in Statements : u # t => Reports(u)' = Reports(u)
      BY <1>1, <2>1, <2>2 DEF Reports
    <2>5. QED
      BY <2>1, <2>2, <2>3, <2>4
  <1>3. CASE ReportUnanswered(s)
    <2>1. PICK t \in stodo[s] :
            /\ late' = [late EXCEPT ![t] = @ + 1] /\ ledger' = ledger
            /\ faults' = faults + 1 /\ spc[s] = "report" /\ UNCHANGED synced
      BY <1>3 DEF ReportUnanswered, Fault, table
    <2>2. t \in Statements
      BY <2>1 DEF TypeOK
    <2>3. Reports(t)' = Reports(t) + 1
      BY <1>1, <2>1, <2>2 DEF Reports
    <2>4. \A u \in Statements : u # t => Reports(u)' = Reports(u)
      BY <1>1, <2>1, <2>2 DEF Reports
    <2>5. QED
      BY <2>1, <2>2, <2>3, <2>4
  <1>4. QED
    BY <1>2, <1>3

\* What a step may do to a transaction that has a row: nothing, a failure of a
\* sync that may start over, a report that fails or one that takes the sync's
\* turn, or another save of its row.
OwesNoMore(t) ==
  Reports(t)' = Reports(t) /\ MayReport(t)' \subseteq MayReport(t) /\ faults' >= faults

StartsOver(t) ==
  /\ Reports(t)' = Reports(t) /\ faults' = faults + 1
  /\ \E s \in Syncers : MayReport(t)' \subseteq MayReport(t) \cup {s}

ReportFails(t) ==
  /\ Reports(t)' = Reports(t) + 1 /\ faults' = faults + 1
  /\ MayReport(t)' \subseteq MayReport(t)

TakesItsTurn(t) ==
  /\ Reports(t)' = Reports(t) + 1 /\ faults' = faults
  /\ \E s \in MayReport(t) : MayReport(t)' \subseteq MayReport(t) \ {s}

SavedAgain(t) ==
  /\ Reports(t)' = Reports(t) /\ faults' = faults
  /\ \E f \in Pending(t.id) : Pending(t.id)' \subseteq Pending(t.id) \ {f}

Pays(t) == \/ OwesNoMore(t)
           \/ StartsOver(t)
           \/ ReportFails(t)
           \/ TakesItsTurn(t)
           \/ SavedAgain(t)

LEMMA PaysKeepsBudget ==
  ASSUME TypeOK, TypeOK', NEW t \in Statements, Spent(t) <= Budget,
         Pending(t.id)' \subseteq Pending(t.id), Pays(t)
  PROVE  Spent(t)' <= Budget'
  <1> DEFINE S == Cardinality(Syncers)
             FS == Cardinality(Fetchers) * S
             p == Cardinality(Pending(t.id))
             q == Cardinality(Pending(t.id)')
             m == Cardinality(MayReport(t))
             n == Cardinality(MayReport(t)')
  <1>1. S \in Nat /\ Cardinality(Fetchers) \in Nat
    BY FetchersCounted, SyncersCounted
  <1>2. FS \in Nat
    BY <1>1, TimesMonotone
  <1>3. /\ IsFiniteSet(Pending(t.id)) /\ p \in Nat
        /\ IsFiniteSet(Pending(t.id)') /\ q \in Nat
    BY FetchersCounted DEF Pending
  <1>4. /\ IsFiniteSet(MayReport(t)) /\ m \in Nat
        /\ IsFiniteSet(MayReport(t)') /\ n \in Nat
        /\ n <= S
    BY SyncersCounted DEF MayReport
  <1>5. /\ Reports(t) \in Nat /\ Reports(t)' \in Nat
        /\ faults \in Nat /\ faults' \in Nat
    BY DEF TypeOK, Reports
  <1>6. q <= p
    BY <1>3, FS_Subset
  <1>7. q * S <= p * S /\ q * S \in Nat /\ p * S \in Nat
    BY <1>1, <1>3, <1>6, TimesMonotone
  <1>8. Reports(t) + p * S + m <= faults + FS
    BY DEF Spent, Budget
  <1>9. ASSUME Reports(t)' + q * S + n <= faults' + FS
        PROVE  Spent(t)' <= Budget'
    BY <1>9 DEF Spent, Budget
  <1> HIDE DEF S, FS, p, q, m, n
  <1>10. CASE OwesNoMore(t)
    <2>1. n <= m
      BY <1>4, <1>10, FS_Subset DEF OwesNoMore, m, n
    <2>2. QED
      BY <2>1, <1>2, <1>4, <1>5, <1>7, <1>8, <1>9, <1>10 DEF OwesNoMore
  <1>11. CASE StartsOver(t)
    <2>1. PICK s \in Syncers : MayReport(t)' \subseteq MayReport(t) \cup {s}
      BY <1>11 DEF StartsOver
    <2>2. /\ IsFiniteSet(MayReport(t) \cup {s})
          /\ Cardinality(MayReport(t) \cup {s}) \in {m, m + 1}
      BY <1>4, FS_AddElement, Zenon DEF m
    <2>3. n <= Cardinality(MayReport(t) \cup {s})
      BY <2>1, <2>2, FS_Subset DEF n
    <2>4. Cardinality(MayReport(t) \cup {s}) \in Nat
      BY <2>2, FS_CardinalityType
    <2>5. n <= m + 1
      BY <2>2, <2>3, <2>4, <1>4
    <2>6. QED
      BY <2>5, <1>2, <1>4, <1>5, <1>7, <1>8, <1>9, <1>11 DEF StartsOver
  <1>12. CASE ReportFails(t)
    <2>1. n <= m
      BY <1>4, <1>12, FS_Subset DEF ReportFails, m, n
    <2>2. QED
      BY <2>1, <1>2, <1>4, <1>5, <1>7, <1>8, <1>9, <1>12 DEF ReportFails
  <1>13. CASE TakesItsTurn(t)
    <2>1. PICK s \in MayReport(t) : MayReport(t)' \subseteq MayReport(t) \ {s}
      BY <1>13 DEF TakesItsTurn
    <2>2. /\ IsFiniteSet(MayReport(t) \ {s})
          /\ Cardinality(MayReport(t) \ {s}) = m - 1
      BY <1>4, FS_RemoveElement DEF m
    <2>3. n <= m - 1
      BY <2>1, <2>2, FS_Subset DEF n
    <2>4. QED
      BY <2>3, <1>2, <1>4, <1>5, <1>7, <1>8, <1>9, <1>13 DEF TakesItsTurn
  <1>14. CASE SavedAgain(t)
    <2>1. PICK f \in Pending(t.id) : Pending(t.id)' \subseteq Pending(t.id) \ {f}
      BY <1>14 DEF SavedAgain
    <2>2. /\ IsFiniteSet(Pending(t.id) \ {f})
          /\ Cardinality(Pending(t.id) \ {f}) = p - 1
      BY <1>3, FS_RemoveElement DEF p
    <2>3. q <= p - 1
      BY <2>1, <2>2, FS_Subset DEF q
    <2>4. q + 1 <= p /\ q + 1 \in Nat
      BY <2>3, <1>3
    <2>5. (q + 1) * S <= p * S /\ (q + 1) * S = q * S + S
      BY <2>4, <1>1, <1>3, TimesMonotone
    <2>6. QED
      BY <2>5, <1>1, <1>2, <1>4, <1>5, <1>7, <1>8, <1>9, <1>14 DEF SavedAgain
  <1>15. QED
    BY <1>10, <1>11, <1>12, <1>13, <1>14 DEF Pays

\* A step leaves less pending of what has a row: only missing rows are saved.
LEMMA PendingShrinks ==
  ASSUME TypeOK, [Next]_vars, NEW t \in Statements, stored[t.id] # NoTrx
  PROVE  Pending(t.id)' \subseteq Pending(t.id)
  <1>1. ASSUME NEW f \in Fetchers, CheckExists(f)
        PROVE  Pending(t.id)' \subseteq Pending(t.id)
    BY <1>1 DEF CheckExists, PendingTransactionExist, Pending, TypeOK
  <1>2. ASSUME NEW f \in Fetchers, FetcherNext(f), ~CheckExists(f)
        PROVE  Pending(t.id)' \subseteq Pending(t.id)
    <2>1. fcur' \in {fcur, [fcur EXCEPT ![f] = NoTrx]}
      BY <1>2 DEF FetcherNext, FetcherSteps, Fetch, SaveFetched, FetchMalformed,
                  FetchDone, FetchFails, FetchStops
    <2>2. QED
      BY <2>1 DEF Pending, TypeOK
  <1>3. CASE UNCHANGED fetchers
    BY <1>3 DEF fetchers, Pending
  <1>4. ASSUME NEW s \in Syncers, SyncerNext(s) PROVE UNCHANGED fetchers
    BY <1>4 DEF SyncerNext, SyncerSteps, FindNotSynced, FindTruncated, SyncReads,
                StartSession, Report, ReportRefused, MarkSynced, SyncDone,
                ReportUnanswered, SyncFails
  <1>5. CASE Outside \/ UNCHANGED vars
    BY <1>3, <1>5 DEF Outside, BankPosts, BankForgets, LedgerTakesLate, vars
  <1>6. QED
    BY <1>1, <1>2, <1>3, <1>4, <1>5 DEF Next

\* What a step of a fetch does to the account of a transaction that has a row.
LEMMA FetcherPays ==
  ASSUME TypeOK, NEW f \in Fetchers, FetcherNext(f),
         NEW t \in Statements, stored[t.id] # NoTrx
  PROVE  Pays(t)
  <1>1. /\ Reports(t)' = Reports(t) /\ UNCHANGED syncers
        /\ faults' >= faults
    <2>1. faults \in Nat
      BY DEF TypeOK
    <2>2. UNCHANGED <<ledger, late, syncers>> /\ faults' \in {faults, faults + 1}
      BY DEF FetcherNext, FetcherSteps, Fetch, CheckExists, SaveFetched,
             FetchMalformed, FetchDone, FetchFails, Fault, external
    <2>3. QED
      BY <2>1, <2>2 DEF Reports
  <1>2. CASE SaveFetched(f)
    <2>1. /\ fcur[f] \in Statements /\ fcur' = [fcur EXCEPT ![f] = NoTrx]
          /\ synced' = synced \ {fcur[f].id} /\ faults' = faults
      BY <1>2 DEF SaveFetched, SavePendingTransaction, TypeOK
    <2>2. CASE fcur[f].id = t.id
      <3>1. f \in Pending(t.id) /\ Pending(t.id)' \subseteq Pending(t.id) \ {f}
        BY <2>1, <2>2 DEF Pending, TypeOK
      <3>2. QED
        BY <1>1, <2>1, <3>1 DEF Pays, SavedAgain
    <2>3. CASE fcur[f].id # t.id
      <3>1. MayReport(t)' = MayReport(t)
        BY <1>1, <2>1, <2>3 DEF MayReport, syncers
      <3>2. QED
        BY <1>1, <3>1 DEF Pays, OwesNoMore
    <2>4. QED
      BY <2>2, <2>3
  <1>3. CASE ~SaveFetched(f)
    <2>1. UNCHANGED table
      BY <1>3 DEF FetcherNext, FetcherSteps, Fetch, CheckExists, FetchMalformed,
                  FetchDone, FetchFails
    <2>2. MayReport(t)' = MayReport(t)
      BY <1>1, <2>1 DEF MayReport, syncers, table
    <2>3. QED
      BY <1>1, <2>2 DEF Pays, OwesNoMore
  <1>4. QED
    BY <1>2, <1>3

\* What a step of a sync does to it.
LEMMA SyncerPays ==
  ASSUME TypeOK, KeyedRows, NEW s \in Syncers, SyncerNext(s),
         NEW t \in Statements, stored[t.id] # NoTrx
  PROVE  Pays(t)
  <1>1. CASE Report(s) \/ ReportUnanswered(s)
    <2>1. PICK u \in stodo[s] :
            /\ u \in Statements
            /\ Reports(u)' = Reports(u) + 1
            /\ \A v \in Statements : v # u => Reports(v)' = Reports(v)
            /\ UNCHANGED synced
            /\ spc[s] = "report"
            /\ \/ scur'[s] = u /\ faults' = faults
               \/ faults' = faults + 1
      BY <1>1, OneMoreReport
    <2>2. /\ scur[s] = NoTrx /\ s \in MayReport(u)
          /\ faults \in Nat
      BY <2>1 DEF MayReport, TypeOK
    <2>3. /\ \A r \in Syncers : r # s => scur'[r] = scur[r] /\ stodo'[r] = stodo[r]
          /\ stodo'[s] \subseteq stodo[s]
      BY <1>1 DEF Report, ReportUnanswered, SyncStops, TypeOK
    <2>4. MayReport(t)' \subseteq MayReport(t)
      <3>1. scur[s] # t
        BY <2>2
      <3>2. QED
        BY <2>1, <2>3, <3>1 DEF MayReport
    <2>5. CASE t # u
      BY <2>1, <2>2, <2>4, <2>5 DEF Pays, OwesNoMore
    <2>6. CASE t = u /\ faults' = faults + 1
      BY <2>1, <2>4, <2>6 DEF Pays, ReportFails
    <2>7. CASE t = u /\ scur'[s] = u /\ faults' = faults
      <3>1. MayReport(t)' \subseteq MayReport(t) \ {s}
        BY <2>4, <2>7 DEF MayReport
      <3>2. QED
        BY <2>1, <2>2, <2>7, <3>1 DEF Pays, TakesItsTurn
    <2>8. QED
      BY <2>1, <2>5, <2>6, <2>7
  <1>2. CASE ~(Report(s) \/ ReportUnanswered(s))
    <2>1. Reports(t)' = Reports(t) /\ faults' >= faults
      <3>1. faults \in Nat
        BY DEF TypeOK
      <3>2. UNCHANGED <<ledger, late>> /\ faults' \in {faults, faults + 1}
        BY <1>2 DEF SyncerNext, SyncerSteps, FindNotSynced, FindTruncated, SyncReads,
                    StartSession, ReportRefused, MarkSynced, SyncDone, SyncFails,
                    Fault, external
      <3>3. QED
        BY <3>1, <3>2 DEF Reports
    <2>2. ASSUME NEW a \in Accounts, FindNotSynced(s, a) \/ FindTruncated(s, a)
          PROVE  OwesNoMore(t)
      <3>1. PICK rows \in SUBSET NotSyncedTransactions(a) : SyncReads(s, rows)
        BY <2>2 DEF FindNotSynced, FindTruncated
      <3>2. /\ scur' = scur /\ synced' = synced
            /\ \A r \in Syncers : r # s => stodo'[r] = stodo[r]
            /\ stodo'[s] = rows
        BY <3>1 DEF SyncReads, table, TypeOK
      <3>3. t \in rows => t.id \notin synced
        BY <3>1 DEF NotSyncedTransactions, KeyedRows
      <3>4. MayReport(t)' \subseteq MayReport(t)
        BY <3>2, <3>3 DEF MayReport
      <3>5. QED
        BY <2>1, <3>4 DEF OwesNoMore
    <2>3. CASE StartSession(s) \/ SyncDone(s)
      BY <2>1, <2>3 DEF StartSession, SyncDone, table, MayReport, OwesNoMore, Pays
    <2>4. CASE ReportRefused(s)
      <3>1. /\ scur' = [scur EXCEPT ![s] = NoTrx] /\ scur[s] = NoTrx
            /\ stodo' = [stodo EXCEPT ![s] = {}] /\ synced' = synced
        BY <2>4 DEF ReportRefused, SyncStops, table, TypeOK
      <3>2. QED
        BY <2>1, <3>1 DEF MayReport, OwesNoMore, Pays, TypeOK
    <2>5. CASE SyncFails(s)
      <3>1. /\ scur' = [scur EXCEPT ![s] = NoTrx] /\ faults' = faults + 1
            /\ stodo' = [stodo EXCEPT ![s] = {}] /\ synced' = synced
        BY <2>5 DEF SyncFails, SyncStops, Fault, table
      <3>2. MayReport(t)' \subseteq MayReport(t) \cup {s}
        BY <3>1 DEF MayReport, TypeOK
      <3>3. QED
        BY <2>1, <3>1, <3>2 DEF StartsOver, Pays
    <2>6. CASE MarkSynced(s)
      <3>1. /\ scur[s] \in Statements /\ faults' = faults
            /\ scur' = [scur EXCEPT ![s] = NoTrx]
            /\ stodo' = [stodo EXCEPT ![s] = @ \ {scur[s]}]
            /\ synced' = synced \cup {scur[s].id}
        BY <2>6 DEF MarkSynced, SavePendingTransaction, TypeOK
      <3>2. ASSUME NEW r \in MayReport(t)' PROVE r \in MayReport(t)
        <4>1. CASE r # s
          BY <3>1, <3>2, <4>1 DEF MayReport, TypeOK
        <4>2. CASE r = s
          BY <3>1, <3>2, <4>2 DEF MayReport, TypeOK
        <4>3. QED
          BY <4>1, <4>2
      <3>3. QED
        BY <2>1, <3>2 DEF OwesNoMore, Pays
    <2>7. QED
      BY <1>2, <2>2, <2>3, <2>4, <2>5, <2>6 DEF SyncerNext, SyncerSteps, Pays
  <1>3. QED
    BY <1>1, <1>2

\* What has no row is in no sync's hands after a step either.
LEMMA NoneUnstoredNext ==
  ASSUME TypeOK, KeyedRows, NoneUnstored, [Next]_vars
  PROVE  NoneUnstored'
  <1> SUFFICES ASSUME NEW t \in Statements, stored'[t.id] = NoTrx
               PROVE  /\ Reports(t)' = 0
                      /\ \A s \in Syncers : t \notin stodo'[s] /\ scur'[s] # t
    BY DEF NoneUnstored
  <1>1. stored[t.id] = NoTrx
    BY RowsStay
  <1>2. Reports(t) = 0 /\ \A s \in Syncers : t \notin stodo[s] /\ scur[s] # t
    BY <1>1 DEF NoneUnstored
  <1>3. ASSUME NEW s \in Syncers, SyncerNext(s)
        PROVE  /\ Reports(t)' = 0
               /\ \A r \in Syncers : t \notin stodo'[r] /\ scur'[r] # t
    <2>1. CASE Report(s) \/ ReportUnanswered(s)
      <3>1. PICK u \in stodo[s] :
              /\ u \in Statements
              /\ \A v \in Statements : v # u => Reports(v)' = Reports(v)
        BY <2>1, OneMoreReport
      <3>2. u # t
        BY <1>2
      <3>3. \A r \in Syncers : stodo'[r] \subseteq stodo[r]
        BY <2>1 DEF Report, ReportUnanswered, SyncStops, TypeOK
      <3>4. \A r \in Syncers : scur'[r] = scur[r] \/ scur'[r] \in stodo[r] \cup {NoTrx}
        BY <2>1 DEF Report, ReportUnanswered, SyncStops, TypeOK
      <3>5. t # NoTrx
        OBVIOUS
      <3>6. QED
        BY <1>2, <3>1, <3>2, <3>3, <3>4, <3>5
    <2>2. CASE ~(Report(s) \/ ReportUnanswered(s))
      <3>1. Reports(t)' = Reports(t)
        BY <1>3, <2>2
           DEF SyncerNext, SyncerSteps, FindNotSynced, FindTruncated, SyncReads,
               StartSession, ReportRefused, MarkSynced, SyncDone, SyncFails,
               external, Reports
      <3>2. \A r \in Syncers : scur'[r] \in {scur[r], NoTrx}
        BY <1>3, <2>2
           DEF SyncerNext, SyncerSteps, FindNotSynced, FindTruncated, SyncReads,
               StartSession, ReportRefused, MarkSynced, SyncDone, SyncFails,
               SyncStops, TypeOK
      <3>3. ASSUME NEW a \in Accounts, FindNotSynced(s, a) \/ FindTruncated(s, a)
            PROVE  \A r \in Syncers : t \notin stodo'[r]
        <4>1. PICK rows \in SUBSET NotSyncedTransactions(a) : SyncReads(s, rows)
          BY <3>3 DEF FindNotSynced, FindTruncated
        <4>2. t \notin rows
          BY <1>1, <4>1 DEF NotSyncedTransactions, KeyedRows
        <4>3. QED
          BY <1>2, <4>1, <4>2 DEF SyncReads, TypeOK
      <3>4. ASSUME \/ StartSession(s) \/ SyncDone(s) \/ MarkSynced(s)
                   \/ ReportRefused(s) \/ SyncFails(s)
            PROVE  \A r \in Syncers : t \notin stodo'[r]
        <4>1. stodo' \in {stodo, [stodo EXCEPT ![s] = @ \ {scur[s]}],
                          [stodo EXCEPT ![s] = {}]}
          BY <3>4 DEF StartSession, SyncDone, MarkSynced, ReportRefused,
                      SyncFails, SyncStops
        <4>2. QED
          BY <1>2, <4>1 DEF TypeOK
      <3>5. \A r \in Syncers : t \notin stodo'[r]
        BY <1>3, <2>2, <3>3, <3>4 DEF SyncerNext, SyncerSteps
      <3>6. QED
        BY <1>2, <3>1, <3>2, <3>5
    <2>3. QED
      BY <2>1, <2>2
  <1>4. ASSUME NEW f \in Fetchers, FetcherNext(f)
        PROVE  UNCHANGED <<ledger, late, syncers>>
    BY <1>4 DEF FetcherNext, FetcherSteps, Fetch, CheckExists, SaveFetched,
                FetchMalformed, FetchDone, FetchFails, external
  <1>5. CASE Outside \/ UNCHANGED vars
    <2>1. UNCHANGED syncers
      BY <1>5 DEF Outside, BankPosts, BankForgets, LedgerTakesLate, vars
    <2>2. QED
      BY <1>2, <1>5, <2>1, OutsideSendsNothing DEF syncers
  <1>6. QED
    BY <1>2, <1>3, <1>4, <1>5 DEF Next, syncers, Reports

\* The first save of a row opens the whole of its account.
LEMMA FirstSavePays ==
  ASSUME TypeOK, TypeOK', NoneUnstored, [Next]_vars,
         NEW t \in Statements, stored[t.id] = NoTrx, stored'[t.id] # NoTrx
  PROVE  Spent(t)' <= Budget'
  <1>1. PICK f \in Fetchers : SaveFetched(f) /\ fcur[f].id = t.id
    <2>1. ASSUME NEW s \in Syncers, SyncerNext(s) PROVE FALSE
      <3>1. MarkSynced(s)
        BY <2>1 DEF SyncerNext, SyncerSteps, FindNotSynced, FindTruncated, SyncReads,
                    StartSession, Report, ReportRefused, SyncDone, ReportUnanswered,
                    SyncFails, table
      <3>2. /\ scur[s] \in Statements
            /\ stored' = [stored EXCEPT ![scur[s].id] = scur[s]]
        BY <3>1 DEF MarkSynced, SavePendingTransaction, TypeOK
      <3>3. scur[s].id = t.id
        BY <3>2 DEF TypeOK
      <3>4. QED
        BY <3>2, <3>3 DEF NoneUnstored
    <2>2. ASSUME NEW f \in Fetchers, FetcherNext(f)
          PROVE  SaveFetched(f) /\ fcur[f].id = t.id
      <3>1. SaveFetched(f)
        BY <2>2 DEF FetcherNext, FetcherSteps, Fetch, CheckExists, FetchMalformed,
                    FetchDone, FetchFails, table
      <3>2. stored' = [stored EXCEPT ![fcur[f].id] = fcur[f]]
        BY <3>1 DEF SaveFetched, SavePendingTransaction
      <3>3. QED
        BY <3>1, <3>2 DEF TypeOK
    <2>3. ~Outside /\ ~UNCHANGED vars
      BY DEF Outside, BankPosts, BankForgets, LedgerTakesLate, vars, table
    <2>4. QED
      BY <2>1, <2>2, <2>3 DEF Next
  <1> DEFINE S == Cardinality(Syncers)
             F == Cardinality(Fetchers)
             q == Cardinality(Pending(t.id)')
             n == Cardinality(MayReport(t)')
  <1>2. S \in Nat /\ F \in Nat /\ IsFiniteSet(Fetchers)
    BY FetchersCounted, SyncersCounted
  <1>3. Reports(t)' = 0 /\ faults' \in Nat
    BY <1>1 DEF NoneUnstored, SaveFetched, external, Reports, TypeOK
  <1>4. n \in Nat /\ n <= S
    BY SyncersCounted DEF MayReport
  <1>5. q \in Nat /\ q + 1 <= F
    <2>1. Pending(t.id)' \subseteq Fetchers \ {f}
      BY <1>1 DEF SaveFetched, Pending, TypeOK
    <2>2. IsFiniteSet(Fetchers \ {f}) /\ Cardinality(Fetchers \ {f}) = F - 1
      BY <1>1, <1>2, FS_RemoveElement
    <2>3. q <= F - 1
      BY <2>1, <2>2, FS_Subset
    <2>4. q \in Nat
      BY FetchersCounted DEF Pending
    <2>5. QED
      BY <2>3, <2>4, <1>2
  <1>6. /\ (q + 1) * S <= F * S /\ (q + 1) * S = q * S + S
        /\ q * S \in Nat /\ F * S \in Nat
    BY <1>2, <1>5, TimesMonotone
  <1>7. ASSUME Reports(t)' + q * S + n <= faults' + F * S
        PROVE  Spent(t)' <= Budget'
    BY <1>7 DEF Spent, Budget
  <1> HIDE DEF S, F, q, n
  <1>8. QED
    BY <1>2, <1>3, <1>4, <1>6, <1>7

LEMMA CountNext == CountInv /\ [Next]_vars => CountInv'
  <1> SUFFICES ASSUME CountInv, [Next]_vars PROVE CountInv'
    OBVIOUS
  <1>1. TypeOK /\ TypeOK' /\ KeyedRows /\ KeyedRows' /\ NoneUnstored /\ NoneUnstored'
    BY TypeNext, RowsStay, NoneUnstoredNext DEF CountInv
  <1>2. ASSUME NEW t \in Statements, stored'[t.id] # NoTrx PROVE Spent(t)' <= Budget'
    <2>1. CASE stored[t.id] = NoTrx
      BY <1>1, <1>2, <2>1, FirstSavePays
    <2>2. CASE stored[t.id] # NoTrx
      <3>1. Spent(t) <= Budget /\ Pending(t.id)' \subseteq Pending(t.id)
        BY <1>1, <2>2, PendingShrinks DEF CountInv, PaidFor
      <3>2. Pays(t)
        <4>1. CASE Outside \/ UNCHANGED vars
          <5>1. Reports(t)' = Reports(t)
            BY <1>1, <4>1, OutsideSendsNothing
          <5>2. UNCHANGED <<table, syncers, faults>>
            BY <4>1 DEF Outside, BankPosts, BankForgets, LedgerTakesLate, vars
          <5>3. MayReport(t)' = MayReport(t) /\ faults' >= faults
            BY <1>1, <5>2 DEF MayReport, table, syncers, TypeOK
          <5>4. QED
            BY <5>1, <5>3 DEF Pays, OwesNoMore
        <4>2. QED
          BY <1>1, <2>2, <4>1, FetcherPays, SyncerPays DEF Next
      <3>3. QED
        BY <1>1, <3>1, <3>2, PaysKeepsBudget
    <2>3. QED
      BY <2>1, <2>2
  <1>3. QED
    BY <1>1, <1>2 DEF CountInv, PaidFor

(* For every finite number of fetches and syncs, however they overlap: a   *)
(* transaction is reported at most once by each sync for each fetch that   *)
(* found its row missing, and once more for each failure.                  *)
THEOREM DuplicatesArePaidFor == Spec => []DuplicatesNeedFaults
  <1>1. Init => CountInv
    BY TypeInit DEF Init, CountInv, KeyedRows, NoneUnstored, PaidFor, Reports
  <1>2. CountInv => DuplicatesNeedFaults
    <2> SUFFICES ASSUME CountInv, NEW t \in Statements
                 PROVE  Reports(t) <= Budget
      BY DEF DuplicatesNeedFaults, Budget
    <2>1. /\ Cardinality(Fetchers) \in Nat /\ Cardinality(Syncers) \in Nat
          /\ Cardinality(Pending(t.id)) \in Nat /\ Cardinality(MayReport(t)) \in Nat
      BY FetchersCounted, SyncersCounted DEF Pending, MayReport
    <2>2. /\ Cardinality(Pending(t.id)) * Cardinality(Syncers) \in Nat
          /\ Cardinality(Fetchers) * Cardinality(Syncers) \in Nat
      BY <2>1, TimesMonotone
    <2>3. Reports(t) \in Nat /\ faults \in Nat
      BY DEF CountInv, TypeOK, Reports
    <2>4. CASE stored[t.id] = NoTrx
      BY <2>2, <2>3, <2>4 DEF CountInv, NoneUnstored, Budget
    <2>5. CASE stored[t.id] # NoTrx
      <3>1. Spent(t) <= Budget
        BY <2>5 DEF CountInv, PaidFor
      <3>2. QED
        BY <2>1, <2>2, <2>3, <3>1 DEF Spent, Budget
    <2>6. QED
      BY <2>4, <2>5
  <1>3. QED
    BY <1>1, <1>2, CountNext, PTL DEF Spec

-----------------------------------------------------------------------------
(* Slices are finite, for the bank and the table only ever hold what was   *)
(* put there one by one; and what a sync is about to mark is in its slice. *)

Recorded == {i \in Ids : stored[i] # NoTrx}

FiniteInv ==
  /\ TypeOK
  /\ IsFiniteSet(bank)
  /\ IsFiniteSet(Recorded)
  /\ \A f \in Fetchers : IsFiniteSet(todo[f])
  /\ \A s \in Syncers : IsFiniteSet(stodo[s])
  /\ AtHandIsQueued

LEMMA RowsReadAreFinite ==
  ASSUME FiniteInv, NEW a \in Accounts
  PROVE  IsFiniteSet(NotSyncedTransactions(a))
  <1> DEFINE read == {j \in Ids \ synced : stored[j] # NoTrx /\ stored[j].acc = a}
             row  == [j \in read |-> stored[j]]
  <1>1. IsFiniteSet(read)
    <2>1. read \subseteq Recorded
      BY DEF Recorded
    <2>2. QED
      BY <2>1, FS_Subset DEF FiniteInv
  <1>2. row \in Surjection(read, NotSyncedTransactions(a))
    BY DEF Surjection, NotSyncedTransactions
  <1>3. QED
    BY <1>1, <1>2, FS_Surjection

LEMMA FetcherSlices ==
  ASSUME FiniteInv, NEW f \in Fetchers, FetcherNext(f)
  PROVE  \A g \in Fetchers : IsFiniteSet(todo'[g])
  <1>t. todo \in [Fetchers -> SUBSET Statements]
    BY DEF FiniteInv, TypeOK
  <1>1. ASSUME NEW a \in Accounts, Fetch(f, a)
        PROVE  todo'[f] \subseteq bank /\ \A g \in Fetchers \ {f} : todo'[g] = todo[g]
    BY <1>1, <1>t DEF Fetch
  <1>2. ASSUME FetcherSteps(f) \/ FetchFails(f)
        PROVE  todo'[f] \subseteq todo[f] /\ \A g \in Fetchers \ {f} : todo'[g] = todo[g]
    BY <1>2, <1>t DEF FetcherSteps, CheckExists, SaveFetched, FetchMalformed, FetchDone,
                      FetchFails, FetchStops
  <1>3. IsFiniteSet(todo'[f])
    BY <1>1, <1>2, FS_Subset DEF FetcherNext, FiniteInv
  <1>4. QED
    BY <1>1, <1>2, <1>3 DEF FetcherNext, FiniteInv

LEMMA SyncerSlices ==
  ASSUME FiniteInv, NEW s \in Syncers, SyncerNext(s)
  PROVE  /\ \A r \in Syncers : IsFiniteSet(stodo'[r])
         /\ AtHandIsQueued'
  <1>t. TypeOK /\ AtHandIsQueued
    BY DEF FiniteInv
  <1> USE <1>t DEF TypeOK, AtHandIsQueued
  <1> DEFINE Others == \A r \in Syncers \ {s} :
                stodo'[r] = stodo[r] /\ spc'[r] = spc[r] /\ scur'[r] = scur[r]
  <1>1. ASSUME NEW a \in Accounts, FindNotSynced(s, a) \/ FindTruncated(s, a)
        PROVE  stodo'[s] \subseteq NotSyncedTransactions(a) /\ spc'[s] # "mark" /\ Others
    <2>1. ASSUME NEW rows, rows \subseteq NotSyncedTransactions(a), SyncReads(s, rows)
          PROVE  stodo'[s] \subseteq NotSyncedTransactions(a) /\ spc'[s] # "mark" /\ Others
      BY <2>1 DEF SyncReads
    <2>2. QED
      BY <1>1, <2>1 DEF FindNotSynced, FindTruncated
  <1>2. ASSUME SyncerSteps(s) \/ ReportUnanswered(s) \/ SyncFails(s)
        PROVE  /\ stodo'[s] \subseteq stodo[s]
               /\ spc'[s] = "mark" => scur'[s] \in stodo'[s]
               /\ Others
    <2>1. CASE SyncStops(s)
      BY <2>1 DEF SyncStops
    <2>2. CASE StartSession(s) \/ SyncDone(s)
      BY <2>2 DEF StartSession, SyncDone
    <2>3. CASE Report(s)
      BY <2>3 DEF Report
    <2>4. CASE MarkSynced(s)
      BY <2>4 DEF MarkSynced
    <2>5. QED
      BY <1>2, <2>1, <2>2, <2>3, <2>4
         DEF SyncerSteps, ReportUnanswered, SyncFails, ReportRefused
  <1>3. IsFiniteSet(stodo'[s])
    BY <1>1, <1>2, RowsReadAreFinite, FS_Subset DEF SyncerNext, FiniteInv
  <1>4. AtHandIsQueued'
    BY <1>1, <1>2 DEF SyncerNext
  <1>5. \A r \in Syncers : IsFiniteSet(stodo'[r])
    BY <1>1, <1>2, <1>3 DEF SyncerNext, FiniteInv
  <1>6. QED
    BY <1>4, <1>5

LEMMA FiniteNext == FiniteInv /\ [Next]_vars => FiniteInv'
  <1> SUFFICES ASSUME FiniteInv, [Next]_vars PROVE FiniteInv'
    OBVIOUS
  <1>t. TypeOK /\ TypeOK'
    BY TypeNext DEF FiniteInv
  <1>1. IsFiniteSet(Recorded')
    <2>1. CASE UNCHANGED table
      BY <2>1 DEF FiniteInv, Recorded, table
    <2>2. ASSUME NEW t \in Statements, RowWritten(t) PROVE IsFiniteSet(Recorded')
      <3>1. Recorded' \subseteq Recorded \cup {t.id}
        BY <2>2, <1>t DEF RowWritten, SavePendingTransaction, Recorded, TypeOK
      <3>2. QED
        BY <3>1, FS_AddElement, FS_Subset DEF FiniteInv
    <2>3. QED
      BY <1>t, <2>1, <2>2, TableSteps
  <1>2. ASSUME NEW f \in Fetchers, FetcherNext(f) PROVE FiniteInv'
    <2>1. UNCHANGED <<bank, syncers>>
      BY <1>2 DEF FetcherNext, FetcherSteps, Fetch, CheckExists, SaveFetched,
                  FetchMalformed, FetchDone, FetchFails, external
    <2>2. QED
      BY <1>1, <1>2, <1>t, <2>1, FetcherSlices DEF FiniteInv, AtHandIsQueued, syncers
  <1>3. ASSUME NEW s \in Syncers, SyncerNext(s) PROVE FiniteInv'
    <2>1. UNCHANGED <<bank, fetchers>>
      BY <1>3 DEF SyncerNext, SyncerSteps, FindNotSynced, FindTruncated, SyncReads,
                  StartSession, Report, ReportRefused, MarkSynced, SyncDone,
                  ReportUnanswered, SyncFails, external
    <2>2. QED
      BY <1>1, <1>3, <1>t, <2>1, SyncerSlices DEF FiniteInv, fetchers
  <1>4. CASE Outside \/ UNCHANGED vars
    <2>1. IsFiniteSet(bank')
      <3>1. ASSUME NEW t \in Statements, bank' \subseteq bank \cup {t}
            PROVE  IsFiniteSet(bank')
        BY <3>1, FS_AddElement, FS_Subset DEF FiniteInv
      <3>2. CASE bank' = bank
        BY <3>2 DEF FiniteInv
      <3>3. QED
        BY <1>4, <3>1, <3>2 DEF Outside, BankPosts, BankForgets, LedgerTakesLate,
                                vars, external
    <2>2. UNCHANGED <<todo, spc, stodo, scur>>
      BY <1>4 DEF Outside, BankPosts, BankForgets, LedgerTakesLate, vars, fetchers, syncers
    <2>3. QED
      BY <1>1, <1>t, <2>1, <2>2 DEF FiniteInv, AtHandIsQueued
  <1>5. QED
    BY <1>2, <1>3, <1>4 DEF Next

LEMMA FiniteInit == Init => FiniteInv
  <1> SUFFICES ASSUME Init PROVE FiniteInv
    OBVIOUS
  <1>1. Recorded = {}
    BY DEF Init, Recorded
  <1>2. QED
    BY <1>1, TypeInit, FS_EmptySet DEF Init, FiniteInv, AtHandIsQueued

\* The number of steps that are left is one, and an element that is taken from a
\* slice counts.
LEMMA LeftAreNumbers ==
  ASSUME FiniteInv
  PROVE  /\ \A f \in Fetchers : Cardinality(todo[f]) \in Nat /\ FetchStepsLeft(f) \in Nat
         /\ \A s \in Syncers : Cardinality(stodo[s]) \in Nat /\ SyncStepsLeft(s) \in Nat
  <1>1. \A f \in Fetchers : Cardinality(todo[f]) \in Nat
    BY FS_CardinalityType DEF FiniteInv
  <1>2. \A s \in Syncers : Cardinality(stodo[s]) \in Nat
    BY FS_CardinalityType DEF FiniteInv
  <1>3. QED
    BY <1>1, <1>2 DEF FetchStepsLeft, SyncStepsLeft

LEMMA LeftAreNumbersNext ==
  ASSUME FiniteInv, [Next]_vars
  PROVE  /\ \A f \in Fetchers : Cardinality(todo'[f]) \in Nat /\ FetchStepsLeft(f)' \in Nat
         /\ \A s \in Syncers : Cardinality(stodo'[s]) \in Nat /\ SyncStepsLeft(s)' \in Nat
  <1>t. FiniteInv'
    BY FiniteNext
  <1>1. \A f \in Fetchers : Cardinality(todo'[f]) \in Nat
    BY <1>t, FS_CardinalityType DEF FiniteInv
  <1>2. \A s \in Syncers : Cardinality(stodo'[s]) \in Nat
    BY <1>t, FS_CardinalityType DEF FiniteInv
  <1>3. QED
    BY <1>1, <1>2 DEF FetchStepsLeft, SyncStepsLeft

LEMMA OneLess ==
  ASSUME NEW S, IsFiniteSet(S), NEW t \in S
  PROVE  /\ Cardinality(S \ {t}) \in Nat
         /\ Cardinality(S) = Cardinality(S \ {t}) + 1
  <1>1. IsFiniteSet(S \ {t}) /\ Cardinality(S \ {t}) = Cardinality(S) - 1
    BY FS_RemoveElement
  <1>2. Cardinality(S) \in Nat /\ Cardinality(S \ {t}) \in Nat
    BY <1>1, FS_CardinalityType
  <1>3. QED
    BY <1>1, <1>2

LEMMA FetcherStepsDown ==
  ASSUME FiniteInv, NEW f \in Fetchers, FetcherSteps(f)
  PROVE  FetchStepsLeft(f)' < FetchStepsLeft(f)
  <1>t. TypeOK /\ IsFiniteSet(todo[f])
    BY DEF FiniteInv
  <1> USE <1>t, LeftAreNumbers DEF FetchStepsLeft, TypeOK
  <1>1. CASE CheckExists(f)
    <2>1. PICK t \in todo[f] : todo' = [todo EXCEPT ![f] = @ \ {t}]
      BY <1>1 DEF CheckExists
    <2>2. todo'[f] = todo[f] \ {t}
      BY <2>1
    <2>3. fpc[f] = "check" /\ fpc'[f] \in {"check", "save"}
      BY <1>1 DEF CheckExists
    <2>4. QED
      BY <2>2, <2>3, OneLess
  <1>2. CASE SaveFetched(f)
    BY <1>2 DEF SaveFetched
  <1>3. CASE FetchMalformed(f)
    BY <1>3 DEF FetchMalformed, FetchStops
  <1>4. CASE FetchDone(f)
    <2>1. fpc[f] = "check" /\ fpc'[f] = "done"
      BY <1>4 DEF FetchDone
    <2>2. QED
      BY <2>1
  <1>5. QED
    BY <1>1, <1>2, <1>3, <1>4 DEF FetcherSteps

LEMMA SyncerStepsDown ==
  ASSUME FiniteInv, NEW s \in Syncers, SyncerSteps(s)
  PROVE  SyncStepsLeft(s)' < SyncStepsLeft(s)
  <1>t. TypeOK /\ IsFiniteSet(stodo[s])
    BY DEF FiniteInv
  <1> USE <1>t, LeftAreNumbers DEF SyncStepsLeft, TypeOK
  <1>1. CASE MarkSynced(s)
    <2>1. stodo'[s] = stodo[s] \ {scur[s]} /\ spc[s] = "mark" /\ spc'[s] = "report"
      BY <1>1 DEF MarkSynced
    <2>2. scur[s] \in stodo[s]
      BY <2>1 DEF FiniteInv, AtHandIsQueued
    <2>3. QED
      BY <2>1, <2>2, OneLess
  <1>2. CASE StartSession(s)
    BY <1>2 DEF StartSession
  <1>3. CASE Report(s)
    BY <1>3 DEF Report
  <1>4. CASE ReportRefused(s)
    BY <1>4 DEF ReportRefused, SyncStops
  <1>5. CASE SyncDone(s)
    <2>1. spc[s] = "report" /\ spc'[s] = "done"
      BY <1>5 DEF SyncDone
    <2>2. QED
      BY <2>1
  <1>6. QED
    BY <1>1, <1>2, <1>3, <1>4, <1>5 DEF SyncerSteps

\* What does not start a command adds no step to it.
LEMMA FetchNotLonger ==
  ASSUME FiniteInv, [Next]_vars, NEW f \in Fetchers, ~\E a \in Accounts : Fetch(f, a)
  PROVE  FetchStepsLeft(f)' <= FetchStepsLeft(f)
  <1>t. TypeOK
    BY DEF FiniteInv
  <1> USE <1>t, LeftAreNumbers DEF TypeOK
  <1>1. CASE FetcherSteps(f)
    <2>1. FetchStepsLeft(f)' < FetchStepsLeft(f)
      BY <1>1, FetcherStepsDown
    <2>2. FetchStepsLeft(f)' \in Nat /\ FetchStepsLeft(f) \in Nat
      BY LeftAreNumbersNext
    <2>3. QED
      BY <2>1, <2>2
  <1>2. CASE FetchFails(f)
    BY <1>2 DEF FetchFails, FetchStops, FetchStepsLeft
  <1>3. ASSUME fpc'[f] = fpc[f], todo'[f] = todo[f]
        PROVE  FetchStepsLeft(f)' <= FetchStepsLeft(f)
    BY <1>3 DEF FetchStepsLeft
  <1>4. ASSUME NEW g \in Fetchers \ {f}, FetcherNext(g)
        PROVE  fpc'[f] = fpc[f] /\ todo'[f] = todo[f]
    BY <1>4 DEF FetcherNext, FetcherSteps, Fetch, CheckExists, SaveFetched,
                FetchMalformed, FetchDone, FetchFails, FetchStops
  <1>5. CASE Outside \/ (\E s \in Syncers : SyncerNext(s)) \/ UNCHANGED vars
    <2>1. UNCHANGED fetchers
      BY <1>5 DEF Outside, BankPosts, BankForgets, LedgerTakesLate, SyncerNext,
                  SyncerSteps, FindNotSynced, FindTruncated, SyncReads, StartSession,
                  Report, ReportRefused, MarkSynced, SyncDone, ReportUnanswered,
                  SyncFails, vars
    <2>2. QED
      BY <2>1, <1>3 DEF fetchers
  <1>6. QED
    BY <1>1, <1>2, <1>3, <1>4, <1>5 DEF Next, FetcherNext

LEMMA SyncNotLonger ==
  ASSUME FiniteInv, [Next]_vars, NEW s \in Syncers,
         ~\E a \in Accounts : FindNotSynced(s, a) \/ FindTruncated(s, a)
  PROVE  SyncStepsLeft(s)' <= SyncStepsLeft(s)
  <1>t. TypeOK
    BY DEF FiniteInv
  <1> USE <1>t, LeftAreNumbers DEF TypeOK
  <1>1. CASE SyncerSteps(s)
    <2>1. SyncStepsLeft(s)' < SyncStepsLeft(s)
      BY <1>1, SyncerStepsDown
    <2>2. SyncStepsLeft(s)' \in Nat /\ SyncStepsLeft(s) \in Nat
      BY LeftAreNumbersNext
    <2>3. QED
      BY <2>1, <2>2
  <1>2. CASE ReportUnanswered(s) \/ SyncFails(s)
    BY <1>2 DEF ReportUnanswered, SyncFails, SyncStops, SyncStepsLeft
  <1>3. ASSUME spc'[s] = spc[s], stodo'[s] = stodo[s]
        PROVE  SyncStepsLeft(s)' <= SyncStepsLeft(s)
    BY <1>3 DEF SyncStepsLeft
  <1>4. ASSUME NEW r \in Syncers \ {s}, SyncerNext(r)
        PROVE  spc'[s] = spc[s] /\ stodo'[s] = stodo[s]
    <2>1. ASSUME NEW rows, SyncReads(r, rows)
          PROVE  spc'[s] = spc[s] /\ stodo'[s] = stodo[s]
      BY <2>1 DEF SyncReads
    <2>2. CASE \E a \in Accounts : FindNotSynced(r, a) \/ FindTruncated(r, a)
      BY <2>1, <2>2 DEF FindNotSynced, FindTruncated
    <2>3. CASE SyncerSteps(r) \/ ReportUnanswered(r) \/ SyncFails(r)
      BY <2>3 DEF SyncerSteps, StartSession, Report, ReportRefused, MarkSynced,
                  SyncDone, ReportUnanswered, SyncFails, SyncStops
    <2>4. QED
      BY <1>4, <2>2, <2>3 DEF SyncerNext
  <1>5. CASE Outside \/ (\E f \in Fetchers : FetcherNext(f)) \/ UNCHANGED vars
    <2>1. UNCHANGED syncers
      BY <1>5 DEF Outside, BankPosts, BankForgets, LedgerTakesLate, FetcherNext,
                  FetcherSteps, Fetch, CheckExists, SaveFetched, FetchMalformed,
                  FetchDone, FetchFails, vars
    <2>2. QED
      BY <2>1, <1>3 DEF syncers
  <1>6. QED
    BY <1>1, <1>2, <1>3, <1>4, <1>5 DEF Next, SyncerNext

(* For any number of commands at once, each of them ends by itself: what   *)
(* the others do to the table and to the bank's window never gives it a    *)
(* step more than it had when it was started.                              *)
THEOREM EveryRunEnds == Spec => RunsEnd
  <1>1. ASSUME FiniteInv, [Next]_vars
        PROVE  /\ \A f \in Fetchers : FetchStepsGoDown(f)
               /\ \A s \in Syncers : SyncStepsGoDown(s)
    <2>1. ASSUME NEW f \in Fetchers PROVE FetchStepsGoDown(f)
      <3>1. FetchStepsLeft(f) \in Nat /\ FetchStepsLeft(f)' \in Nat
        BY <1>1, LeftAreNumbers, LeftAreNumbersNext
      <3>2. QED
        BY <1>1, <3>1, FetcherStepsDown, FetchNotLonger DEF FetchStepsGoDown
    <2>2. ASSUME NEW s \in Syncers PROVE SyncStepsGoDown(s)
      <3>1. SyncStepsLeft(s) \in Nat /\ SyncStepsLeft(s)' \in Nat
        BY <1>1, LeftAreNumbers, LeftAreNumbersNext
      <3>2. QED
        BY <1>1, <3>1, SyncerStepsDown, SyncNotLonger DEF SyncStepsGoDown
    <2>3. QED
      BY <2>1, <2>2
  <1>2. FiniteInv /\ [Next]_vars
          => [/\ \A f \in Fetchers : FetchStepsGoDown(f)
              /\ \A s \in Syncers : SyncStepsGoDown(s)]_vars
    BY <1>1
  <1>3. QED
    BY <1>2, FiniteInit, FiniteNext, PTL DEF Spec, RunsEnd
=============================================================================
