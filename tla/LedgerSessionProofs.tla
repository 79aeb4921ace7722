------------------------- MODULE LedgerSessionProofs -------------------------
(***************************************************************************)
(* What holds of a session with the ledger for any number of transactions, *)
(* open files and failures.                                                *)
(***************************************************************************)
EXTENDS LedgerSession, FiniteSetTheorems, TLAPS

USE NoTrxAssumption, BoundsAssumption
USE DEF table, ledger, api, request, history, Fault

Flags ==
  /\ site \in BOOLEAN /\ live \in BOOLEAN /\ kept \in BOOLEAN
  /\ session \in BOOLEAN /\ csrfToken \in BOOLEAN

LEMMA TypeInit == Init => TypeOK
  <1> SUFFICES ASSUME Init PROVE TypeOK
    OBVIOUS
  <1>1. Flags
    BY Zenon DEF Init, Flags
  <1>2. QED
    BY <1>1 DEF Init, TypeOK, Flags

LEMMA TypeNext == TypeOK /\ [Next]_vars => TypeOK'
  <1> SUFFICES ASSUME TypeOK, [Next]_vars PROVE TypeOK'
    OBVIOUS
  <1> USE DEF TypeOK, FileLeft
  <1>1. CASE \E t \in Trxs : Record(t) \/ LedgerGetsLate(t)
    <2>1. ASSUME NEW t \in Trxs, Record(t) PROVE TypeOK'
      BY <2>1 DEF Record
    <2>2. ASSUME NEW t \in Trxs, LedgerGetsLate(t) PROVE TypeOK'
      BY <2>2 DEF LedgerGetsLate, LedgerTakes
    <2>3. QED
      BY <1>1, <2>1, <2>2
  <1>2. CASE SessionEnds \/ FindNotSynced \/ Accounts
    <2>1. Flags'
      BY Zenon, <1>2 DEF SessionEnds, FindNotSynced, Accounts, Flags
    <2>2. QED
      BY <2>1, <1>2 DEF SessionEnds, FindNotSynced, Accounts, Flags
  <1>3. CASE NewAPI
    BY <1>3 DEF NewAPI
  <1>4. CASE ListAccounts \/ MarkFails \/ ReportFails \/ SyncDone
    <2>1. Flags'
      BY Zenon, <1>4 DEF ListAccounts, MarkFails, ReportFails, SyncDone, Stop, Flags
    <2>2. QED
      BY <2>1, <1>4 DEF ListAccounts, MarkFails, ReportFails, SyncDone, Stop, Flags
  <1>5. ASSUME NEW t \in Trxs, ReportPendingTransaction(t) PROVE TypeOK'
    <2>1. Flags'
      BY Zenon, <1>5 DEF ReportPendingTransaction, Flags
    <2>2. pc = "report" /\ conns' = conns /\ conns < MaxFiles /\ kept' = FALSE
      BY <1>5 DEF ReportPendingTransaction
    <2>3. FileLeft'
      BY <2>2 DEF FileLeft
    <2> HIDE DEF FileLeft
    <2>4. QED
      BY <2>1, <2>2, <2>3, <1>5 DEF ReportPendingTransaction, Flags
  <1>6. CASE LedgerTakesReport
    BY <1>6 DEF LedgerTakesReport, LedgerTakes
  <1>7. CASE LedgerTurnsAway \/ Do
    BY <1>7 DEF LedgerTurnsAway, Do
  <1>8. CASE LedgerErrs
    BY <1>8 DEF LedgerErrs, LedgerTakes
  <1>9. CASE ReportSucceeds
    BY <1>9 DEF ReportSucceeds
  <1>10. CASE MarkSynced
    BY <1>10 DEF MarkSynced
  <1>11. CASE Fails
    <2>1. Flags'
      BY Zenon, <1>11 DEF Fails, Stop, Flags
    <2>2. late' \in [Trxs -> Nat] /\ faults' \in 0..MaxFaults
      BY <1>11 DEF Fails
    <2>3. QED
      BY <2>1, <2>2, <1>11 DEF Fails, Stop, Flags
  <1>12. CASE UNCHANGED vars
    <2>1. Flags'
      BY Zenon, <1>12 DEF vars, Flags
    <2>2. QED
      BY <2>1, <1>12 DEF vars, Flags
  <1>13. QED
    BY <1>1, <1>2, <1>3, <1>4, <1>5, <1>6, <1>7, <1>8, <1>9, <1>10, <1>11, <1>12
       DEF Next, Outside, Steps

(* A transaction is at hand exactly while it is reported or about to be    *)
(* marked, and its row is not marked then.                                 *)
THEOREM TypeCorrect == Spec => []TypeOK
  <1>1. QED
    BY TypeInit, TypeNext, PTL DEF Spec

-----------------------------------------------------------------------------
(* A report gets to the sign-in page only through a redirect, and without  *)
(* a complete session only after a failure.                                *)

SessionInv ==
  /\ TypeOK
  /\ LossesNeedSignIn
  /\ wire \in {"toSignIn", "signIn"} => site /\ faults > 0
  /\ pc \in {"report", "mark"} /\ ~SignedIn => faults > 0

LEMMA SessionInit == Init => SessionInv
  BY TypeInit DEF Init, SessionInv, LossesNeedSignIn

LEMMA SessionNext == SessionInv /\ [Next]_vars => SessionInv'
  <1> SUFFICES ASSUME SessionInv, [Next]_vars PROVE SessionInv'
    OBVIOUS
  <1>t. TypeOK /\ TypeOK'
    BY TypeNext DEF SessionInv
  <1> USE <1>t DEF TypeOK, SessionInv, LossesNeedSignIn, SignedIn
  <1>1. CASE Outside
    BY <1>1 DEF Outside, Record, LedgerGetsLate, SessionEnds
  <1>2. CASE FindNotSynced \/ Accounts \/ NewAPI
    BY <1>2 DEF FindNotSynced, Accounts, NewAPI
  <1>3. CASE ListAccounts \/ MarkFails \/ ReportFails \/ SyncDone \/ Fails
    BY <1>3 DEF ListAccounts, MarkFails, ReportFails, SyncDone, Fails, Stop
  <1>4. CASE \E t \in Trxs : ReportPendingTransaction(t)
    BY <1>4 DEF ReportPendingTransaction
  <1>5. CASE LedgerTakesReport \/ LedgerTurnsAway \/ LedgerErrs
    BY <1>5 DEF LedgerTakesReport, LedgerTurnsAway, LedgerErrs
  <1>6. CASE Do \/ ReportSucceeds
    BY <1>6 DEF Do, ReportSucceeds
  <1>7. CASE MarkSynced
    BY <1>7 DEF MarkSynced
  <1>8. CASE UNCHANGED vars
    BY <1>8 DEF vars
  <1>9. QED
    BY <1>1, <1>2, <1>3, <1>4, <1>5, <1>6, <1>7, <1>8 DEF Next, Steps

(* No row is lost to the sign-in page by a ledger that answers with error  *)
(* statuses, nor without a failure.                                        *)
THEOREM NoSilentLoss == Spec => []LossesNeedSignIn
  <1>1. SessionInv => LossesNeedSignIn
    BY DEF SessionInv
  <1>2. QED
    BY <1>1, SessionInit, SessionNext, PTL DEF Spec

-----------------------------------------------------------------------------
(* Of every transaction that is neither marked nor being reported, and of  *)
(* one whose report has failed or is not answered yet, no more reports     *)
(* were made than failures happened and marks were lost.  In every run     *)
(* each connection that is used up, but for that of the report about to be *)
(* marked, has a marked row to it, and so has each mark lost before        *)
(* MaxFiles - 1 of them.                                                   *)

PaidFor(t) == taken[t] + late[t] <= faults + lostMarks

CountInv ==
  /\ TypeOK
  /\ \A t \in Trxs : taken[t] + late[t] <= faults + lostMarks + 1
  /\ \A t \in Trxs \ marked : t # cur => PaidFor(t)
  /\ wire \in {"sent", "toSignIn", "signIn", "error"} => PaidFor(cur)

Lost == lostMarks * (MaxFiles - 1)

UsedUp == Lost + conns

LostInv ==
  /\ TypeOK
  /\ Lost <= Cardinality(marked)
  /\ UsedUp <= Cardinality(marked) + (IF pc = "mark" /\ ~kept THEN 1 ELSE 0)

LEMMA CountInit == Init => CountInv
  BY TypeInit DEF Init, CountInv, PaidFor

LEMMA CountNext == CountInv /\ [Next]_vars => CountInv'
  <1> SUFFICES ASSUME CountInv, [Next]_vars PROVE CountInv'
    OBVIOUS
  <1>t. TypeOK /\ TypeOK'
    BY TypeNext DEF CountInv
  <1> USE <1>t DEF TypeOK, CountInv, PaidFor
  <1>1. CASE \E t \in Trxs : Record(t) \/ LedgerGetsLate(t)
    <2>1. ASSUME NEW t \in Trxs, Record(t) PROVE CountInv'
      BY <2>1 DEF Record
    <2>2. ASSUME NEW t \in Trxs, LedgerGetsLate(t) PROVE CountInv'
      <3>1. \A u \in Trxs : taken'[u] + late'[u] <= taken[u] + late[u]
        BY <2>2 DEF LedgerGetsLate, LedgerTakes
      <3>2. QED
        BY <2>2, <3>1 DEF LedgerGetsLate
    <2>3. QED
      BY <1>1, <2>1, <2>2
  <1>2. CASE SessionEnds \/ FindNotSynced \/ Accounts \/ NewAPI
    BY <1>2 DEF SessionEnds, FindNotSynced, Accounts, NewAPI
  <1>3. CASE ListAccounts \/ MarkFails \/ ReportFails \/ SyncDone
    <2>1. CASE MarkFails
      BY <2>1 DEF MarkFails, Stop
    <2>2. QED
      BY <1>3, <2>1 DEF ListAccounts, ReportFails, SyncDone, Stop
  <1>4. CASE \E t \in Trxs : ReportPendingTransaction(t)
    BY <1>4 DEF ReportPendingTransaction
  <1>5. CASE LedgerTakesReport
    <2>1. cur \in Trxs /\ PaidFor(cur)
      BY <1>5 DEF LedgerTakesReport
    <2>2. taken' = [taken EXCEPT ![cur] = @ + 1]
      BY <1>5 DEF LedgerTakesReport, LedgerTakes
    <2>3. wire' \in {"ok", "bare", "toPage"}
      BY <1>5 DEF LedgerTakesReport
    <2>4. QED
      BY <1>5, <2>1, <2>2, <2>3 DEF LedgerTakesReport
  <1>6. CASE LedgerErrs
    <2>1. cur \in Trxs /\ PaidFor(cur)
      BY <1>6 DEF LedgerErrs
    <2>2. \A u \in Trxs : /\ taken'[u] <= taken[u] + 1
                          /\ u # cur => taken'[u] = taken[u]
      BY <1>6, <2>1 DEF LedgerErrs, LedgerTakes
    <2>3. QED
      BY <1>6, <2>1, <2>2 DEF LedgerErrs
  <1>7. CASE LedgerTurnsAway \/ Do
    BY <1>7 DEF LedgerTurnsAway, Do
  <1>8. CASE ReportSucceeds
    BY <1>8 DEF ReportSucceeds
  <1>9. CASE MarkSynced
    BY <1>9 DEF MarkSynced
  <1>10. CASE Fails
    <2>1. faults' = faults + 1 /\ taken' = taken /\ marked' = marked /\ lostMarks' = lostMarks
          /\ wire' = "idle" /\ cur' = NoTrx
      BY <1>10 DEF Fails, Stop
    <2>2. \A u \in Trxs : taken[u] + late'[u] <= faults + lostMarks + 1 \/ u \in marked
      BY <1>10 DEF Fails
    <2>3. \A u \in Trxs : late'[u] <= late[u] + 1
      BY <1>10 DEF Fails
    <2>4. QED
      BY <2>1, <2>2, <2>3
  <1>11. CASE UNCHANGED vars
    BY <1>11 DEF vars
  <1>12. QED
    BY <1>1, <1>2, <1>3, <1>4, <1>5, <1>6, <1>7, <1>8, <1>9, <1>10, <1>11
       DEF Next, Outside, Steps

LEMMA MarkedAreFinite ==
  ASSUME TypeOK
  PROVE  IsFiniteSet(marked) /\ Cardinality(marked) \in Nat
  BY TrxsAssumption, FS_Subset, FS_CardinalityType DEF TypeOK

LEMMA LostAgain ==
  ASSUME lostMarks \in Nat, lostMarks' = lostMarks + 1
  PROVE  Lost \in Nat /\ Lost' = Lost + MaxFiles - 1
  <1>1. \A x, y \in Int : (x + 1) * y = x * y + y
    OBVIOUS
  <1>2. \A x, y \in Nat : x * y \in Nat
    OBVIOUS
  <1>3. MaxFiles - 1 \in Nat
    OBVIOUS
  <1>4. Lost' = (lostMarks + 1) * (MaxFiles - 1)
    BY DEF Lost
  <1>5. QED
    BY <1>1, <1>2, <1>3, <1>4 DEF Lost

LEMMA LostStays ==
  ASSUME UNCHANGED lostMarks
  PROVE  Lost' = Lost
  BY DEF Lost

LEMMA LostInit == Init => LostInv
  <1> SUFFICES ASSUME Init PROVE LostInv
    OBVIOUS
  <1>1. \A y \in Int : 0 * y = 0
    OBVIOUS
  <1>2. Lost = 0
    BY <1>1 DEF Init, Lost
  <1>3. QED
    BY <1>2, TypeInit, FS_EmptySet DEF Init, LostInv, UsedUp

LEMMA LostNext == LostInv /\ [Next]_vars => LostInv'
  <1> SUFFICES ASSUME LostInv, [Next]_vars PROVE LostInv'
    OBVIOUS
  <1>t. TypeOK /\ TypeOK'
    BY TypeNext DEF LostInv
  <1>n. Lost \in Nat /\ Cardinality(marked) \in Nat
    <2>1. \A x, y \in Nat : x * y \in Nat
      OBVIOUS
    <2>2. QED
      BY <1>t, <2>1, MarkedAreFinite DEF Lost, TypeOK
  <1> USE <1>t, <1>n DEF TypeOK, LostInv, UsedUp
  <1>1. CASE Outside \/ FindNotSynced \/ Accounts \/ NewAPI \/ LedgerTakesReport
             \/ LedgerTurnsAway \/ LedgerErrs \/ Do
             \/ (\E t \in Trxs : ReportPendingTransaction(t)) \/ UNCHANGED vars
    <2>1. UNCHANGED <<marked, conns, lostMarks>> /\ (pc' = "mark" => pc = "mark")
      BY <1>1 DEF Outside, Record, LedgerGetsLate, SessionEnds, FindNotSynced, Accounts,
                  NewAPI, LedgerTakesReport, LedgerTurnsAway, LedgerErrs, Do,
                  ReportPendingTransaction, vars
    <2>2. pc = "mark" => pc' = "mark" /\ kept' = kept
      BY <1>1 DEF Outside, Record, LedgerGetsLate, SessionEnds, FindNotSynced, Accounts,
                  NewAPI, LedgerTakesReport, LedgerTurnsAway, LedgerErrs, Do,
                  ReportPendingTransaction, vars
    <2>3. QED
      BY <2>1, <2>2, LostStays
  <1>2. CASE ListAccounts \/ ReportFails \/ SyncDone \/ Fails
    <2>1. UNCHANGED <<marked, lostMarks>> /\ conns' = 0 /\ pc' = "stopped"
      BY <1>2 DEF ListAccounts, ReportFails, SyncDone, Fails, Stop
    <2>2. QED
      BY <2>1, LostStays
  <1>3. CASE ReportSucceeds
    <2>1. /\ UNCHANGED <<marked, lostMarks>> /\ pc # "mark" /\ pc' = "mark" /\ ~kept
          /\ conns' = conns \/ (conns' = conns + 1 /\ ~kept')
      BY <1>3 DEF ReportSucceeds
    <2>2. QED
      BY <2>1, LostStays
  <1>4. CASE MarkSynced
    <2>1. /\ UNCHANGED <<lostMarks, conns>> /\ pc = "mark" /\ pc' = "report"
          /\ marked' = marked \cup {cur} /\ cur \notin marked
      BY <1>4 DEF MarkSynced
    <2>2. Cardinality(marked') = Cardinality(marked) + 1
      BY <2>1, MarkedAreFinite, FS_AddElement
    <2>3. QED
      BY <2>1, <2>2, LostStays
  <1>5. CASE MarkFails
    <2>1. /\ lostMarks' = lostMarks + 1 /\ marked' = marked /\ conns' = 0
          /\ pc = "mark" /\ pc' = "stopped"
          /\ conns + (IF kept THEN 1 ELSE 0) >= MaxFiles
      BY <1>5 DEF MarkFails, Stop, FileLeft
    <2>2. Lost' = Lost + MaxFiles - 1
      BY <2>1, LostAgain
    <2>3. QED
      BY <2>1, <2>2
  <1>6. QED
    BY <1>1, <1>2, <1>3, <1>4, <1>5 DEF Next, Steps

(* Down to the requests, every further report of a transaction is due to a *)
(* failure of its own, or to a mark for which the connections of its run   *)
(* had left no file, after MaxFiles - 1 rows that were marked.             *)
THEOREM DuplicatesArePaidFor == Spec => []DuplicatesNeedFaults
  <1>1. CountInv /\ LostInv => DuplicatesNeedFaults
    BY DEF CountInv, LostInv, DuplicatesNeedFaults, Lost
  <1>2. QED
    BY <1>1, CountInit, CountNext, LostInit, LostNext, PTL DEF Spec

-----------------------------------------------------------------------------
(* A success other than the sign-in page's is that of a report the ledger  *)
(* took, and nothing takes that back before the row is marked.             *)

TakenInv ==
  /\ TypeOK
  /\ \A t \in marked \ atSignIn : taken[t] > 0
  /\ wire \in {"toPage", "ok", "bare"} => taken[cur] > 0
  /\ pc = "mark" => cur \in atSignIn \/ taken[cur] > 0
  /\ \A t \in Trxs : late[t] > 0 => t \in rows

LEMMA TakenInit == Init => TakenInv
  BY TypeInit DEF Init, TakenInv

LEMMA TakenNext == TakenInv /\ [Next]_vars => TakenInv'
  <1> SUFFICES ASSUME TakenInv, [Next]_vars PROVE TakenInv'
    OBVIOUS
  <1>t. TypeOK /\ TypeOK'
    BY TypeNext DEF TakenInv
  <1> USE <1>t DEF TypeOK, TakenInv
  <1>1. CASE \E t \in Trxs : Record(t) \/ LedgerGetsLate(t)
    <2>1. ASSUME NEW t \in Trxs, Record(t) PROVE TakenInv'
      BY <2>1 DEF Record
    <2>2. ASSUME NEW t \in Trxs, LedgerGetsLate(t) PROVE TakenInv'
      <3>1. \A u \in Trxs : taken[u] <= taken'[u] /\ late'[u] <= late[u]
        BY <2>2 DEF LedgerGetsLate, LedgerTakes
      <3>2. QED
        BY <2>2, <3>1 DEF LedgerGetsLate
    <2>3. QED
      BY <1>1, <2>1, <2>2
  <1>2. CASE SessionEnds \/ FindNotSynced \/ Accounts \/ NewAPI
    BY <1>2 DEF SessionEnds, FindNotSynced, Accounts, NewAPI
  <1>3. CASE ListAccounts \/ MarkFails \/ ReportFails \/ SyncDone
    BY <1>3 DEF ListAccounts, MarkFails, ReportFails, SyncDone, Stop
  <1>4. CASE \E t \in Trxs : ReportPendingTransaction(t)
    BY <1>4 DEF ReportPendingTransaction
  <1>5. CASE LedgerTakesReport \/ LedgerErrs
    <2>1. cur \in Trxs
      BY <1>5 DEF LedgerTakesReport, LedgerErrs
    <2>2. \A u \in Trxs : taken[u] <= taken'[u]
      BY <1>5, <2>1 DEF LedgerTakesReport, LedgerErrs, LedgerTakes
    <2>3. LedgerTakesReport => taken'[cur] > 0
      BY <2>1 DEF LedgerTakesReport, LedgerTakes
    <2>4. QED
      BY <1>5, <2>1, <2>2, <2>3 DEF LedgerTakesReport, LedgerErrs
  <1>6. CASE LedgerTurnsAway \/ Do
    BY <1>6 DEF LedgerTurnsAway, Do
  <1>7. CASE ReportSucceeds
    BY <1>7 DEF ReportSucceeds
  <1>8. CASE MarkSynced
    BY <1>8 DEF MarkSynced
  <1>9. CASE Fails
    BY <1>9 DEF Fails, Stop
  <1>10. CASE UNCHANGED vars
    BY <1>10 DEF vars
  <1>11. QED
    BY <1>1, <1>2, <1>3, <1>4, <1>5, <1>6, <1>7, <1>8, <1>9, <1>10
       DEF Next, Outside, Steps

TableRows  == [t \in Trxs |-> IF t \in rows THEN Row(t) ELSE NoTrx]
LedgerRows == [r \in {Row(t) : t \in Trxs} |-> taken[r.id]]

LEMMA RowsAreNoTrx == \A t \in Trxs : Row(t) # NoTrx /\ Row(t).id = t
  BY DEF Row

LEMMA OutboxInit == Init => Table!Init
  BY DEF Init, Table!Init, Row

LEMMA OutboxStep ==
  ASSUME TakenInv, [Next]_vars
  PROVE  [Table!Next]_(Table!vars)
  <1>t. TypeOK /\ TypeOK'
    BY TypeNext DEF TakenInv
  <1> USE <1>t, RowsAreNoTrx DEF TypeOK, Table!vars
  <1>1. ASSUME NEW t \in Trxs, Record(t) PROVE Table!Record(Row(t))
    <2>1. TableRows[t] = NoTrx
      BY <1>1 DEF Record, TableRows
    <2>2. TableRows' = [TableRows EXCEPT ![t] = Row(t)]
      BY <1>1 DEF Record, TableRows
    <2>3. UNCHANGED <<marked \ atSignIn, LedgerRows>>
      BY <1>1 DEF Record, LedgerRows
    <2>4. TableRows[Row(t).id] = NoTrx
      BY <2>1
    <2>5. TableRows' = [TableRows EXCEPT ![Row(t).id] = Row(t)]
      BY <2>2
    <2>6. QED
      BY Zenon, <2>3, <2>4, <2>5 DEF Table!Record, TableRows, LedgerRows
  <1>2. ASSUME NEW t \in Trxs, t \in rows, LedgerTakes(t), UNCHANGED <<table, atSignIn>>
        PROVE  Table!Deliver(Row(t))
    <2>1. LedgerRows' = [LedgerRows EXCEPT ![Row(t)] = @ + 1]
      <3>1. taken' = [taken EXCEPT ![t] = taken[t] + 1] /\ taken \in [Trxs -> Nat]
        BY <1>2 DEF LedgerTakes
      <3>2. ASSUME NEW u \in Trxs
            PROVE  taken'[Row(u).id] =
                     IF Row(u) = Row(t) THEN taken[Row(u).id] + 1 ELSE taken[Row(u).id]
        BY ONLY <3>1, RowsAreNoTrx
      <3>3. QED
        BY ONLY <3>2, RowsAreNoTrx DEF LedgerRows
    <2>2. QED
      BY <1>2, <2>1 DEF Table!Deliver, LedgerRows
  <1>3. CASE MarkSynced /\ cur \notin atSignIn
    <2>1. cur \in Trxs /\ cur \in rows /\ taken[cur] > 0
      BY <1>3 DEF MarkSynced, TakenInv
    <2>2. Table!Confirm(cur)
      BY <1>3, <2>1 DEF MarkSynced, Table!Confirm
    <2>3. QED
      BY <2>1, <2>2 DEF Table!Next
  <1>4. CASE MarkSynced /\ cur \in atSignIn
    BY <1>4 DEF MarkSynced
  <1>5. CASE ReportSucceeds
    BY <1>5 DEF ReportSucceeds
  <1>6. CASE \E t \in Trxs : LedgerGetsLate(t)
    BY <1>2, <1>6 DEF LedgerGetsLate, Table!Next, TakenInv
  <1>7. CASE LedgerTakesReport \/ LedgerErrs
    BY <1>2, <1>7 DEF LedgerTakesReport, LedgerErrs, Table!Next
  <1>8. CASE \E t \in Trxs : Record(t)
    BY <1>1, <1>8 DEF Table!Next
  <1>9. CASE SessionEnds \/ FindNotSynced \/ Accounts \/ NewAPI \/ ListAccounts
             \/ (\E t \in Trxs : ReportPendingTransaction(t)) \/ MarkFails
             \/ LedgerTurnsAway \/ Do \/ ReportFails \/ SyncDone \/ Fails
             \/ UNCHANGED vars
    <2>1. UNCHANGED <<rows, marked, taken, atSignIn>>
      BY <1>9 DEF SessionEnds, FindNotSynced, Accounts, NewAPI, ListAccounts,
                  ReportPendingTransaction, MarkFails, LedgerTurnsAway, Do,
                  ReportFails, SyncDone, Fails, vars
    <2>2. QED
      BY <2>1
  <1>10. QED
    BY <1>3, <1>4, <1>5, <1>6, <1>7, <1>8, <1>9 DEF Next, Outside, Steps

(* Through requests, redirects, lost sessions and crashes, the table is an *)
(* outbox for all rows but those whose report ended at the sign-in page.   *)
THEOREM OutboxImplemented == Spec => ImplementsOutbox
  <1>1. TakenInv /\ [Next]_vars => [Table!Next]_(Table!vars)
    BY OutboxStep
  <1>2. QED
    BY <1>1, OutboxInit, TakenInit, TakenNext, PTL
       DEF Spec, ImplementsOutbox, Table!Spec

(* With a ledger that answers with statuses, or as long as nothing fails,  *)
(* a mark can be trusted: the ledger has taken every row that has one.     *)
THEOREM MarkedWasTaken ==
  Spec => [](~site \/ faults = 0 => \A t \in marked : taken[t] > 0)
  <1>1. SessionInv /\ TakenInv
          => (~site \/ faults = 0 => \A t \in marked : taken[t] > 0)
    BY DEF SessionInv, TakenInv, LossesNeedSignIn, TypeOK
  <1>2. QED
    BY <1>1, SessionInit, SessionNext, TakenInit, TakenNext, PTL DEF Spec

-----------------------------------------------------------------------------
(* The steps that are left are a number, for the slice is finite; what is  *)
(* at hand while a report is under way or about to be marked is in it.     *)

LEMMA SliceIsFinite ==
  ASSUME TypeOK
  PROVE  IsFiniteSet(todo) /\ Cardinality(todo) \in Nat
  BY TrxsAssumption, FS_Subset, FS_CardinalityType DEF TypeOK

LEMMA RowIsLeft ==
  ASSUME TypeOK, pc = "mark"
  PROVE  /\ Cardinality(todo \ {cur}) \in Nat
         /\ Cardinality(todo) = Cardinality(todo \ {cur}) + 1
  <1>1. cur \in todo
    BY DEF TypeOK
  <1>2. IsFiniteSet(todo) /\ IsFiniteSet(todo \ {cur})
    BY SliceIsFinite, FS_RemoveElement
  <1>3. QED
    BY <1>1, <1>2, FS_RemoveElement, FS_CardinalityType

LEMMA StoppingEnds ==
  ASSUME TypeOK, pc # "stopped", Stop
  PROVE  StepsLeft' < StepsLeft
  <1>1. StepsLeft' = 0
    BY DEF Stop, StepsLeft
  <1>2. StepsOfRow \in 1..6
    BY DEF StepsOfRow, StepsOfReport
  <1>3. QED
    BY <1>1, <1>2, SliceIsFinite DEF StepsLeft

LEMMA StepsGoDown ==
  ASSUME TypeOK, Steps
  PROVE  StepsLeft' < StepsLeft
  <1> USE SliceIsFinite DEF StepsLeft, StepsOfRow, StepsOfReport
  <1>1. CASE NewAPI
    BY <1>1 DEF NewAPI
  <1>2. CASE ListAccounts \/ MarkFails \/ ReportFails \/ SyncDone
    <2>1. pc # "stopped" /\ Stop
      BY <1>2 DEF ListAccounts, MarkFails, ReportFails, SyncDone, TypeOK
    <2>2. QED
      BY <2>1, StoppingEnds
  <1>3. CASE \E t \in Trxs : ReportPendingTransaction(t)
    BY <1>3 DEF ReportPendingTransaction
  <1>4. CASE LedgerTakesReport \/ LedgerTurnsAway \/ LedgerErrs
    <2>1. pc = "report" /\ wire = "sent"
      BY <1>4 DEF LedgerTakesReport, LedgerTurnsAway, LedgerErrs, TypeOK
    <2>2. pc' = pc /\ todo' = todo
      BY <1>4 DEF LedgerTakesReport, LedgerTurnsAway, LedgerErrs
    <2>3. wire' \in {"ok", "bare", "toPage", "toSignIn", "error"}
      BY <1>4 DEF LedgerTakesReport, LedgerTurnsAway, LedgerErrs
    <2>4. QED
      BY <2>1, <2>2, <2>3
  <1>5. CASE Do
    BY <1>5 DEF Do, TypeOK
  <1>6. CASE ReportSucceeds
    BY <1>6 DEF ReportSucceeds, TypeOK
  <1>7. CASE MarkSynced
    <2>1. todo' = todo \ {cur} /\ pc' = "report" /\ wire' = "idle"
      BY <1>7 DEF MarkSynced, TypeOK
    <2>2. QED
      BY <1>7, <2>1, RowIsLeft DEF MarkSynced
  <1>8. QED
    BY <1>1, <1>2, <1>3, <1>4, <1>5, <1>6, <1>7 DEF Steps

LEMMA OutsideLeavesSteps ==
  ASSUME Outside
  PROVE  StepsLeft' = StepsLeft
  <1>1. UNCHANGED <<pc, todo, wire>>
    BY DEF Outside, Record, LedgerGetsLate, SessionEnds
  <1>2. QED
    BY <1>1 DEF StepsLeft, StepsOfRow, StepsOfReport

(* However many rows there are and whatever the ledger answers, a run has  *)
(* finitely many steps, and nothing but the run itself changes how many    *)
(* are left.                                                               *)
THEOREM EveryRunEnds == Spec => RunsEnd
  <1>1. TypeOK /\ [Next]_vars
          => [(Steps => StepsLeft' < StepsLeft) /\ (Outside => StepsLeft' = StepsLeft)]_vars
    BY StepsGoDown, OutsideLeavesSteps
  <1>2. QED
    BY <1>1, TypeInit, TypeNext, PTL DEF Spec, RunsEnd
=============================================================================
