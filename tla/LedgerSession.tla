---------------------------- MODULE LedgerSession ----------------------------
(***************************************************************************)
(* Command `ledger` down to its HTTP requests: a session is started with   *)
(* the id token, its cookie and CSRF token go out with every report, a     *)
(* report succeeds when the answer at the end of its redirects is a 2xx,   *)
(* and the body of that answer is never closed, so that its connection     *)
(* stays open.  Pipeline trusts a report that succeeds; here it may have   *)
(* ended at the ledger's sign-in page.  Connections and the database share *)
(* the files a process can have open: a connection takes one, and so does  *)
(* a save for as long as it lasts, which is SQLite's journal.              *)
(* The table is what Pipeline says it is: rows of one account, marked by   *)
(* the one process that syncs it.                                          *)
(***************************************************************************)
EXTENDS Naturals, FiniteSets

CONSTANTS Trxs,      \* transactions of the account
          NoTrx,     \* no row, no transaction at hand
          MaxFiles,  \* files a process can have open, besides those it always has
          MaxFaults  \* bound: failures of the ledger, network or process

ASSUME NoTrxAssumption == NoTrx \notin Trxs /\ NoTrx \notin [id : Trxs]
ASSUME TrxsAssumption == IsFiniteSet(Trxs)
ASSUME BoundsAssumption == MaxFiles \in Nat \ {0} /\ MaxFaults \in Nat

VARIABLES rows,      \* transactions with a row
          marked,    \* rows with a synced_at
          site,      \* the ledger redirects to pages, as a site does
          live,      \* the ledger still knows the session
          taken,     \* how often the ledger took each transaction
          late,      \* reports under way whose sender has given up
          faults,    \* failures so far
          pc,        \* where the command is in its code
          todo,      \* what is left of its slice `notSyncedTrxs`
          cur,       \* the transaction it reports and marks
          session,   \* api.session is the cookie of the session, not ""
          csrfToken, \* api.csrfToken is that of the session, not ""
          wire,      \* the report under way, or the answer to it
          conns,     \* connections held by bodies nobody closes
          kept,      \* another one is open, kept for the next request
          lostMarks, \* history: marks that failed because no file was left
          atSignIn   \* history: last reported with success at the sign-in page

table   == <<rows, marked>>
ledger  == <<site, live, taken, late>>
api     == <<session, csrfToken>>
request == <<cur, wire, conns, kept>>
history == <<lostMarks, atSignIn>>
vars    == <<table, ledger, faults, pc, todo, api, request, history>>

Init ==
  /\ rows = {}
  /\ marked = {}
  /\ site \in BOOLEAN
  /\ live = FALSE
  /\ taken = [t \in Trxs |-> 0]
  /\ late = [t \in Trxs |-> 0]
  /\ faults = 0
  /\ pc = "stopped"
  /\ todo = {}
  /\ cur = NoTrx
  /\ session = FALSE
  /\ csrfToken = FALSE
  /\ wire = "idle"
  /\ conns = 0
  /\ kept = FALSE
  /\ lostMarks = 0
  /\ atSignIn = {}

\* Something outside the program fails, as often as the bound allows.
Fault == faults < MaxFaults /\ faults' = faults + 1

\* Mutant: a process that is not ended by a failure keeps its connections.
StopKeepsConns ==
  /\ pc' = "stopped"
  /\ todo' = {}
  /\ cur' = NoTrx
  /\ session' = FALSE
  /\ csrfToken' = FALSE
  /\ wire' = "idle"
  /\ kept' = FALSE
  /\ conns' = IF kept THEN conns + 1 ELSE conns

\* The process ends, whatever its status, and its connections with it.
Stop ==
  /\ pc' = "stopped"
  /\ todo' = {}
  /\ cur' = NoTrx
  /\ session' = FALSE
  /\ csrfToken' = FALSE
  /\ wire' = "idle"
  /\ conns' = 0
  /\ kept' = FALSE

-----------------------------------------------------------------------------
(* fetch-transactions adds rows; cron and people start the command.        *)

Record(t) ==
  /\ t \notin rows
  /\ rows' = rows \cup {t}
  /\ UNCHANGED <<marked, ledger, faults, pc, todo, api, request, history>>

\* Without rows the command ends before its first request.
FindNotSynced ==
  /\ pc = "stopped"
  /\ rows \ marked # {}
  /\ pc' = "session"
  /\ todo' = rows \ marked
  /\ UNCHANGED <<table, ledger, faults, api, request, history>>

Accounts ==
  /\ pc = "stopped"
  /\ pc' = "session"
  /\ UNCHANGED <<table, ledger, faults, todo, api, request, history>>

-----------------------------------------------------------------------------
(* pkg/ledger/api.go                                                       *)

\* Mutant: the cookie is looked up under another name.
NewAPIWithoutCookie ==
  /\ pc = "session"
  /\ session' = FALSE
  /\ csrfToken' = TRUE
  /\ live' = TRUE
  /\ pc' = IF todo = {} THEN "list" ELSE "report"
  /\ UNCHANGED <<table, site, taken, late, faults, todo, request, history>>

\* An answer may lack the cookie or the token, which is taken for "".  Its body is
\* closed, so that it takes no file from the reports.
NewAPI ==
  /\ pc = "session"
  /\ \E c, k \in BOOLEAN :
       /\ session' = c
       /\ csrfToken' = k
       /\ IF c /\ k THEN UNCHANGED faults ELSE Fault
  /\ live' = TRUE
  /\ pc' = IF todo = {} THEN "list" ELSE "report"
  /\ UNCHANGED <<table, site, taken, late, todo, request, history>>

\* Accounts or an error; a sign-in page is no JSON, and the body is closed.
ListAccounts ==
  /\ pc = "list"
  /\ Stop
  /\ UNCHANGED <<table, ledger, faults, history>>

ReportPendingTransaction(t) ==
  /\ pc = "report"
  /\ wire = "idle"
  /\ t \in todo
  /\ conns < MaxFiles
  /\ cur' = t
  /\ wire' = "sent"
  /\ kept' = FALSE
  /\ UNCHANGED <<table, ledger, faults, pc, todo, api, conns, history>>

-----------------------------------------------------------------------------
(* The ledger.  An answer may be one without a body, or a page.            *)

SignedIn == session /\ csrfToken /\ live

LedgerTakes(t) == taken' = [taken EXCEPT ![t] = @ + 1]

LedgerTakesReport ==
  /\ wire = "sent"
  /\ SignedIn
  /\ LedgerTakes(cur)
  /\ wire' \in {"ok", "bare"} \cup (IF site THEN {"toPage"} ELSE {})
  /\ UNCHANGED <<table, site, live, late, faults, pc, todo, api, cur, conns, kept, history>>

LedgerTurnsAway ==
  /\ wire = "sent"
  /\ ~SignedIn
  /\ wire' = IF site THEN "toSignIn" ELSE "error"
  /\ UNCHANGED <<table, ledger, faults, pc, todo, api, cur, conns, kept, history>>

\* An error status, before or after the transaction was taken.
LedgerErrs ==
  /\ wire = "sent"
  /\ Fault
  /\ UNCHANGED taken \/ (SignedIn /\ LedgerTakes(cur))
  /\ wire' = "error"
  /\ UNCHANGED <<table, site, live, late, pc, todo, api, cur, conns, kept, history>>

SessionEnds ==
  /\ live
  /\ Fault
  /\ live' = FALSE
  /\ UNCHANGED <<table, site, taken, late, pc, todo, api, request, history>>

\* The ledger handles a report, or turns it away, after its sender has gone.
LedgerGetsLate(t) ==
  /\ late[t] > 0
  /\ late' = [late EXCEPT ![t] = @ - 1]
  /\ UNCHANGED taken \/ LedgerTakes(t)
  /\ UNCHANGED <<table, site, live, faults, pc, todo, api, request, history>>

-----------------------------------------------------------------------------
(* pkg/lib-core-golang/request                                             *)

\* Mutant: redirects are not followed, and are error statuses then.
DoNotFollow ==
  /\ wire \in {"toPage", "toSignIn"}
  /\ wire' = "error"
  /\ UNCHANGED <<table, ledger, faults, pc, todo, api, cur, conns, kept, history>>

\* The http.Client gets the page it is redirected to, which answers 200 or not.
Do ==
  /\ wire \in {"toPage", "toSignIn"}
  /\ \/ /\ wire' = IF wire = "toPage" THEN "ok" ELSE "signIn"
        /\ UNCHANGED faults
     \/ wire' = "error" /\ Fault
  /\ UNCHANGED <<table, ledger, pc, todo, api, cur, conns, kept, history>>

\* Mutant: an error status is no error.
ErrorIsSuccess ==
  /\ wire = "error"
  /\ wire' = "idle"
  /\ pc' = "mark"
  /\ UNCHANGED <<table, ledger, faults, todo, api, cur, conns, kept, history>>

\* Mutant: a report that failed is sent again.
ReportRetries ==
  /\ wire = "error"
  /\ wire' = "idle"
  /\ cur' = NoTrx
  /\ UNCHANGED <<table, ledger, faults, pc, todo, api, conns, kept, history>>

\* A status of 300 or more: exit status 1.  RoundTrip has closed the body.
ReportFails ==
  /\ wire = "error"
  /\ Stop
  /\ UNCHANGED <<table, ledger, faults, history>>

\* A 2xx: the response is dropped.  Its body keeps the connection; without one it
\* is free for the next request, if the ledger does not close it.
ReportSucceeds ==
  /\ wire \in {"ok", "bare", "signIn"}
  /\ wire' = "idle"
  /\ pc' = "mark"
  /\ IF wire = "bare" THEN kept' \in BOOLEAN /\ UNCHANGED conns
                      ELSE conns' = conns + 1 /\ UNCHANGED kept
  /\ atSignIn' = IF wire = "signIn" THEN atSignIn \cup {cur} ELSE atSignIn \ {cur}
  /\ UNCHANGED <<table, ledger, faults, todo, api, cur, lostMarks>>

-----------------------------------------------------------------------------
(* cmd/ledger, command sync                                                *)

FileLeft == conns + (IF kept THEN 1 ELSE 0) < MaxFiles

\* Mutant: the transaction of the last turn is kept.
MarkKeepsTrx ==
  /\ pc = "mark"
  /\ FileLeft
  /\ marked' = marked \cup {cur}
  /\ todo' = todo \ {cur}
  /\ pc' = "report"
  /\ UNCHANGED <<rows, ledger, faults, cur, api, wire, conns, kept, history>>

MarkSynced ==
  /\ pc = "mark"
  /\ FileLeft
  /\ marked' = marked \cup {cur}
  /\ todo' = todo \ {cur}
  /\ cur' = NoTrx
  /\ pc' = "report"
  /\ UNCHANGED <<rows, ledger, faults, api, wire, conns, kept, history>>

\* The journal of the save cannot be opened: exit status 1, after the report.
MarkFails ==
  /\ pc = "mark"
  /\ ~FileLeft
  /\ lostMarks' = lostMarks + 1
  /\ Stop
  /\ UNCHANGED <<table, ledger, faults, atSignIn>>

SyncDone ==
  /\ pc = "report"
  /\ todo = {}
  /\ Stop
  /\ UNCHANGED <<table, ledger, faults, history>>

\* A request or query fails or the process is killed; a report that is under
\* way may reach the ledger all the same.
Fails ==
  /\ pc # "stopped"
  /\ Fault
  /\ \/ UNCHANGED late
     \/ wire = "sent" /\ late' = [late EXCEPT ![cur] = @ + 1]
  /\ Stop
  /\ UNCHANGED <<table, site, live, taken, history>>

-----------------------------------------------------------------------------
Outside ==
  \/ \E t \in Trxs : Record(t) \/ LedgerGetsLate(t)
  \/ SessionEnds

Steps ==
  \/ NewAPI
  \/ ListAccounts
  \/ \E t \in Trxs : ReportPendingTransaction(t)
  \/ LedgerTakesReport
  \/ LedgerTurnsAway
  \/ LedgerErrs
  \/ Do
  \/ ReportFails
  \/ ReportSucceeds
  \/ MarkSynced
  \/ MarkFails
  \/ SyncDone

Next == Outside \/ FindNotSynced \/ Accounts \/ Steps \/ Fails

Spec == Init /\ [][Next]_vars

\* A command that runs goes on, for every request ends; cron starts sync again
\* and again, whatever else is run in between.
Fairness == WF_vars(Steps) /\ SF_vars(FindNotSynced)
FairSpec == Spec /\ Fairness

-----------------------------------------------------------------------------
(* Type invariant: besides the types, a transaction is at hand exactly     *)
(* while a report is under way or about to be marked, and no report finds  *)
(* that there is no file left for its connection: the save before it       *)
(* would have failed.                                                      *)
TypeOK ==
  /\ rows \subseteq Trxs
  /\ marked \subseteq rows
  /\ site \in BOOLEAN
  /\ live \in BOOLEAN
  /\ taken \in [Trxs -> Nat]
  /\ late \in [Trxs -> Nat]
  /\ faults \in 0..MaxFaults
  /\ pc \in {"stopped", "session", "list", "report", "mark"}
  /\ todo \subseteq rows \ marked
  /\ cur \in todo \cup {NoTrx}
  /\ session \in BOOLEAN
  /\ csrfToken \in BOOLEAN
  /\ wire \in {"idle", "sent", "toPage", "toSignIn", "ok", "bare", "signIn", "error"}
  /\ wire # "idle" => pc = "report"
  /\ cur # NoTrx <=> wire # "idle" \/ pc = "mark"
  /\ conns \in 0..MaxFiles
  /\ kept \in BOOLEAN
  /\ kept => conns < MaxFiles /\ wire = "idle"
  /\ pc = "report" => FileLeft
  /\ pc \in {"stopped", "session", "list"} => conns = 0 /\ ~kept
  /\ lostMarks \in Nat
  /\ atSignIn \subseteq rows

(* Down to the requests the table is still an outbox, but for the rows     *)
(* whose report ended at the sign-in page: every other marked row was      *)
(* taken, whatever broke, expired, came late or was answered without a     *)
(* cookie (api.go 44-98, request.go 117-187, cmd/ledger 110-126).          *)
Row(t) == [id |-> t]

Table == INSTANCE Outbox WITH
  Ids        <- Trxs,
  Statements <- {Row(t) : t \in Trxs},
  stored     <- [t \in Trxs |-> IF t \in rows THEN Row(t) ELSE NoTrx],
  synced     <- marked \ atSignIn,
  ledger     <- [r \in {Row(t) : t \in Trxs} |-> taken[r.id]]

ImplementsOutbox == Table!Spec

(* Rows are lost to the sign-in page only with a ledger that redirects to  *)
(* it, and only after a session that was answered incompletely or has      *)
(* ended: with error statuses, or without failures, none is (the TODO of   *)
(* api.go 91 and the redirects of request.go 142).                         *)
LossesNeedSignIn == atSignIn # {} => site /\ faults > 0

(* A transaction is reported again only after a failure between its report *)
(* and its mark, or after a mark for which the connections that reports    *)
(* use up have left no file, which no failure has to come before (api.go   *)
(* 52-54, cmd/ledger 123-125).  Such marks are few: each run that loses    *)
(* one has marked a row for every other connection it had.                 *)
DuplicatesNeedFaults ==
  /\ \A t \in Trxs : taken[t] + late[t] <= faults + lostMarks + 1
  /\ lostMarks * (MaxFiles - 1) <= Cardinality(marked)

(* A run ends by itself: there is a number of steps it has left, which     *)
(* depends on the rows in its slice and on where it is with the one at     *)
(* hand, every step of the command or of an answer to it takes from that   *)
(* number, and nothing that goes on elsewhere adds to it: rows that are    *)
(* recorded meanwhile, late reports, a lost session (cmd/ledger 84-132,    *)
(* api.go 44-98).  No command retries a request, so no answer sends it     *)
(* back.                                                                   *)
StepsOfReport ==
  IF wire = "idle" THEN 5
  ELSE IF wire = "sent" THEN 4
  ELSE IF wire \in {"toPage", "toSignIn"} THEN 3
  ELSE 2

StepsOfRow ==
  IF pc = "session" THEN 6
  ELSE IF pc = "list" THEN 5
  ELSE IF pc = "report" THEN StepsOfReport
  ELSE 1

StepsLeft ==
  IF pc = "stopped" THEN 0 ELSE 5 * Cardinality(todo) + StepsOfRow

RunsEnd ==
  [][(Steps => StepsLeft' < StepsLeft) /\ (Outside => StepsLeft' = StepsLeft)]_vars

(* Every row is marked in the end, although a run may end with an error    *)
(* when no file is left for a mark (cmd/ledger 109-126): with two files or *)
(* more each run marks some rows, which are out of the way of the next.    *)
EventuallyMarked == \A t \in Trxs : t \in rows ~> t \in marked
=============================================================================
