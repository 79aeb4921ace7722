----------------------------- MODULE CronProofs -----------------------------
(***************************************************************************)
(* Production runs the commands of Pipeline as Pipeline allows, so what is *)
(* proved of Pipeline holds of it; and it runs one of each at a time.      *)
(***************************************************************************)
EXTENDS Cron, PipelineProofs

CronInv == TypeOK /\ CronTypeOK

LEMMA LinesHaveAccounts ==
  ASSUME NEW line \in 1..Len(Order)
  PROVE  Order[line] \in Accounts
  BY OrderAssumption

\* A step of the deployment is one of Pipeline, or none.
LEMMA CronStep == CronTypeOK /\ [CronNext]_cronVars => [Next]_vars
  <1> SUFFICES ASSUME CronTypeOK, [CronNext]_cronVars PROVE [Next]_vars
    OBVIOUS
  <1>1. FetchContainer \in Fetchers /\ SyncContainer \in Syncers
    BY ContainersAssumption
  <1>2. CASE UNCHANGED vars
    BY <1>2
  <1>3. CASE FetchCommand
    <2>1. Order[fetchSh] \in Accounts
      BY <1>3, LinesHaveAccounts, OrderAssumption DEF FetchCommand, CronTypeOK
    <2>2. QED
      BY <1>1, <1>3, <2>1 DEF FetchCommand, Next, FetcherNext
  <1>4. CASE SyncCommand
    <2>1. Order[syncSh] \in Accounts
      BY <1>4, LinesHaveAccounts, OrderAssumption DEF SyncCommand, CronTypeOK
    <2>2. QED
      BY <1>1, <1>4, <2>1 DEF SyncCommand, Next, SyncerNext
  <1>5. CASE FetcherSteps(FetchContainer) \/ FetchFails(FetchContainer)
    BY <1>1, <1>5 DEF Next, FetcherNext
  <1>6. CASE \/ SyncerSteps(SyncContainer)
             \/ ReportUnanswered(SyncContainer) \/ SyncFails(SyncContainer)
    BY <1>1, <1>6 DEF Next, SyncerNext
  <1>7. CASE Outside
    BY <1>7 DEF Next
  <1>8. QED
    BY <1>2, <1>3, <1>4, <1>5, <1>6, <1>7
       DEF CronNext, cronVars, StartFetch, StartSync, FetchContainerSteps,
           SyncContainerSteps, FetchEnds, FetchEndsBadly, FetchNotBegun,
           SyncEnds, SyncEndsBadly, SyncNotBegun, Others

-----------------------------------------------------------------------------
(* Scripts and their commands                                              *)

\* Where the commands in the containers are after a step of the fetcher or of
\* the syncer.
LEMMA FetcherLeavesSyncer ==
  ASSUME NEW f, FetcherNext(f)
  PROVE  spc' = spc
  BY DEF FetcherNext, FetcherSteps, Fetch, CheckExists, SaveFetched, FetchMalformed,
         FetchDone, FetchFails, syncers

LEMMA SyncerLeavesFetcher ==
  ASSUME NEW s, SyncerNext(s)
  PROVE  fpc' = fpc
  BY DEF SyncerNext, SyncerSteps, FindNotSynced, FindTruncated, SyncReads, StartSession,
         Report, ReportRefused, MarkSynced, SyncDone, ReportUnanswered, SyncFails, fetchers

LEMMA CronTypeNext == CronInv /\ [CronNext]_cronVars => CronInv'
  <1> SUFFICES ASSUME CronInv, [CronNext]_cronVars PROVE CronTypeOK'
    BY CronStep, TypeNext DEF CronInv
  <1>t. TypeOK /\ CronTypeOK /\ Len(Order) \in Nat \ {0}
    BY OrderAssumption DEF CronInv
  <1>c. FetchContainer \in Fetchers /\ SyncContainer \in Syncers
    BY ContainersAssumption
  <1>1. CASE StartFetch \/ StartSync
    BY <1>1, <1>t DEF StartFetch, StartSync, CronTypeOK, vars, fetchers, syncers,
                      syncContainer, fetchContainer
  <1>2. CASE FetchCommand
    <2>1. fpc' = [fpc EXCEPT ![FetchContainer] = "check"] /\ spc' = spc
      BY <1>2 DEF FetchCommand, Fetch, syncers
    <2>2. QED
      BY <1>2, <1>t, <2>1 DEF FetchCommand, CronTypeOK, syncContainer
  <1>3. CASE FetchEnds \/ FetchEndsBadly
    <2>0. fetching' = FALSE /\ due' \in {due, TRUE} /\ due \in BOOLEAN
      BY <1>3, <1>t DEF FetchEnds, FetchEndsBadly, CronTypeOK
    <2>1. fetchSh' \in 0..Len(Order)
      BY <1>3, <1>t DEF FetchEnds, FetchEndsBadly, CronTypeOK
    <2>2. /\ UNCHANGED <<fpc, spc, syncSh, syncing>>
          /\ fpc[FetchContainer] \notin {"check", "save"}
      BY <1>3 DEF FetchEnds, FetchEndsBadly, vars, fetchers, syncers, syncContainer
    <2>3. due' \in BOOLEAN
      BY <2>0, Zenon
    <2>4. QED
      BY <2>0, <2>1, <2>2, <2>3, <1>t DEF CronTypeOK
  <1>4. CASE FetchNotBegun
    <2>1. fpc'[FetchContainer] = "stopped" /\ spc' = spc
      BY <1>4, <1>t, <1>c DEF FetchNotBegun, FetchFails, FetchStops, syncers, TypeOK
    <2>2. QED
      BY <1>4, <1>t, <2>1 DEF FetchNotBegun, CronTypeOK, syncContainer
  <1>5. CASE SyncCommand
    <2>1. fpc' = fpc
      BY <1>5 DEF SyncCommand, FindNotSynced, FindTruncated, SyncReads, fetchers
    <2>2. QED
      BY <1>5, <1>t, <2>1 DEF SyncCommand, CronTypeOK, fetchContainer
  <1>6. CASE SyncEnds \/ SyncEndsBadly
    <2>1. syncSh' \in 0..Len(Order) /\ syncing' = FALSE
      BY <1>6, <1>t DEF SyncEnds, SyncEndsBadly, CronTypeOK
    <2>2. /\ UNCHANGED <<fpc, spc, fetchSh, fetching, due>>
          /\ spc[SyncContainer] \notin {"session", "report", "mark"}
      BY <1>6 DEF SyncEnds, SyncEndsBadly, vars, fetchers, syncers, fetchContainer
    <2>3. QED
      BY <2>1, <2>2, <1>t DEF CronTypeOK
  <1>7. CASE SyncNotBegun
    <2>1. spc'[SyncContainer] = "stopped" /\ fpc' = fpc
      BY <1>7, <1>t, <1>c DEF SyncNotBegun, SyncFails, SyncStops, fetchers, TypeOK
    <2>2. QED
      BY <1>7, <1>t, <2>1 DEF SyncNotBegun, CronTypeOK, fetchContainer
  <1>8. CASE /\ UNCHANGED <<fetchContainer, syncContainer, due>>
             /\ \/ FetcherSteps(FetchContainer)
                \/ fpc[FetchContainer] \in {"check", "save"} /\ FetchFails(FetchContainer)
    <2>1. fpc[FetchContainer] \in {"check", "save"} /\ spc' = spc
      BY <1>8, <1>t, <1>c, FetcherLeavesSyncer
         DEF FetcherNext, FetcherSteps, CheckExists, SaveFetched, FetchMalformed, FetchDone
    <2>2. QED
      BY <1>8, <2>1, <1>t DEF CronTypeOK, fetchContainer, syncContainer
  <1>9. CASE /\ UNCHANGED <<fetchContainer, syncContainer, due>>
             /\ \/ SyncerSteps(SyncContainer) \/ ReportUnanswered(SyncContainer)
                \/ spc[SyncContainer] \in {"session", "report", "mark"} /\ SyncFails(SyncContainer)
    <2>1. spc[SyncContainer] \in {"session", "report", "mark"} /\ fpc' = fpc
      BY <1>9, <1>t, <1>c, SyncerLeavesFetcher
         DEF SyncerNext, SyncerSteps, StartSession, Report, ReportRefused, MarkSynced,
             SyncDone, ReportUnanswered
    <2>2. QED
      BY <1>9, <2>1, <1>t DEF CronTypeOK, fetchContainer, syncContainer
  <1>10. CASE UNCHANGED <<fetchContainer, syncContainer, due>> /\ Outside
    BY <1>10, <1>t DEF Outside, BankPosts, BankForgets, LedgerTakesLate, CronTypeOK,
                       fetchers, syncers, fetchContainer, syncContainer
  <1>11. CASE UNCHANGED cronVars
    BY <1>11, <1>t DEF cronVars, vars, CronTypeOK, fetchers, syncers,
                       fetchContainer, syncContainer
  <1>12. QED
    BY <1>1, <1>2, <1>3, <1>4, <1>5, <1>6, <1>7, <1>8, <1>9, <1>10, <1>11
       DEF CronNext, FetchContainerSteps, SyncContainerSteps, Others

LEMMA CronTypeInit == CronInit => CronInv
  <1> SUFFICES ASSUME CronInit PROVE CronInv
    OBVIOUS
  <1>1. 0 \in 0..Len(Order)
    BY OrderAssumption
  <1>2. fpc[FetchContainer] = "stopped" /\ spc[SyncContainer] = "stopped"
    BY ContainersAssumption DEF CronInit, Init
  <1>3. QED
    BY <1>1, <1>2, TypeInit DEF CronInit, CronInv, CronTypeOK

(* A command that is under way in a container is the one its script waits  *)
(* for.                                                                    *)
THEOREM ContainersCorrect == CronSpec => []CronTypeOK
  <1>1. CronInv => CronTypeOK
    BY DEF CronInv
  <1>2. QED
    BY <1>1, CronTypeInit, CronTypeNext, PTL DEF CronSpec

(* Whatever cron, the containers and the scripts do, commands and table    *)
(* behave as Pipeline says.                                                *)
THEOREM CronRunsPipeline == CronSpec => Spec
  <1>1. CronInit => Init
    BY DEF CronInit
  <1>2. CronInv => CronTypeOK
    BY DEF CronInv
  <1>3. QED
    BY <1>1, <1>2, CronTypeInit, CronTypeNext, CronStep, PTL DEF CronSpec, Spec

(* In production the table is an outbox: no order of cron's runs, failures *)
(* and restarts rewrites a row or confirms one the ledger has not taken.   *)
THEOREM ProductionIsOutbox == CronSpec => ImplementsOutbox
  <1>1. OneFetcher
    BY ContainersAssumption DEF OneFetcher
  <1>2. Spec => ImplementsOutbox
    BY <1>1, OutboxImplemented
  <1>3. QED
    BY <1>2, CronRunsPipeline

(* In production a transaction that is marked is never reported again.     *)
THEOREM ProductionReportsOnce == CronSpec => SyncedNeverReportedAgain
  <1>1. OneFetcher /\ OneSyncer
    BY ContainersAssumption DEF OneFetcher, OneSyncer
  <1>2. Spec => SyncedNeverReportedAgain
    BY <1>1, NotReportedAgain
  <1>3. QED
    BY <1>2, CronRunsPipeline

(* In production a transaction is reported once, and once more for each    *)
(* failure that comes between a report and its mark.                       *)
ReportedOncePerFailure == \A t \in Statements : Reports(t) <= faults + 1

THEOREM ProductionDuplicates == CronSpec => []ReportedOncePerFailure
  <1>1. Cardinality(Fetchers) = 1 /\ Cardinality(Syncers) = 1
    BY ContainersAssumption, FS_Singleton
  <1>2. DuplicatesNeedFaults => ReportedOncePerFailure
    BY <1>1 DEF DuplicatesNeedFaults, ReportedOncePerFailure
  <1>3. QED
    BY <1>2, CronRunsPipeline, DuplicatesArePaidFor, PTL

(* In production, when a line of fetch.sh has ended with success and the   *)
(* script goes on, each statement the bank answered has a row of its own   *)
(* account, provided the banks' ids tell the accounts apart: so, too, when *)
(* the shells see the container exit with 0 and start the sync.            *)
THEOREM ProductionFetchesAll ==
  ASSUME IdsPerAccount
  PROVE  CronSpec => []FetchCompletes
  BY CronRunsPipeline, FetchComplete, PTL
=============================================================================
