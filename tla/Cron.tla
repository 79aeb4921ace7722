-------------------------------- MODULE Cron --------------------------------
(***************************************************************************)
(* How the commands of Pipeline are run in production: two containers, one *)
(* with fetch.sh and one with sync.sh, each script a command per account   *)
(* under `set -e`; and a cron entry that every ten minutes starts a shell  *)
(* for `docker start -ai fetch && docker start -ai sync`.  Starting a      *)
(* container that runs only attaches to it, so a slow run is joined by the *)
(* shells of later ones, and all of them go on to the sync when it ends.   *)
(* Nobody else runs the commands here; Pipeline has the runs by hand.      *)
(***************************************************************************)
EXTENDS Pipeline, Sequences

CONSTANTS FetchContainer,  \* the fetcher that runs fetch.sh
          SyncContainer,   \* the syncer that runs sync.sh
          Order            \* the accounts, in the order of the scripts

ASSUME ContainersAssumption ==
  Fetchers = {FetchContainer} /\ Syncers = {SyncContainer}
ASSUME OrderAssumption == Order \in Seq(Accounts) /\ Len(Order) > 0

VARIABLES fetchSh,   \* line of fetch.sh, 0 when its container is stopped
          fetching,  \* the command of that line has been started
          syncSh,    \* line of sync.sh, 0 when its container is stopped
          syncing,   \* the command of that line has been started
          due        \* a shell saw the fetch container exit with 0

fetchContainer == <<fetchSh, fetching>>
syncContainer  == <<syncSh, syncing>>
cronVars       == <<vars, fetchContainer, syncContainer, due>>

CronInit ==
  /\ Init
  /\ fetchSh = 0 /\ fetching = FALSE
  /\ syncSh = 0 /\ syncing = FALSE
  /\ due = FALSE

-----------------------------------------------------------------------------
(* The shells of cron                                                      *)

\* A shell that finds the container running changes nothing.
StartFetch ==
  /\ fetchSh = 0
  /\ fetchSh' = 1
  /\ UNCHANGED <<vars, fetching, syncContainer, due>>

\* Other shells may have waited for the same exit, and start the container too.
\* Nothing comes after the sync: its exit status is nobody's concern.
StartSync ==
  /\ due
  /\ due' \in BOOLEAN
  /\ syncSh' = IF syncSh = 0 THEN 1 ELSE syncSh
  /\ UNCHANGED <<vars, fetchContainer, syncing>>

-----------------------------------------------------------------------------
(* fetch.sh                                                                *)

FetchCommand ==
  /\ fetchSh > 0 /\ ~fetching
  /\ Fetch(FetchContainer, Order[fetchSh])
  /\ fetching' = TRUE
  /\ UNCHANGED <<fetchSh, syncContainer, due>>

\* Mutant: the exit status of the script is lost.
FetchEndsUnseen ==
  /\ fetching /\ fpc[FetchContainer] = "done"
  /\ fetching' = FALSE
  /\ fetchSh' = IF fetchSh < Len(Order) THEN fetchSh + 1 ELSE 0
  /\ UNCHANGED <<vars, syncContainer, due>>

\* On success the next line; after the last one the shells go on.
FetchEnds ==
  /\ fetching /\ fpc[FetchContainer] = "done"
  /\ fetching' = FALSE
  /\ IF fetchSh < Len(Order)
       THEN fetchSh' = fetchSh + 1 /\ UNCHANGED due
       ELSE fetchSh' = 0 /\ due' = TRUE
  /\ UNCHANGED <<vars, syncContainer>>

\* set -e: the script ends at the first command that fails, and && the shells.
FetchEndsBadly ==
  /\ fetching /\ fpc[FetchContainer] = "stopped"
  /\ fetchSh' = 0 /\ fetching' = FALSE
  /\ UNCHANGED <<vars, syncContainer, due>>

\* The command fails before it has statements: its configuration, the bank.
FetchNotBegun ==
  /\ fetchSh > 0 /\ ~fetching
  /\ FetchFails(FetchContainer)
  /\ fetchSh' = 0
  /\ UNCHANGED <<fetching, syncContainer, due>>

-----------------------------------------------------------------------------
(* sync.sh                                                                 *)

SyncCommand ==
  /\ syncSh > 0 /\ ~syncing
  /\ \/ FindNotSynced(SyncContainer, Order[syncSh])
     \/ FindTruncated(SyncContainer, Order[syncSh])
  /\ syncing' = TRUE
  /\ UNCHANGED <<fetchContainer, syncSh, due>>

SyncEnds ==
  /\ syncing /\ spc[SyncContainer] = "done"
  /\ syncing' = FALSE
  /\ syncSh' = IF syncSh < Len(Order) THEN syncSh + 1 ELSE 0
  /\ UNCHANGED <<vars, fetchContainer, due>>

\* Mutant: the container is not seen to have stopped.
SyncHangs ==
  /\ syncing /\ spc[SyncContainer] = "stopped"
  /\ syncSh' = 0
  /\ UNCHANGED <<vars, fetchContainer, syncing, due>>

SyncEndsBadly ==
  /\ syncing /\ spc[SyncContainer] = "stopped"
  /\ syncing' = FALSE /\ syncSh' = 0
  /\ UNCHANGED <<vars, fetchContainer, due>>

\* The first query fails.
SyncNotBegun ==
  /\ syncSh > 0 /\ ~syncing
  /\ SyncFails(SyncContainer)
  /\ syncSh' = 0
  /\ UNCHANGED <<fetchContainer, syncing, due>>

-----------------------------------------------------------------------------
\* What the containers do when nothing fails.
FetchContainerSteps ==
  \/ FetchCommand
  \/ FetcherSteps(FetchContainer) /\ UNCHANGED <<fetchContainer, syncContainer, due>>
  \/ FetchEnds
  \/ FetchEndsBadly

SyncContainerSteps ==
  \/ SyncCommand
  \/ SyncerSteps(SyncContainer) /\ UNCHANGED <<fetchContainer, syncContainer, due>>
  \/ SyncEnds
  \/ SyncEndsBadly

\* The bank, the ledger, and failures of the commands under way.
Others ==
  /\ \/ Outside
     \/ fpc[FetchContainer] \in {"check", "save"} /\ FetchFails(FetchContainer)
     \/ ReportUnanswered(SyncContainer)
     \/ spc[SyncContainer] \in {"session", "report", "mark"} /\ SyncFails(SyncContainer)
  /\ UNCHANGED <<fetchContainer, syncContainer, due>>

CronNext ==
  \/ StartFetch
  \/ StartSync
  \/ FetchContainerSteps
  \/ FetchNotBegun
  \/ SyncContainerSteps
  \/ SyncNotBegun
  \/ Others

CronSpec == CronInit /\ [][CronNext]_cronVars

(***************************************************************************)
(* Cron fires again and again, and shells, scripts and the commands in     *)
(* them go on.  The bank and the failures owe nothing.                     *)
(***************************************************************************)
Fairness ==
  /\ WF_cronVars(StartFetch)
  /\ WF_cronVars(StartSync)
  /\ WF_cronVars(FetchContainerSteps)
  /\ WF_cronVars(SyncContainerSteps)

FairCronSpec == CronSpec /\ Fairness

-----------------------------------------------------------------------------
(* Type invariant: a command that is under way in a container is the one   *)
(* its script waits for.                                                   *)
CronTypeOK ==
  /\ fetchSh \in 0..Len(Order) /\ fetching \in BOOLEAN
  /\ syncSh \in 0..Len(Order) /\ syncing \in BOOLEAN
  /\ due \in BOOLEAN
  /\ fetching => fetchSh > 0
  /\ syncing => syncSh > 0
  /\ fpc[FetchContainer] \in {"check", "save"} => fetching
  /\ spc[SyncContainer] \in {"session", "report", "mark"} => syncing

(* However cron's runs overlap and whatever fails for a while, what the    *)
(* bank goes on showing is reported and marked in the end.  Two things can *)
(* keep it waiting for ever, and only they: a statement of ANY account     *)
(* that cannot be converted, for then fetch.sh fails and && skips every    *)
(* sync (README 142), and a row the ledger refuses in this account or one  *)
(* before it in sync.sh (README 92-96).                                    *)
UpTo(a, b) == \E j, k \in DOMAIN Order : j <= k /\ Order[j] = a /\ Order[k] = b

Blocked(a) ==
  \E i \in Ids \ synced : stored[i] \in Refused /\ UpTo(stored[i].acc, a)

EventuallySynced ==
  \A t \in Statements :
    <>[](t \in bank /\ bank \cap Malformed = {} /\ ~Blocked(t.acc))
      => <>[](t.id \in synced)
=============================================================================
