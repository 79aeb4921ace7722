# A model of the transactions fetcher

This directory is a verification project for the transactions fetcher: TLA+
modules translated from its Go source, TLC configurations that check them on small
instances, and proofs that TLAPS checks for every value of the constants. Paths
are relative to the repository's root.

## 1. The system

Transactions of bank accounts are copied into a ledger service through a table of
a local database. There are no servers: every part is a command that runs to its
end, started by cron or by hand, and what one command leaves for the next is in the
database.

    bank --> fetch-transactions --> transactions table --> ledger sync --> ledger
                                                              |
             auth --------------> users table <---------------+ (id token)

| part | code | state | operations |
|---|---|---|---|
| transactions table | `pkg/dal/sql_storage.go` | a row per transaction id: the DTO, `synced_at` | exists, upsert, find not synced |
| users table | same | a row per email: id token, refresh token | find by email, upsert |
| fetch-transactions | `cmd/fetch-transactions/main.go` | the slice it was answered, its place in the loop | fetch; per statement convert, check, save |
| bank fetchers | `pkg/banks/...` | none | ask for a window; convert a statement, with its id |
| ledger sync | `cmd/ledger/main.go` | the rows it read, its place in the loop | read; session; per row report, mark |
| ledger client | `pkg/ledger/api.go`, `pkg/lib-core-golang/request` | a session's cookie and CSRF token, open connections | new session, list accounts, report |
| auth | `pkg/auth`, `cmd/auth` | the row at hand | RegisterUser, FetchAuthToken |
| config binding | `pkg/lib-core-golang/config/config.go`, `params.go` | the receiver's fields, the goroutine | Bind, a refresh per tick |
| config sources | `local_source.go`, `aws_ssm_source.go` | none (files and store are outside) | GetParameters |
| deployment | `README.md` 60-145, `bin/create-containers.sh` | two containers, shells of cron | start, next line, stop |
| wiring, diagnostics, test support | `pkg/app`, `pkg/lib-core-golang/diag`, `tools` | none that matters | |

How they interact: the two commands share only the table; `ledger sync` calls auth
for an id token, which may call Google and write the users table; every command
binds its configuration first, and leaves a goroutine behind that refreshes it.

What is hard here, with the lines in the `hazards` of PROJECT.json:

- **Copies that grow stale.** Both commands write rows whole, from copies they took
  earlier. A row that is marked as synced is written from what was read before the
  first report; the refresh of an id token writes back a refresh token read before
  Google was asked.
- **Check, then act.** A fetch looks for an id and saves it in two statements.
- **Partial failure.** A process may fail between any two steps: between the
  ledger's taking a transaction and the mark is where duplicates come from. A
  read error in the middle of a result ends the loop like its end does.
- **Late delivery.** A report whose sender gave up may still arrive.
- **Progress that rests on repetition.** No command retries anything; cron runs
  them all again, and one failing line of a script holds up what is behind it.
- **Windows and clocks.** What a bank shows late has to be inside a later window,
  and dates are compared across time zones whose clocks change.
- **A success that is none.** A report is a success when the last answer of its
  redirects is a 2xx, which may be the ledger's sign-in page; an incomplete session
  is not noticed before.
- **Things used up.** The body of a successful report is never closed, and keeps a
  connection; the save that follows the report needs a file of its own.
- **Silent conversions.** An amount is cut at a separator, a date is read in the wrong
  zone, a number makes a bool false: no error is reported. The models keep out of the
  first two.
- **Ids that are not one statement's.** monoua's id outlives a change of the amount,
  pbanua2x's is a hash without the card and without the zone.
- **Order of answers.** Values of a parameter store in no order, files that are
  edited while they are read.

What makes each part correct is the subject of the next two sections.

## 2. The modules

Each definition that stands for code is named after it, and `map` in PROJECT.json
gives its lines. Constants carry named assumptions, as weak as the code allows.
Operators described as mutants in their comments are faulty variants of the
definition below them; each property has one that breaks it.

### Outbox: what the table promises

The abstract specification. A transaction is recorded once, its row is never
rewritten, only recorded transactions are delivered, and a row is confirmed only
after the ledger has taken that very transaction. Delivery is at least once.

### Settings and Credentials: what Bind and the users table promise

Two more abstract specifications. `Settings` is a receiver as its program sees it: Bind fails, and
leaves it alone from then on, or returns with a value in every field that has a source; afterwards
each field follows its source on its own and never back. There is no goroutine,
no tick, no answer at hand. `Loose` are the fields of type bool. `Credentials` is the
users table as the commands that read it see it: a consent that is registered replaces
both tokens, a renewal only a stale id token, and only by one that lives longer. There
are no processes and no requests; a step is one save.

### Pipeline: table, fetch-transactions and ledger sync

Composes the table with any number of fetches and syncs, the bank and the ledger.

| action | code |
|---|---|
| `Fetch`, `CheckExists`, `SaveFetched`, `FetchDone` | the loop of `cmd/fetch-transactions/main.go` 59-105, a step for each query |
| `FetchMalformed`, `FetchFails` | `ToDTO` or a query fails, the process is killed |
| `FindNotSynced`, `StartSession`, `Report`, `MarkSynced`, `SyncDone` | `cmd/ledger/main.go` 84-128 |
| `FindTruncated` | `rows.Err()` is not asked (`sql_storage.go` 139-157) |
| `ReportUnanswered`, `LedgerTakesLate` | no 2xx comes back, and the report arrives later or never |
| `ReportRefused`, `SyncFails` | an error status; any other failure |
| `BankPosts`, `BankForgets` | the bank: statements appear, are amended, leave the window |

A row is `stored[id]` with `id \in synced` for its `synced_at`. The upsert writes
all columns, and so does `SavePendingTransaction`. A statement is its id, its
account and a body that stands for the other columns. Slices are sets whose
elements are taken in any order: no query has an ORDER BY, and the order of a bank's
answer is the bank's. `late` counts reports under way whose sender has failed.

The ledger is the only judge of a report: `Refused` are those it answers with
an error status, always the same ones. That a 2xx means it took the transaction is
an assumption here, and the subject of the next module.

### LedgerSession: the same sync, down to its requests

One account and one process, with the session, the redirects and the open files that
Pipeline leaves out. A row never changes here, which is Pipeline's subject; there are
rows to which `Record` adds, and the commands `sync` and `accounts` run one at a time.

| action | code |
|---|---|
| `FindNotSynced`, `Accounts` | `cmd/ledger/main.go` 62-98; the id token is AuthTokens' |
| `NewAPI` | `api.go` 61-98: an answer may lack the cookie or the token |
| `ListAccounts`, `ReportPendingTransaction` | `api.go` 33-55 |
| `LedgerTakesReport`, `LedgerTurnsAway`, `LedgerErrs` | the ledger's answer: an error status, a 2xx, or a redirect |
| `Do` | the page at the end of the redirects, `request.go` 133-187 |
| `ReportFails`, `ReportSucceeds` | `newResFactory`: 300 and above is an error; the body of a 2xx stays open |
| `MarkSynced`, `SyncDone`, `Fails` | `cmd/ledger/main.go` 109-132 |
| `MarkFails` | the save of line 123 finds no file left (`FileLeft`) |
| `SessionEnds`, `LedgerGetsLate` | the ledger: sessions end, late reports arrive |

`site` is the one fact about the ledger this repository does not tell: whether it answers
like a site, with redirects to pages, or with statuses only. Both are checked. `wire` is the
report under way or its answer, and `atSignIn` a history variable: the rows that were
reported with success at the sign-in page.

`MaxFiles` are the files a process can have open besides those it always has. A body that
nobody closes holds its connection, and with it a file (`conns`); an answer without a body leaves
its connection for the next request (`kept`), or the ledger closes it. A save needs a file for
as long as it lasts, which is how the store of `sql_storage.go` 12, SQLite, writes a row: with
a journal beside the database. So it is the mark that fails first, and never the request
behind it, which would reuse or open a connection where the save had a file. `lostMarks`, a history
variable, counts these marks.

### Cron: production

Composes Pipeline with the containers of `bin/create-containers.sh`, `fetch.sh` and
`sync.sh` (a command per account, under `set -e`) and the crontab entry of
`README.md` 142. Starting a container that runs only attaches to it, so the
shells of cron may overlap and the commands in a container cannot. Failures are those
of Pipeline; a script ends at the first command that fails and `&&` then skips the
sync.

### BankFetch: windows and ids

The same fetches over days, to ask whether each statement is inside some window
that is fetched. Time is in hours; monoua compares instants, pbanua2x dates, cut in
the fetcher's zone and read in the bank's. A zone is its hours ahead of UTC at each time
(`BankZone`, `FetcherZone`), so that clocks may be put forward and back, and the bank's
show an hour twice.

| definition | code |
|---|---|
| `FetchStarts`, `FetchSucceeds`, `FetchFails` | `cmd/fetch-transactions/main.go` 73-111 |
| `CoveredByMono`, `CoveredByPB` | the windows of the two `fetcher.go` |
| `MonoId`, `PBId` | `monoua/model.go` 36; `pbanua2x/model.go` 95-104: no card, the bank's wall clock |
| `SameId`, `HasRow` | the existence check looks for the id alone |
| `Save` | a row for each new id, of whichever statement comes first |
| `BankPosts`, `HoldSettles`, `Passes` | the banks and the clock |

`HoldSettles` is a monoua statement whose amount changes under the same id, any time
later: `posted` has all versions, `shown` what the bank answers now.

### AuthTokens: the users table

`RegisterUser` and `FetchAuthToken`, a step for each request to Google and each
query, in any number of processes. An id token is its claims, a refresh token the
number of the consent it was granted for. Google's answers may lack the
fields in `Omits`, and a JSON answer without a field decodes to the empty
string, `Omitted`. Consents can be withdrawn.

### ConfigBinding: Bind and its goroutine

`BindParams` reads the tags of the receiver (`params.go` 100-192), or `BindFails`. The
initial load follows, which any source can make fail, and then the goroutine: tick, a round
over the sources, a step for each parameter set, and the send on `onRefreshed`,
which only `withSignals` makes a channel of (`Signals`). A tick is dropped while
another waits.

A receiver is its tags. A parameter's source is its own tag or its group's
(`SourceOf`), and only registered sources are visited. A value is the version of its parameter
at the source, with its kind: `Takes` are the kinds of which each type makes a
value, and `MadeFalse` those of which bool makes false without an error. `Converted` is what
`setValue` leaves in a field.

### ConfigSources: the two GetParameters

`localSource` reads its files one at a time while people edit them, and lets the
environment override them. `awsSSMSource` sees the names of the store's answer in
any order. A value is told by where it comes from. `ScopesAssumption` says that
within a scope no two parameters have the same name, without which the maps of
`aws_ssm_source.go` 76-89 lose one of them. A name may belong to the cluster scope
of one and to the service scope of another, and `SetByName` looks in both as the code
does.

## 3. The runs

Passing runs, with the number of distinct states and the time on two workers:

| run | instance | asks | states |
|---|---|---|---|
| `pipeline_single` | one fetch, one sync, two accounts, three ids, four statements (two of them versions of one, one refused, one malformed), 1 failure | `ImplementsOutbox`; `FetchCompletes`; `SyncedNeverReportedAgain`; `DuplicatesNeedFaults` | 69 k, 8 s |
| `pipeline_race` | two fetches, two syncs, one id with two versions, 1 failure | `SyncedWasAccepted`: whatever overwrites whatever, a marked row is what the ledger took; `DuplicatesNeedFaults`; `RunsEnd` | 230 k, 25 s |
| `cron_live` | the containers, two accounts with a good statement each, one of which may also be shown refused or malformed, 1 failure | `EventuallySynced`, under fairness | 175 k, 45 s |
| `ledger_session` | three transactions, two files, two failures, a ledger that redirects and one that does not | `ImplementsOutbox`; `LossesNeedSignIn`; `DuplicatesNeedFaults`; `RunsEnd`; `EventuallyMarked`, under fairness | 134 k, 30 s |
| `bank_fetch` | one card at monoua, two at pbanua2x, one code and two amounts, 60 hours in steps of 12, lags of 0, 1 or 12 h, a bank 12 or 13 h ahead, both clocks put back once, outages up to 12 h, window of 1 day, two statements or versions | `OnlyTwinsAreMissed` | 813 k, 40 s |
| `auth_tokens` | two users, two processes, answers that may lack the id token | `OwnTokens`; `RowsUsable` | 223 k, 7 s |
| `auth_live` | two users, one process, five units of time, lifetime 1, two consents | `ImplementsCredentials`; `RefreshTokenNeverGoesBack`; `StaleIsRefreshed`, under fairness | 60 k, 22 s |
| `config_binding` | a string, an int and a bool, of a source that may fail for ever, a reliable one and one nobody registered; four receivers, two of them wrongly tagged; three versions | `ImplementsSettings`; `KeepsValues`; `NeverGoesBack`; `RefreshConverges`, under fairness | 164 k, 48 s |
| `config_sources` | three files of any content (a parameter or two, none, garbled, absent), one edit; two parameters, three names, one of which belongs to both; an overridden parameter | `FilesOverride`; `ClusterPreferred` | 268 k, 8 s |

Each also checks its module's type invariant, which carries what is at hand
at which place of the code. Every run finishes its whole state space.

Why these bounds. A violation of a safety property of Pipeline needs at most two
copies of one row out of date with each other, hence two fetches, two syncs and two
versions of a statement; a second account and a second id are there for ids and
filters that get mixed up. One failure is enough to separate any two steps of one run,
and further ones repeat it: the theorem on duplicates is proved for any
number of failures, fetches and syncs. Bodies matter only in whether they differ. In `ledger_session` three
transactions are one more than the files, so that a run loses a mark for want of one
with a row left for the next, which may lose another, and two failures are an incomplete session
and another failure after it. In `cron_live` the second account has a statement that must get
through as well as two that block it. Sixty hours are a window, the longest outage and a day more, so
that the first statements fall out of the window. Steps of 12 hours, with a bank about as far ahead,
let fetches, dates and the bank's midnight fall on both sides of each other, and the lags of 0 and 1
give a statement in each of the two hours that the bank's clocks show alike. Two
statements are a version and its settled form, two twins of two cards, or two of that hour, all
of which come up with one of them missing.
Two consents are an old and a new refresh token,
and three of each version show a step from a state that is not the
first. Three files have one before and one after another; the order of
answers is complete at three names. Symmetry is used for processes, and in `bank_fetch` for
cards, only in runs without liveness. Deadlock is checked except for
`config_binding` and `config_production`, where Bind may fail and the goroutine
stop.

### Disagreements

Three runs are expected to end in a violation; `findings` in PROJECT.json quotes both
sides.

- `auth_expiry`: `StoredTokenNotExpired`. The margin of `pkg/auth/auth.go` 60 is on
  the wrong side: tokens are refreshed 15 seconds after their expiry and not "15 seconds
  before".
- `auth_lost_update`: `RefreshKeepsRefreshToken`. A registration between the
  read and the save of a refresh loses its new refresh token.
- `config_production`: `RefreshConverges` under the same fairness as in
  `config_binding`, without `withSignals`: the goroutine blocks on a nil channel after
  its first round, and later changes never arrive. The passing run shows that the channel
  is the only thing in the way.

### Fairness

- `Cron!Fairness`: cron fires again and again (every ten minutes, `README.md`
  142), shells go on when what they wait for has ended, and commands under way go on
  when nothing fails. The HTTP clients have no timeout
  (`pkg/lib-core-golang/request/request.go` 142), so that requests end is an
  assumption. The bank, late reports and failures owe nothing; failures are finite, by
  `MaxFaults`. Weak fairness suffices, for each container is one sequential process.
- `LedgerSession!Fairness`: a command that runs goes on, weakly fair, for every request
  ends. Sync is started again and again (`README.md` 142), and the container is free for it
  infinitely often; `FindNotSynced` is strongly fair because `accounts` may run in between,
  started by hand. Nothing outside is fair: sessions and connections need not break.
- `AuthTokens!Fairness`: of infinitely many attempts at Google's refresh of a user's token
  some succeed, and so do some of those at the save. It is strong since a failed run takes
  the step's precondition away. That a token is asked for is no part of it: sync does so only
  with rows to report (`cmd/ledger/main.go` 93-96), and a script stops at its first failing
  line, so that `StaleIsRefreshed` speaks of users whose token is asked for again and
  again (`AskedForEver`) and of no others.
- `ConfigBinding!Fairness`: the goroutine runs, the timer ticks, and a reliable
  source answers some of the rounds that ask it. A source outside `Reliable` may
  fail for ever.

## 4. The proofs

All theorems hold for every value of the constants that satisfies the named
assumptions; the bounds (`MaxFaults` and so on) are any natural numbers.

| module | theorem | by way of |
|---|---|---|
| PipelineProofs | `TypeCorrect` | itself |
| | `SyncedAccepted`: any number of fetches and syncs | `AcceptedInv` |
| | `FetchComplete`: under `IdsPerAccount` | `FetchInv` |
| | `OutboxImplemented`: `OneFetcher`, any number of syncs | `OutboxInv` |
| | `NotReportedAgain`: `OneFetcher`, `OneSyncer` | `PendingInv` |
| | `DuplicatesArePaidFor`: any finite numbers of fetches and syncs | `CountInv` |
| | `EveryRunEnds` | `FiniteInv` |
| CronProofs | `ContainersCorrect`, `CronRunsPipeline` | `CronInv` |
| | `ProductionIsOutbox`, `ProductionReportsOnce`, `ProductionDuplicates` | Pipeline's theorems |
| | `ProductionFetchesAll`: under `IdsPerAccount` | the same |
| LedgerSessionProofs | `TypeCorrect` | itself |
| | `NoSilentLoss` | `SessionInv` |
| | `DuplicatesArePaidFor` | `CountInv`, `LostInv` |
| | `OutboxImplemented` | `TakenInv` |
| | `MarkedWasTaken` | `SessionInv`, `TakenInv` |
| | `EveryRunEnds` | `TypeOK` |
| BankFetchProofs | `TypeCorrect`, `NothingSlips`: under `WindowIsWide` | `ReachInv` |
| AuthTokensProofs | `TypeCorrect`, `TokensOwned`, `RowsStayUsable` | `OwnInv`, `CompleteInv` |
| | `RefreshTokenKept`: `OneProcess`, `Omits = {}` | `LatestInv` |
| | `RefreshKeepsIt`: `OneProcess` | `StoredInv` |
| | `CredentialsImplemented`: `OneProcess`, `Omits = {}` | `CredentialsInv` |
| ConfigBindingProofs | `TypeCorrect`, `ValuesKept`, `VersionsRise` | `Inv` (with `Ordered`, `Loaded`) |
| | `SettingsImplemented` | `Inv` |
| ConfigSourcesProofs | `TypeCorrect`, `LaterFilesOverride`, `ClusterFirst` | `SourcesInv` |

The arguments:

- `SyncedWasAccepted` is not inductive, since a mark trusts the copy at hand:
  `AcceptedInv` adds that this copy has been taken by the ledger, which no one can
  undo.
- That the table is an outbox needs that copies are still right when they are
  written. `OutboxInv` says so of every copy: what a sync has read is what is stored
  (`QueueIsStored`), what a fetch is about to save is still missing
  (`AtHandIsMissing`, which needs one fetch at a time), and late
  reports are of stored rows (`LateIsStored`). Each step then records, delivers, confirms or stutters
  (`OutboxStep`). With two fetches it fails, and `SyncedWasAccepted` is what remains.
- No report of a synced transaction: `PendingInv` adds that with one sync
  everything in its slice is still unsynced.
- The number of reports. With several fetches and syncs a transaction is sent again without any
  failure: two syncs that read its row before either marks it both report it, and a fetch that found its row missing saves it as not synced after a sync has
  marked it, and every sync that reads it then reports it. Each pair of a fetch
  and a sync can cost one report, and that is the bound: `F * S` plus the failures. It
  does not follow from counting what was sent, for a sync may report the same row in run after run.
  `CountInv` counts with what was sent what may be sent still (`Spent`): `S` reports for each fetch that has found the
  row missing and has not saved it (`Pending`), and one for each sync that has the row in its slice or would
  read it (`MayReport`). For a stored row this is never above `F * S` and the failures (`Budget`): a save takes
  a fetch from the first set and lets every sync report again, a report takes a sync from
  the second until it fails. `NoneUnstored` says that nobody has sent a row before its first save.
  For one fetch and one sync, as in production, the bound is one report and one more for
  each failure (`ProductionDuplicates`).
- Runs end. The number of steps a run has left (`StepsLeft`; in Pipeline
  `FetchStepsLeft` and `SyncStepsLeft`) is twice its slice, or five times down to the
  requests, plus a rank of where it is with the row at hand; each step takes from it,
  and no other process, nor the bank or the ledger, adds to it. It is a number
  because slices are finite: `FiniteInv` says that the bank and the table are at any time,
  although `Statements` and `Ids` need not be, and that what is about to be marked is in the slice. This is what
  the liveness properties rest on beside fairness, and it holds without any.
- Down to the requests: `TakenInv` says that a row that is marked, or about to be, was taken
  by the ledger or was last reported at the sign-in page. `SessionInv` says that a session that the
  ledger does not know, and a report on its way to the sign-in page, has cost a failure.
  `MarkedWasTaken` puts the two together: without
  a redirect, or without a failure, nothing that is marked was lost.
- Reports and files: `CountInv` is Pipeline's argument again, for each transaction, with
  the marks lost for want of a file beside the failures. These are bounded by themselves: within
  a run, every connection in use but that of the report at hand belongs to a row the run has marked
  (`UsedUp`), so that a run that loses a mark has marked `MaxFiles - 1` rows, which no later run
  touches (`LostInv`). With two files or more, lost marks are at most the rows there are.
- A statement outside all windows: `ReachInv` says that what the last successful fetch of its
  account could see has a row for its id, and that what it could not see is still
  in reach of the next; that of a monoua statement's versions the newest is shown; and
  that monoua's ids are of one statement. `WindowIsWide` asks a window to reach over the longest
  outage and then back to what is shown late, or is dated otherwise in the bank's zone or before a
  change of the clocks. Where it fails, TLC finds a statement that slips through; it is
  sufficient and not tight, as a window reaches back to the start of a date.
- No value goes back: `Ordered` says the answer at hand is no older than the
  field and no newer than the source; `Loaded` that what Bind has visited has a value.
  The same invariant makes the goroutine disappear: a step that sets a field is Bind's `Load` or
  the goroutine's `Follow` of Settings, and all others stutter (`SettingsStep`).
- A refresh writes back what is stored: `StoredInv` says, for one process, that from its read to its
  save the refresh token at hand is the one of the table. `CredentialsInv` adds that the row to
  be replaced is still as stale as it was when it was read, that a registered token lives as long as
  the one it replaces and a refreshed one longer by a lifetime, so that each save registers
  or renews (`CredentialsStep`). With two processes neither holds, as
  `auth_lost_update` shows.
- Files and names: `FilesInv` and `NamesInv` are the loops' invariants: what has been
  determined by the files read, or the names seen, so far.
- In production: every step of Cron is one of Pipeline or a stutter of it
  (`CronStep`), with one fetcher and one syncer, so that Pipeline's theorems hold of it.

Hypotheses on constants: `ProcessesAssumption` (finitely many processes), which a machine
has; `TrxsAssumption`, the same of an account's transactions; `OneProcess`, `OneFetcher` and `OneSyncer`, which the containers
give when nobody runs the commands by hand; `Omits = {}`, that Google answers completely;
`IdsPerAccount`, which monoua's ids give and pbanua2x's may not.

Only model-checked: `EventuallySynced`, `EventuallyMarked`, `StaleIsRefreshed` and
`RefreshConverges`, as TLAPS does not reach liveness under fairness; what is proved towards
them is that runs end. No module has a recursive definition.

## 5. What the checks show

In the deployment of `README.md` every statement that the bank shows within its window is stored once,
reported at least once, and marked only when the ledger took it; it is
reported again only after a failure between report and mark, once for each. What the
containers protect from, and running the commands by hand beside them does not, is two
fetches that overwrite each other's rows: then a row may be reported again without a failure, once at
most for each pair of a fetch and a sync, but it is still never marked unreported. A command
that runs ends, whatever else is run beside it.

That a marked row was taken rests on the ledger. If it answers with statuses, nothing is
lost; if it redirects what it does not know to a sign-in page that answers 200, then a
session that was answered without its cookie or token, or that ends during a long sync, has all rows
behind it marked although the ledger took none of them, and no later run reports them
(`atSignIn`; the TODO of `api.go` 91). `LossesNeedSignIn` says that there is no
other way.

Nothing but time and size is needed for a duplicate, though: each successful report keeps a
connection, and when a long sync has used up its files, the save behind a report fails, and the next
run reports that transaction again. `DuplicatesNeedFaults` bounds it: at most one such
mark for each `MaxFiles - 1` rows that have been marked. With a single file to
spare `EventuallyMarked` would fail too, since every run would lose its first mark.

What can hold a statement up for ever is in `EventuallySynced` itself: a malformed
statement of any account stops `fetch.sh` and with it all syncs; a refused one stops
`sync.sh` for its own account and those after it. In the windows nothing slips through, whatever
the zones and their changes of the clocks, as long as `WindowIsWide`. What
`OnlyTwinsAreMissed` leaves is this:

- a hold at monoua that settles at another amount keeps its id, so the table has the version
  that was fetched first and never the other;
- of pbanua2x statements with the same approval code, amount and wall-clock time, on two
  cards or in the hour that comes twice when the bank's clocks are put back, one has a row;
- operations that are down for longer than the window lose what it would have shown.

## 6. Assumptions, and what is not modelled

- In Pipeline, a 2xx answer means that the ledger took the transaction. LedgerSession
  asks when that is right.
- That the ledger knows a session by its cookie and its token together, and how it turns others
  away (`SignedIn`, `LedgerTurnsAway`), is taken from what the client sends. The request for
  the session itself is not redirected, for its answer has to be JSON.
- Every request ends some time. No client has a timeout.
- The database executes each statement atomically and keeps what it has
  acknowledged. A failed SQL statement has no effect.
- Ids tell accounts apart (`IdsPerAccount`) where a theorem names it; BankFetch
  shows where pbanua2x's may not.
- In BankFetch a fetch that succeeds stores what it was answered in one step; that it
  does is `FetchCompletes` of Pipeline. monoua gives an id to one statement only, and a hold that
  settles keeps its id and its time.
- A save opens one file, the journal, and a request at most one connection at a time; Pipeline has
  no files, and a mark that is lost for want of one is among its failures.
- Config values: of which kind a value is, `Held` says; numbers outside the range of int are
  not distinguished. The unlocked writes to the receiver's fields
  are single assignments that the program reads at start.
- What a row says of its statement besides the id (amount, type, date, comment) is not modelled:
  the program passes it on to the ledger and computes nothing from it. An amount that pbanua2x
  prints with a separator would be cut there (`pbanua2x/model.go` 66-74), dates are off by the difference
  of the zones, and out of order where either's clocks change; nothing here says otherwise. An
  empty amount panics, which is `FetchFails` in BankFetch and `FetchMalformed` in Pipeline.
- Not modelled: logging, request ids and the HTTP middleware (nothing depends on
  them), wiring (constructs each service once), `storage setup` (its result is `Init`), the
  command `auth-url` (it only prints), signatures, XML, JSON and SQL text, the builds, and
  test helpers.

## 7. The plan

Written, in this order: Outbox and Pipeline, as the most important behaviour;
AuthTokens; ConfigBinding; Cron, which composes Pipeline with what runs it;
BankFetch; ConfigSources; LedgerSession; then the tags and conversions of `params.go` in
ConfigBinding, and the time zones and amended holds of BankFetch. Settings and Credentials were stated last, of
modules that were there. Each module has a proof module but the abstract ones, which are only implemented:
Outbox by Pipeline and by LedgerSession, Settings by ConfigBinding, Credentials by AuthTokens.

To come:

1. A binding over the two sources as they are, ConfigSources composed with ConfigBinding
   in place of sources that hold versions.
2. Cron over LedgerSession in place of Pipeline's reports, with Pipeline's syncs of
   several accounts in one session's lifetime.
3. Proofs: that a round of the refreshing goroutine ends, as runs of the commands do.
