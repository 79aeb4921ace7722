CONSTANTS
  Fetchers = {f1}
  Syncers = {s1}
  Ids = {i1, i2, i3}
  Accounts = {a1, a2}
  Statements <- MCStatements
  Malformed <- MCMalformed
  Refused <- MCRefused
  NoTrx = NoTrx
  MaxFaults = 1
  a1 = a1
  a2 = a2
  i1 = i1
  i2 = i2
  i3 = i3
  b1 = b1
  b2 = b2
SPECIFICATION Spec
INVARIANTS TypeOK FetchCompletes DuplicatesNeedFaults
PROPERTIES SyncedNeverReportedAgain ImplementsOutbox
