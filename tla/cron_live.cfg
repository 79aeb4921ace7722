CONSTANTS
  Fetchers = {f1}
  Syncers = {s1}
  Ids = {i1, i2}
  Accounts = {a1, a2}
  Statements <- MCStatements
  Malformed <- MCMalformed
  Refused <- MCRefused
  NoTrx = NoTrx
  MaxFaults = 1
  FetchContainer = f1
  SyncContainer = s1
  Order <- MCOrder
  a1 = a1
  a2 = a2
  i1 = i1
  i2 = i2
  b1 = b1
  b2 = b2
  b3 = b3
SPECIFICATION FairCronSpec
INVARIANTS CronTypeOK
PROPERTIES EventuallySynced
