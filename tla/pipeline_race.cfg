CONSTANTS
  Fetchers = {f1, f2}
  Syncers = {s1, s2}
  Ids = {i1}
  Accounts = {a1}
  Statements <- MCVersions
  Malformed <- MCNone
  Refused <- MCNone
  NoTrx = NoTrx
  MaxFaults = 1
  a1 = a1
  a2 = a2
  i1 = i1
  i2 = i2
  i3 = i3
  b1 = b1
  b2 = b2
SPECIFICATION Spec
INVARIANTS SyncedWasAccepted DuplicatesNeedFaults
PROPERTY RunsEnd
SYMMETRY ProcessSymmetry
