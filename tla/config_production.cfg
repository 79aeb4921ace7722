CONSTANTS
  Params <- MCTwoParams
  Groups = {log}
  TypeOf <- MCTwoTypeOf
  Receivers <- MCTwoReceivers
  NoTag = NoTag
  Sources = {local, remote}
  Signals = FALSE
  Reliable = {local, remote}
  Held <- MCTwoHeld
  MaxVersions = 2
  local = local
  remote = remote
  vault = vault
  log = log
  google = google
  key = key
SPECIFICATION FairSpec
PROPERTIES RefreshConverges
CHECK_DEADLOCK FALSE
