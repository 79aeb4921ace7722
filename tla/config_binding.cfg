CONSTANTS
  Params <- MCParams
  Groups = {log, google}
  TypeOf <- MCTypeOf
  Receivers <- MCReceivers
  NoTag = NoTag
  Sources = {local, remote}
  Signals = TRUE
  Reliable = {remote}
  Held <- MCHeld
  MaxVersions = 3
  local = local
  remote = remote
  vault = vault
  log = log
  google = google
  key = key
SPECIFICATION FairSpec
INVARIANTS TypeOK KeepsValues
PROPERTIES NeverGoesBack ImplementsSettings RefreshConverges
CHECK_DEADLOCK FALSE
