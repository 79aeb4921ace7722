CONSTANTS
  Users = {u1}
  Procs = {p1}
  Lifetime = 2
  Margin = 1
  Omits = {}
  Omitted = Omitted
  NoUser = NoUser
  MaxTime = 4
  MaxGrants = 1
SPECIFICATION Spec
PROPERTIES StoredTokenNotExpired
