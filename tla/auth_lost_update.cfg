CONSTANTS
  Users = {u1}
  Procs = {p1, p2}
  Lifetime = 2
  Margin = 1
  Omits = {}
  Omitted = Omitted
  NoUser = NoUser
  MaxTime = 4
  MaxGrants = 2
SPECIFICATION Spec
PROPERTIES RefreshKeepsRefreshToken
