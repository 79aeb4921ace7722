CONSTANTS
  Users = {u1, u2}
  Procs = {p1}
  Lifetime = 1
  Margin = 1
  Omits = {}
  Omitted = Omitted
  NoUser = NoUser
  MaxTime = 5
  MaxGrants = 2
SPECIFICATION FairSpec
PROPERTIES StaleIsRefreshed RefreshTokenNeverGoesBack ImplementsCredentials
