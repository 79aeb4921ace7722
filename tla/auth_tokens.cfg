CONSTANTS
  Users = {u1, u2}
  Procs = {p1, p2}
  Lifetime = 2
  Margin = 1
  Omits = {"id_token"}
  Omitted = Omitted
  NoUser = NoUser
  MaxTime = 3
  MaxGrants = 2
SPECIFICATION Spec
SYMMETRY ProcSymmetry
INVARIANTS TypeOK OwnTokens RowsUsable
