CONSTANTS
  Mono = {m1}
  PB = {p1, p2}
  Codes = {c1}
  Amounts = {n1, n2}
  Days = 1
  BankZone <- MCBankZone
  FetcherZone <- MCFetcherZone
  Lags = {0, 1, 12}
  MaxLag = 12
  MaxOutage = 12
  Steps = {12}
  Idle = Idle
  MaxTime = 60
  MaxPosted = 2
SPECIFICATION Spec
INVARIANTS TypeOK OnlyTwinsAreMissed
SYMMETRY CardSymmetry
