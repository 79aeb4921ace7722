CONSTANTS
  Trxs = {t1, t2, t3}
  NoTrx = NoTrx
  MaxFiles = 2
  MaxFaults = 2
SPECIFICATION FairSpec
INVARIANTS TypeOK LossesNeedSignIn DuplicatesNeedFaults
PROPERTIES ImplementsOutbox RunsEnd EventuallyMarked
