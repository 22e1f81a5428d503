CONSTANTS
  t1 = t1
  t2 = t2
  k1 = k1
  k2 = k2
  k3 = k3
  NoThread = NoThread
  NoKey = NoKey
  Threads = {t1, t2}
  Keys <- MCKeys
  Sizes <- MCSizes
  TTL = 2
  MaxBytes = 2
SPECIFICATION FairSpec
INVARIANTS
  TypeOK
  ByteAccounting
  OneScanPerKey
PROPERTIES
  PutEvictsUnderPressure
  Answered
