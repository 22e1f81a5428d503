CONSTANTS
  r1 = r1
  r2 = r2
  r3 = r3
  kA = kA
  kB = kB
  NoJob = NoJob
  Requests = {r1, r2, r3}
  KeyOf <- MCTwoKeys
  MaxWorkers = 1
  MaxQueue = 1
SPECIFICATION Spec
INVARIANTS
  BacklogIsBounded
