CONSTANTS
  t1 = t1
  t2 = t2
  Listers <- MCListers
  Rollers <- MCRollers
  MaxSnap = 2
  MaxEntries = 1
SPECIFICATION FairSpec
INVARIANTS
  TypeOK
  EntriesDescribeTheirEpoch
PROPERTIES
  BackForAReason
  EpochCatchesUp
