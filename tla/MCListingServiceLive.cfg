CONSTANTS
  c1 = c1
  c2 = c2
  p1 = p1
  p2 = p2
  w1 = w1
  NoOne = NoOne
  NoEntry = NoEntry
  Clicks = {c1}
  Filtered = {}
  Parents = {p1, p2}
  Warms = {}
  PoolSize = 2
  QueryThreads = 1
  MaxEpoch = 1
  Rows <- MCRows
  Contents <- MCChanging
  Wanted <- MCWanted
  ListingCap = 2
  PageMax = 4
  PageFloor = 2
SPECIFICATION FairSpec
INVARIANTS
  NobodyWaitsInVain
PROPERTIES
  RegistryDrains
  Answered
