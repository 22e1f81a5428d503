CONSTANTS
  c1 = c1
  c2 = c2
  p1 = p1
  p2 = p2
  w1 = w1
  NoOne = NoOne
  NoEntry = NoEntry
  Clicks = {c1}
  Filtered = {}
  Parents = {p1}
  Warms = {}
  PoolSize = 1
  QueryThreads = 2
  MaxEpoch = 0
  Rows <- MCRows
  Contents <- MCChanging
  Wanted <- MCWanted
  ListingCap = 2
  PageMax = 4
  PageFloor = 2
SPECIFICATION Spec
INVARIANTS
  NotPinnedByPrefetch
