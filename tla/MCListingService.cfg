CONSTANTS
  c1 = c1
  c2 = c2
  p1 = p1
  p2 = p2
  w1 = w1
  NoOne = NoOne
  NoEntry = NoEntry
  Clicks = {c1, c2}
  Filtered = {c2}
  Parents = {p1}
  Warms = {w1}
  PoolSize = 1
  QueryThreads = 1
  MaxEpoch = 0
  Rows <- MCRows
  Contents <- MCContents
  Wanted <- MCWanted
  ListingCap = 3
  PageMax = 4
  PageFloor = 1
SPECIFICATION Spec
INVARIANTS
  TypeOK
  ListingsAreExact
  PagesTile
