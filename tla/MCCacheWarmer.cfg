CONSTANTS
  r = r
  s = s
  t = t
  Dirs = {r, s, t}
  Roots = {r, s}
  Children <- MCChildren
  Depth = 1
  Threads = 2
  Caps = {2, 3}
  TTL = 4
  Interval = 1
  Margin = 2
SPECIFICATION FairSpec
INVARIANTS
  TypeOK
  WarmStaysWarm
  PassIsBreadthFirst
PROPERTIES
  RunsUntilStopped
