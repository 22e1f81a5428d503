CONSTANTS
  pA = pA
  pB = pB
  name = name
  byName = byName
  all = all
  None = None
  Paths = {pA, pB}
  Root = pA
  Sorts = {byName}
  FirstSort = byName
  Names = {all, name}
  NoName = all
  PagesOf <- MCPagesOf
  PageCacheMax = 1
  MaxLoads = 2
  MaxRollups = 2
SPECIFICATION Spec
INVARIANTS
  TypeOK
  ShownIsAsked
  PanelIsOfThisPath
  
  InFlightIsWorkedOn
  DotsAreHonest
VIEW UpToNames
