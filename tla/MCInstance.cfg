CONSTANTS
  c1 = c1
  c2 = c2
  None = None
  Torn = Torn
  Commands <- MCCommands
  MaxServers = 3
SPECIFICATION Spec
INVARIANTS
  TypeOK
  OneInstance
  Managed
PROPERTIES
  DownMeansDown
  ClearsTheDead
SYMMETRY MCSymmetry
