CONSTANTS
  a = a
  b = b
  c = c
  Groups <- MCGroups
  Batches <- MCBatches
  Streams <- MCStreams
  DirSets <- MCDirSets
  MaxBatches = 6
  Threads = 2
  MaxGroups = 2
  ResponseChildren = 1
  NoResult = NoResult
SPECIFICATION FairSpec
INVARIANTS
  TypeOK
  ResultIsReference
  NothingLeftBehind
PROPERTIES
  Ends
