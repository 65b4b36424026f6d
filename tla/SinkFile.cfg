SPECIFICATION Spec
CONSTANTS
  log1 = log1
  log2 = log2
  Paths <- TwoPaths
  Faults <- AllFaults
  MaxLines = 3
  MaxFiles = 2
  NoSink = NoSink
SYMMETRY Symmetry
INVARIANTS
  TypeOK
  LinesInOrder
  NothingLost
PROPERTY
  ImplementsLogFiles
