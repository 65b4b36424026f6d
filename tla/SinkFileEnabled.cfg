SPECIFICATION Spec
CONSTANTS
  log1 = log1
  log2 = log2
  Paths <- OnePath
  Faults <- NoFaults
  MaxLines = 2
  MaxFiles = 1
  NoSink = NoSink
INVARIANTS
  OpenWhenEnabled
