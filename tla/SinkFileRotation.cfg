SPECIFICATION Spec
CONSTANTS
  log1 = log1
  log2 = log2
  Paths <- OnePath
  Faults <- Rotation
  MaxLines = 3
  MaxFiles = 2
  NoSink = NoSink
PROPERTIES
  FollowsRotation
