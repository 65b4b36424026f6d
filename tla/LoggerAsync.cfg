SPECIFICATION Spec
CONSTANTS
  a = a
  b = b
  Worker = Worker
  NoThread = NoThread
  NoSink = NoSink
  App = {a, b}
  Sinks <- TwoSinks
  Levels <- InfoOnly
  Calls <- SwitchOff
  Async = TRUE
  SinkChanges = "replace"
  MaxMsgs = 2
  MaxPolls = 1
SYMMETRY Symmetry
INVARIANTS
  DecisionHolds
  TypeOK
  MutexDiscipline
  OneOrderForAllSinks
  NoGaps
  DrainedExit
  EmptyQueueLeavesOne
  NoDanglingSink
  SinkMapRaceFree
PROPERTY
  ImplementsDelivery
