SPECIFICATION Spec
CONSTANTS
  a = a
  b = b
  Worker = Worker
  NoThread = NoThread
  NoSink = NoSink
  App = {a, b}
  Sinks <- OneSink
  Levels <- InfoOnly
  Calls <- HotCalls
  Async = TRUE
  SinkChanges = "any"
  MaxMsgs = 2
  MaxPolls = 1
SYMMETRY Symmetry
INVARIANTS
  MutexDiscipline
  NoGaps
