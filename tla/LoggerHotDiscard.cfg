SPECIFICATION Spec
CONSTANTS
  a = a
  b = b
  Worker = Worker
  NoThread = NoThread
  NoSink = NoSink
  App = {a}
  Sinks <- TwoSinks
  Levels <- InfoOnly
  Calls <- DiscardOnly
  Async = TRUE
  SinkChanges = "any"
  MaxMsgs = 1
  MaxPolls = 1
INVARIANTS
  NoDanglingSink
