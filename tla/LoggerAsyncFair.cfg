SPECIFICATION FairSpec
CONSTANTS
  a = a
  b = b
  Worker = Worker
  NoThread = NoThread
  NoSink = NoSink
  App = {a, b}
  Sinks <- TwoSinks
  Levels <- InfoStack
  Calls <- SetUpFormat
  Async = TRUE
  SinkChanges = "none"
  MaxMsgs = 1
  MaxPolls = 1
INVARIANTS
  DeliveredAsConfigured
PROPERTIES
  ImplementsLogPipe
  DtorReturns
  EventuallyHandled
