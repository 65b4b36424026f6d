SPECIFICATION ExampleSpec
CONSTANTS
  Worker = Worker
  NoThread = NoThread
  NoSink = NoSink
  App = {a}
  Sinks = {0}
  Levels = {}
  Calls = {}
  Async = TRUE
  SinkChanges = "none"
  MaxMsgs = 5
  MaxPolls = 1
INVARIANTS
  ThisWillOutput
