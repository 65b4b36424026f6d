SPECIFICATION FairSpec
CONSTANTS
  a = a
  b = b
  Worker = Worker
  NoThread = NoThread
  NoSink = NoSink
  App = {a, b}
  Sinks <- TwoSinks
  Levels <- InfoOnly
  Calls <- SwitchOffAsk
  Async = FALSE
  SinkChanges = "none"
  MaxMsgs = 2
  MaxPolls = 0
INVARIANTS
  DecisionHolds
  CallerOrder
PROPERTIES
  CallsReturn
  ImplementsDelivery
