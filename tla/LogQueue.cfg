\* Two consumers although ealogger runs one: with one, no notification can go
\* to the wrong thread.
SPECIFICATION FairSpec
CONSTANTS
  p1 = p1
  p2 = p2
  c1 = c1
  c2 = c2
  Pushers = {p1, p2}
  Poppers = {c1, c2}
  MaxPush = 2
  NoThread = NoThread
INVARIANTS
  TypeOK
  MutexDiscipline
  PopHasMessage
  NoLostWakeup
  ExactlyOnceInOrder
  EmptyMeansPopped
PROPERTIES
  ImplementsFifo
