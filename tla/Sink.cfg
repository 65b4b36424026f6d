SPECIFICATION Spec
CONSTANTS
  App = {a, b}
  Worker = Worker
  NoThread = NoThread
  Sinks <- TwoSinks
  Modes <- AnyMode
  Configs <- Constructed
  Calls <- FewCalls
  Char <- AnyString
  Times <- TwoTimes
  Host <- HostName
  Garbage <- Leftovers
  SIZE = 65536
  Templates <- ShortTemplates
  Texts <- ShortTexts
  Paths <- ShortPaths
INVARIANTS
  TypeOK
  NeverBlockedInside
  PatternsFit
  SubstitutedAtOnce
  FileNamesRight
PROPERTIES
  ImplementsSinkPromise
