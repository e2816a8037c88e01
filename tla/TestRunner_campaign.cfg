SPECIFICATION FairSpec
CONSTANTS
  Beds = 2
  Repeat = 2
  RunList <- Mixed
  Modules <- TwoModules
  ClassEnds <- EveryEnd
  ErrorsIn <- Errors
  MaxSignals = 1
INVARIANTS
  ControllersDestroyed
  NoClassAfterAbort
  ResultsKept
PROPERTIES
  Ends
