SPECIFICATION Spec
CONSTANTS
  Beds = 1
  Repeat = 2
  RunList <- TwoEntries
  Modules <- TwoModules
  ClassEnds <- PassOrFail
  ErrorsIn <- NoErrors
  MaxSignals = 1
PROPERTIES
  SignalStopsTests
