SPECIFICATION Spec
CONSTANTS
  Tests <- TestMissingGenerator
  Missing = {"test_missing"}
  Generators = {"test_g"}
  Settings <- OneSetting
  Iterations = 2
  SetupClassEnds <- AllEnds
  SetupEnds <- SetupSample
  TestEnds <- LoudEnds
  TeardownEnds <- TeardownOrHookEnds
  HookEnds <- HookSample
  BlockedEnds <- TeardownOrHookEnds
  TeardownClassEnds <- TeardownOrHookEnds
INVARIANTS
  PassIsClean
  NothingAfterStop
  TornDownOnce
