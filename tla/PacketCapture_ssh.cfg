SPECIFICATION FairSpec
CONSTANTS
  Bands = {g2}
  Main = main
  NoBand = NoBand
  NoUser = NoUser
  MaxFile = 2
INVARIANTS
  MasterKept
  FilesPulled
PROPERTY
  StopReturns
CHECK_DEADLOCK FALSE
