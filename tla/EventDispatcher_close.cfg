SPECIFICATION FairSpec
CONSTANTS
  a = a
  b = b
  u1 = u1
  u2 = u2
  w1 = w1
  NoThread = NoThread
  NoQueue = NoQueue
  NoName = NoName
  NoEvent = NoEvent
  Names <- OneName
  Users <- OneUser
  Workers <- OneWorker
  Ops <- KeepsAndClears
  Wanted <- Second
  MaxEvents = 2
  MaxOps = 1
  MaxStarts = 2
  MaxQueues = 3
  RpcMayFail = TRUE
  WaitForever = FALSE
INVARIANTS
  EventKept
PROPERTIES
  EventsPolled
  CloseReturns
