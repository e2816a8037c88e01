SPECIFICATION Spec
CONSTANTS
  a = a
  b = b
  u1 = u1
  u2 = u2
  w1 = w1
  NoThread = NoThread
  NoQueue = NoQueue
  NoName = NoName
  NoEvent = NoEvent
  Names <- TwoNames
  Users <- OneUser
  Workers <- OneWorker
  Ops <- TakesAndMatches
  Wanted <- Second
  MaxEvents = 2
  MaxOps = 1
  MaxStarts = 1
  MaxQueues = 4
  RpcMayFail = FALSE
  WaitForever = FALSE
INVARIANTS
  OldestFirst
  CloseIsFinal
