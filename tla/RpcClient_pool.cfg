SPECIFICATION FairSpec
CONSTANTS
  m = m
  t1 = t1
  f1 = f1
  c1 = c1
  c2 = c2
  c3 = c3
  c4 = c4
  NoThread = NoThread
  NoConn = NoConn
  MainThread = m
  Callers <- MainOnly
  Workers <- OneWorker
  BadCallers <- MainOnly
  Conns <- ThreeConns
  MaxConn = 1
  Retries = 2
  MaxCalls = 1
  MaxFutures = 1
  CloseMayFail = TRUE
  ServerMayDie = TRUE
  MayTerminate = TRUE
INVARIANTS
  ReturnsOwnAnswer
  PoolNeverCorrupt
  NoConnectionLost
  ConnectionExclusive
  OpenBound
PROPERTIES
  ImplementsLease
  CallsEnd
