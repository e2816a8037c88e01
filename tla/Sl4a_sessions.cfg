SPECIFICATION FairSpec
CONSTANTS
  Threads = {t1, t2}
  Owner = owner
  Ports = {p1, p2}
  NoPort = NoPort
  Nobody = Nobody
  MaxReports = 1
  MaxErrors = 2
  LateStops = FALSE
INVARIANTS
  ServersApart
  SessionServed
  ReportsBounded
PROPERTY
  FinalizeEnds
CHECK_DEADLOCK FALSE
