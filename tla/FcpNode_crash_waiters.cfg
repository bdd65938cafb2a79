CONSTANTS
  c1 = c1
  t1 = t1
  NoTicket = NoTicket
  Clients = {c1}
  Tickets = {t1}
  Ids = {"__global", "a", "b", "c"}
  Requests <- GetRequests
  Messages <- GetMessages
  Modes = {"sync"}
  ForeignIds = {}
  Waits = {}
  Orderly = FALSE
  SharedIds = TRUE
  TimeoutsFire = FALSE
  Failures = TRUE
  Stops = FALSE
SPECIFICATION FairSpec
CHECK_DEADLOCK FALSE
PROPERTIES
  CrashReachesWaiters
