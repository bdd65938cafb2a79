CONSTANTS
  c1 = c1
  c2 = c2
  t1 = t1
  t2 = t2
  NoTicket = NoTicket
  Clients = {c1, c2}
  Tickets = {t1, t2}
  Ids = {"__global", "a", "b", "c"}
  Requests <- GetRequests
  Messages <- GetMessages
  Modes = {"sync", "asyncSent"}
  ForeignIds = {"c"}
  Waits = {"waitForever"}
  Orderly = TRUE
  SharedIds = FALSE
  TimeoutsFire = FALSE
  Failures = FALSE
  Stops = FALSE
SPECIFICATION AnsweredSpec
CHECK_DEADLOCK FALSE
INVARIANTS
  WaitersExclude
  SentIsTracked
  ManagerSurvives
PROPERTIES
  SyncCallReturns
