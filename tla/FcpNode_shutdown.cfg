CONSTANTS
  c1 = c1
  c2 = c2
  t1 = t1
  t2 = t2
  NoTicket = NoTicket
  Clients = {c1, c2}
  Tickets = {t1, t2}
  Ids = {"__global", "a"}
  Requests <- StopRequests
  Messages <- StopMessages
  Modes = {"async"}
  ForeignIds = {}
  Waits = {}
  Orderly = FALSE
  SharedIds = TRUE
  TimeoutsFire = FALSE
  Failures = TRUE
  Stops = TRUE
SPECIFICATION FairSpec
CHECK_DEADLOCK FALSE
INVARIANTS
  StoppedMeansStopped
PROPERTIES
  EnqueuedIsServed
  ShutdownReturns
