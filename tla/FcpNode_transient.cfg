CONSTANTS
  c1 = c1
  c2 = c2
  t1 = t1
  t2 = t2
  NoTicket = NoTicket
  Clients = {c1, c2}
  Tickets = {t1, t2}
  Ids = {"__global", "a", "None"}
  Requests <- BasicRequests
  Messages <- BasicMessages
  Modes = {"sync", "async"}
  ForeignIds = {}
  Waits = {"waitSent", "tillSent"}
  Orderly = FALSE
  SharedIds = TRUE
  TimeoutsFire = TRUE
  Failures = TRUE
  Stops = FALSE
SPECIFICATION Spec
SYMMETRY Symmetry
CHECK_DEADLOCK FALSE
INVARIANTS
  TypeOK
  IInv
  WaiterHasResult
  ResolvedIsGone
  SentIsOnWire
  CrashFailsWaiting
PROPERTIES
  ResultIsFinal
