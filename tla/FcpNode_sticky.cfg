CONSTANTS
  c1 = c1
  c2 = c2
  t1 = t1
  t2 = t2
  NoTicket = NoTicket
  Clients = {c1, c2}
  Tickets = {t1, t2}
  Ids = {"__global", "a", "b"}
  Requests <- StickyRequests
  Messages <- StickyMessages
  Modes = {"async"}
  ForeignIds = {"b"}
  Waits = {"waitForever"}
  Orderly = FALSE
  SharedIds = TRUE
  TimeoutsFire = FALSE
  Failures = TRUE
  Stops = FALSE
SPECIFICATION Spec
SYMMETRY Symmetry
CHECK_DEADLOCK FALSE
INVARIANTS
  TableMatchesTickets
PROPERTIES
  KeepsPromise
