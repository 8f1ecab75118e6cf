SPECIFICATION FairClientSpec
CONSTANTS
  c1 = c1
  c2 = c2
  Clients = {c1, c2}
  kMaxConnections = 1
  MaxRequests = 2
  MaxUnread = 1
  MaxFaults = 0
  Kinds = {"valid"}
PROPERTIES
  RequestsAnswered
  IdleSessionsSwept
CHECK_DEADLOCK FALSE
