SPECIFICATION Spec
CONSTANTS
  c1 = c1
  c2 = c2
  Clients = {c1, c2}
  kMaxConnections = 2
  MaxRequests = 2
  MaxUnread = 1
  MaxFaults = 1
  Kinds = {"valid", "bad"}
SYMMETRY ClientSymmetry
INVARIANTS
  AnswersInOrder
  SessionInv
CHECK_DEADLOCK FALSE
