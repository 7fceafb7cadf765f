CONSTANTS
  c1 = c1  c2 = c2  c3 = c3
  Clients = {c1, c2, c3}
  max_clients = 2
  Backlog = 2
  Kinds = {"plain"}
  MaxAlive = 2
SPECIFICATION Spec
INVARIANTS AcceptedIsPolled
CHECK_DEADLOCK FALSE
