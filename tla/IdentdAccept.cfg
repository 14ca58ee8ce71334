\* One connection, and one server that asks about it.
CONSTANTS
  Ids = {i1}
  Handlers = {h1}
  MaxClients = 1
  Overlaps = {}
  Askers = {a1}
  MaxConns = 1
  Nameless = {}
SPECIFICATION IdentSpec
INVARIANTS
  AcceptedIsFound
CHECK_DEADLOCK FALSE
