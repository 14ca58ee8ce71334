\* The API may issue a command for an id again while the first is under way.
CONSTANTS
  Ids = {i1}
  Handlers = {h1, h2, h3, h4}
  MaxClients = 2
  Overlaps = {{"create"}, {"destroy"}, {"create", "destroy"}}
SYMMETRY Symmetry
SPECIFICATION Spec
INVARIANTS
  RunningIsListed
CHECK_DEADLOCK FALSE
