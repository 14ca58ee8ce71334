\* One id and three commands for it; two servers' queries, one handled at a time.
\* The API may have a create and a destroy under way at once, but
\* never two creates or two destroys.
\* The second client's user has no name that can be sent.
CONSTANTS
  Ids = {i1}
  Handlers = {h1, h2, h3}
  MaxClients = 2
  Overlaps = {{"create", "destroy"}}
  Askers = {a1, a2}
  MaxConns = 1
  Nameless = {2}
SYMMETRY Symmetry
SPECIFICATION IdentSpec
INVARIANTS
  EventsAgree
  RunningIsListed
  ShutdownClosesListed
  NoUserIsTrue
CHECK_DEADLOCK FALSE
