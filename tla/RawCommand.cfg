\* Two attempts and one request: the client's attempts end and
\* begin under a handler of the API.
CONSTANTS
  MaxAttempts = 2
  Destroyers = {}
  Handlers = {h1}
SPECIFICATION RawSpec
INVARIANTS
  EchoedOnce
  QueuedOnceSetUp
PROPERTIES
  TakenNickIsSaved
CHECK_DEADLOCK FALSE
