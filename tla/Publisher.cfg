SPECIFICATION FairSpec
CONSTANTS
  MaxEvents = 6
  QueueSize = 3
CHECK_DEADLOCK FALSE
INVARIANTS
  NothingLost
  ExitReportsLoss
PROPERTIES
  ImplementsOutbox
  Delivered
