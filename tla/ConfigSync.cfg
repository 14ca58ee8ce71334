CONSTANTS
  MaxMessages = 3
  MaxTries = 2
SPECIFICATION FairSpec
CHECK_DEADLOCK FALSE
INVARIANTS
  StaleForAReason
PROPERTIES
  OnlyRetriesGoBack
  Handled
