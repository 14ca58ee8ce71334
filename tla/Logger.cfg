SPECIFICATION FairSpec
CONSTANTS
  MaxMessages = 2
  MaxTries = 2
  MaxCrashes = 1
CHECK_DEADLOCK FALSE
INVARIANTS
  UnstoredForAReason
  PublishedIsStored
  StoredTwiceForAReason
  ConversationIsCurrent
PROPERTIES
  Settled
