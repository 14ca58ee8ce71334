SPECIFICATION FairSpec
CONSTANTS
  MaxAttempts = 2
  Destroyers = {d1}
CHECK_DEADLOCK FALSE
INVARIANTS
  PublishedIsStatus
  EndedOnce
  NeverStranded
  SenderIsLive
  DestroyedIsDown
  StopReasonShown
PROPERTIES
  ImplementsLife
  ImplementsFeed
  DestroyReturns
  LostIsRetried
