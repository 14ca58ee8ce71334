CONSTANTS
  MaxHighlights = 4
SPECIFICATION FairSpec
INVARIANTS
  NotifiedOnce
  NothingForgotten
PROPERTIES
  LimitHoldsAlone
  Settled
