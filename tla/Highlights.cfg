SPECIFICATION FairSpec
CONSTANTS
  MaxEdits = 3
  MaxNotices = 2
  Blank = {2}
CHECK_DEADLOCK FALSE
INVARIANTS
  PatternsStaleForAReason
PROPERTIES
  PatternsFollow
