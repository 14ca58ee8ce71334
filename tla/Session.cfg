CONSTANTS
  Names = {n1, n2}
  Length = 2
  MaxNickTries = 2
  NoNick = NoNick
  Channels = {c1, c2}
SYMMETRY SessionSymmetry
SPECIFICATION Spec
CHECK_DEADLOCK FALSE
INVARIANTS
  NicksAreMembers
  MultiReachesItsChannels
PROPERTIES
  NeverTwice
  SavedFollowsJoined
  OnlyAskedNickIsSaved
