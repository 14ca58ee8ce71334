\* One attempt, and two requests at once that may both ask for a nick.
CONSTANTS
  MaxAttempts = 1
  Destroyers = {}
  Handlers = {h1, h2}
SPECIFICATION RawSpec
PROPERTIES
  TakenNickIsSaved
CHECK_DEADLOCK FALSE
