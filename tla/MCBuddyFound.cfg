SPECIFICATION Spec
CONSTANTS
  Levels = 4
  Base = 1
  DM_START = 100
  Freelist = 200
  Shl <- MCShl
  Requests = {1}
  Handles = {1, 2}
  MaxAvailable = 40
PROPERTIES FoundPageIsReturned
CHECK_DEADLOCK FALSE
