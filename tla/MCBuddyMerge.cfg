SPECIFICATION Spec
CONSTANTS
  Levels = 6
  Base = 1
  DM_START = 100
  Freelist = 200
  Shl <- MCShl
  Requests = {1, 2, 4, 8, 16}
  Handles = {1, 2, 3}
  MaxAvailable = 130
PROPERTIES SplitsOnlyEmpty
CHECK_DEADLOCK FALSE
