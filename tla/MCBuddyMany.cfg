SPECIFICATION Spec
CONSTANTS
  Levels = 6
  Base = 1
  DM_START = 100
  Freelist = 200
  Shl <- MCShl
  Requests = {1, 2, 3, 8, 16, 33}
  Handles = {1, 2, 3}
  MaxAvailable = 130
INVARIANTS TypeOK TreeInBounds GrantsInArea OrderKept
PROPERTIES CallsReturn
CHECK_DEADLOCK FALSE
