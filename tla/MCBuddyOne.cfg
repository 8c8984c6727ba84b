SPECIFICATION Spec
CONSTANTS
  Levels = 8
  Base = 1
  DM_START = 0
  Freelist = 500
  Shl <- MCShl
  Requests = {1, 2, 3, 8, 50, 128}
  Handles = {1}
  MaxAvailable = 1000
INVARIANTS NoCrash WholeAgain
PROPERTIES WalkFinds
CHECK_DEADLOCK FALSE
