SPECIFICATION Spec
CONSTANTS
  TTY_MAX_WIDTH = 3
  TTY_MAX_HEIGHT = 2
  LONG = 7
  INT = 4
  Calls <- MCCalls
  Befores <- MCBefores
  MCWords = {0, 9, 24, 63, 64, 127}
INVARIANTS TypeOK ScreenShowsText Printed StopsAtEnd
