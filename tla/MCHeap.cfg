SPECIFICATION HeapSpec
CONSTANTS
  Levels = 4
  Base = 1
  DM_START = 0
  Freelist = 200
  Shl <- MCShl
  Requests = {1}
  Handles = {1, 2, 3, 4, 5, 6, 7, 8, 9}
  MaxAvailable = 24
  PageWords = 8
  Skew = 5
  SlabCount = 4
  ObjSize <- MCObjSize
  Garbage = {0, 1, 8}
  PageCounts = {1, 8, 9}
  AskedSizes = {1, 2, 3, 8}
  MaxObjects = 2
INVARIANTS HeapTypeOK FaultsHaveAReason Exclusive OverflowOutside
CHECK_DEADLOCK FALSE
