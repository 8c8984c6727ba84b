SPECIFICATION Spec
CONSTANTS
  PGSIZE = 8
  PageStruct = 1
  AreaStruct = 8
  BuddyStructs <- MCBuddyStructs
  BUDDY_MAX_SIZE = 32
  ListStruct = 2
  ReservedSize = 180
  HugePage = 400
  BootInfos <- MCBootInfos
  Lens0 = {24, 32, 72}
  Addrs1 = {80, 100, 104}
  Lens1 = {16, 36, 60, 96}
  Addrs2 = {200, 399, 500}
  Lens2 = {24, 80}
  KernelEnds = {8, 24}
INVARIANTS TypeOK FillAgrees LaidOutInArea EndsForAReason PagesInMap
PROPERTIES BootEnds
