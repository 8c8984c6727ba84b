SPECIFICATION Spec
CONSTANTS
  VM_AREA_MAX = 4
  Pages = {10, 20}
  Lengths = {1, 2}
  Types = {"PPT_UC", "PPT_WB"}
  MaxMaps = 3
  NONE = NONE
INVARIANTS MappingsStay
CHECK_DEADLOCK FALSE
