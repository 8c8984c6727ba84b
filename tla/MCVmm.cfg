SPECIFICATION Spec
CONSTANTS
  VM_AREA_MAX = 4
  Pages = {10, 20}
  Lengths = {1, 2, 3}
  Types = {"PPT_UC", "PPT_WT", "PPT_WC"}
  MaxMaps = 4
  NONE = NONE
  IndexBits = 2
  SignBits = 2
  FrameBits = 6
INVARIANTS TypeOK NoOverrun LatestMapped AddressesCountOn EntriesMeanWhatWasAsked
CHECK_DEADLOCK FALSE
