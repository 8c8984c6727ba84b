SPECIFICATION Spec
CONSTANTS
  ENTRIES = 4
  BIG = 2
  KernelEnds = {1, 2, 3, 5}
  Machines <- MCMachines
  Features <- MCFeatures
INVARIANTS TypeOK FaultsOnlyIfDropped HandsOver FaultsOnlyOnOthers PatDecides RegistersReached
PROPERTIES BootEnds
