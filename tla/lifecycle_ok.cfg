CONSTANTS
  Slots <- MCSlots
  SectorSize <- MCSectorSize
  HwConfigs <- GoodMachines
SPECIFICATION Spec
INVARIANTS
  TypeOK
  
  
  
  NamesDistinct
CHECK_DEADLOCK FALSE
