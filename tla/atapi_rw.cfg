CONSTANTS
  CdSectorSize <- MCCdSectorSize
  CdLastLba <- MCCdLastLba
  SectorLimit <- MCSectorLimit
  UllRange <- MCUllRange
  CdRequests <- CdInMediumRequests
  CdReaders = {c1, c2}
  DiskCallers = {d1}
  HwErrors = TRUE
  NoOne = NoOne
SPECIFICATION Spec
INVARIANTS
  TypeOK
  InProgressOwned
  CdBusWithinMedium
PROPERTIES
  SleeperWoken
CHECK_DEADLOCK FALSE
