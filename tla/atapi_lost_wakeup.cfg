CONSTANTS
  CdSectorSize <- MCCdSectorSize
  CdLastLba <- MCCdLastLba
  SectorLimit <- MCSectorLimit
  UllRange <- MCUllRange
  CdRequests <- CdHandledRequests
  CdReaders = {c1}
  DiskCallers = {d1}
  HwErrors = FALSE
  NoOne = NoOne
SPECIFICATION Spec
PROPERTY AllCallersComplete
CHECK_DEADLOCK FALSE
