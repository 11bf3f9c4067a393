CONSTANTS
  SectorSize <- MCSectorSize
  Sectors48 <- MCSectors48
  Sectors28 <- MCSectors28
  SectorLimit <- MCSectorLimit
  Orig = Orig
  Junk = Junk
  Empty = Empty
  NoOne = NoOne
  U32Range <- MCU32Range
  Requests <- LegacyHandledRequests
  Readers = {r1}
  Writers = {w1}
  HwFailures = FALSE
SPECIFICATION Spec
INVARIANTS
  TypeOK
  DiskPlacement
  ReadPlacement
  BusWithinCapacity
  NoBufferOverflow
CHECK_DEADLOCK FALSE
