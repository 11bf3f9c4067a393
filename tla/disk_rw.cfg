CONSTANTS
  SectorSize <- MCSectorSize
  Sectors48 <- MCSectors48
  Sectors28 <- MCSectors28
  SectorLimit <- MCSectorLimit
  UllRange <- MCUllRange
  Requests <- HandledRequests
  Readers = {r1}
  Writers = {w1}
  HwFailures = FALSE
  Orig = Orig
  Junk = Junk
  Empty = Empty
SPECIFICATION Spec
INVARIANTS
  TypeOK
  DiskPlacement
  ReadPlacement
  BusWithinCapacity
  NoBufferOverflow
PROPERTIES
  RequestsComplete
CHECK_DEADLOCK FALSE
