CONSTANTS
  SectorSize <- MCSectorSize
  Sectors48 <- MCSectors48
  Sectors28 <- MCSectors28
  SectorLimit <- MCSectorLimit
  UllRange <- MCUllRange
  Requests <- InCapacityRequests
  Readers = {r1}
  Writers = {}
  HwFailures = FALSE
  Orig = Orig
  Junk = Junk
  Empty = Empty
SPECIFICATION Spec
INVARIANT NoBufferOverflow
CHECK_DEADLOCK FALSE
