CONSTANTS
  SectorSize <- MCSectorSize
  Sectors48 <- MCSectors48
  Sectors28 <- MCSectors28
  SectorLimit <- MCSectorLimit
  UllRange <- MCUllRange
  Requests <- HandledRequests
  Readers = {}
  Writers = {w1, w2}
  HwFailures = FALSE
  Orig = Orig
  Junk = Junk
  Empty = Empty

SPECIFICATION Spec
PROPERTY RequestsComplete
CHECK_DEADLOCK FALSE
