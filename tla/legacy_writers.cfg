CONSTANTS
  SectorSize <- MCSectorSize
  Sectors48 <- MCSectors48
  Sectors28 <- MCSectors28
  SectorLimit <- MCSectorLimit
  Orig = Orig
  Junk = Junk
  Empty = Empty
  NoOne = NoOne
  U32Range <- MCU32Range
  Requests <- LegacyHandledRequests
  Readers = {}
  Writers = {w1, w2}
  HwFailures = FALSE
SPECIFICATION Spec
PROPERTY RequestsComplete
CHECK_DEADLOCK FALSE
