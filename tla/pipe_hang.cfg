CONSTANTS
  a = a
  nl = nl
  Data <- MCData
  NL = nl
  Capacity <- MCCapacity
  Sizes <- MCSizes
  Calls <- MCCalls
SPECIFICATION Spec
PROPERTY CallsReturn
CHECK_DEADLOCK FALSE
