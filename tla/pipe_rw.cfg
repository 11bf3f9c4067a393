CONSTANTS
  a = a
  nl = nl
  Data <- MCData
  NL = nl
  Capacity <- MCCapacity
  Sizes <- MCSizes
  Calls <- MCCalls
SPECIFICATION Spec
INVARIANTS
  TypeOK
PROPERTY ImplementsChannel
CHECK_DEADLOCK FALSE
