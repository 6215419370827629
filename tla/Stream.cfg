SPECIFICATION Spec
CONSTANTS
  EventCap = 2
  WireCap = 2
  MaxFails = 2
INVARIANTS TypeOK ErrorMeansFailure OneReader
PROPERTIES CloseReturns FailureNoticed ShutdownCompletes
CHECK_DEADLOCK FALSE
