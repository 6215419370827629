SPECIFICATION Spec
CONSTANTS
  EventCap = 2
  WireCap = 2
  MaxFails = 1
INVARIANT RunsUntilSignalled
CHECK_DEADLOCK FALSE
