SPECIFICATION Spec
CONSTANTS
  MaxAttempts = 0
  Horizon = 40
INVARIANT CappedBackoff
CHECK_DEADLOCK FALSE
