SPECIFICATION Spec
CONSTANTS
  p1 = p1
  root = root
  child = child
  Panes = {p1}
  Sessions = {root}
  Shown <- ShownOne
  Tree <- Family
  TransitionCap = 1
  DeltaCap = 2
  MaxChanges = 2
  MaxUsage = 1
  MaxFaults = 1
PROPERTY StartedNotDropped
CHECK_DEADLOCK FALSE
