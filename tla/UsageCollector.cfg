SPECIFICATION FairSpec
CONSTANTS
  p1 = p1
  root = root
  child = child
  Panes = {p1}
  Sessions = {root, child}
  Shown <- ShownOne
  Tree <- Family
  TransitionCap = 1
  DeltaCap = 1
  MaxChanges = 2
  MaxUsage = 1
  MaxFaults = 1
INVARIANTS TypeOK UsageConserved NewestSyncKept
PROPERTIES BillingImplemented ActiveConverges UsageCatchesUp
CHECK_DEADLOCK FALSE
