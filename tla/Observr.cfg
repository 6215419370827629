SPECIFICATION FairSpec
CONSTANTS
  w1 = w1
  t1 = t1
  p1 = p1
  p2 = p2
  codex = codex
  Workspaces = {w1}
  Tabs = {t1}
  Panes = {p1, p2}
  Agents = {codex}
  Sessions = {}
  SessionAgent <- OneAgent
  Places <- Shared
  Reported = {"working", "done", "idle", "unknown"}
  AgentStates = {"working", "done"}
  GraceWindow = 1
  ClosedPanesReturn = FALSE
  MaxTime = 1
  EventCap = 3
  MaxChanges = 4
  MaxFaults = 1
  Number <- InOrder
INVARIANTS EventSourced CoveredOrPending LedgerAllocated CountsMatch
PROPERTIES Converges EventuallyCovered DrivesTracker
CHECK_DEADLOCK FALSE
