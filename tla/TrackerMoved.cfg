SPECIFICATION Spec
CONSTANTS
  w1 = w1
  w2 = w2
  t1 = t1
  t2 = t2
  p1 = p1
  p2 = p2
  codex = codex
  u1 = u1
  Workspaces = {w1, w2}
  Tabs = {t1}
  Panes = {p1}
  Agents = {codex}
  Sessions = {}
  SessionAgent <- OneAgent
  Places <- Roaming
  Reported = {"working", "done"}
  GraceWindow = 1
  ClosedPanesReturn = FALSE
  MaxTime = 3
INVARIANT LedgerAllocated
CHECK_DEADLOCK FALSE
