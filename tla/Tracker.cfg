SPECIFICATION Spec
CONSTANTS
  w1 = w1
  w2 = w2
  t1 = t1
  t2 = t2
  p1 = p1
  p2 = p2
  codex = codex
  u1 = u1
  Workspaces = {w1}
  Tabs = {t1}
  Panes = {p1, p2}
  Agents = {codex}
  Sessions = {}
  SessionAgent <- OneAgent
  Places <- Shared
  Reported = {"working", "done"}
  GraceWindow = 0
  ClosedPanesReturn = FALSE
  MaxTime = 2
SYMMETRY Symmetry
INVARIANTS TypeOK CountsMatch GaugesTruthful AttentionClock LatencyIsDoneDuration NoIntervalSampledTwice LedgerAllocated AgentInLivePane
PROPERTY ClosedIsFinal
CHECK_DEADLOCK FALSE
