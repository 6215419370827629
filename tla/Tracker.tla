------------------------------- MODULE Tracker -------------------------------
(***************************************************************************)
(* internal/tracker: the live picture of one Herdr session that herdr-     *)
(* observr keeps in memory.  Every operation below is one exported method  *)
(* of Tracker, executed under Tracker.mu, hence one atomic step.  The      *)
(* arguments are what Herdr may report: events carry no sequence number    *)
(* and may be lost, repeated or late, so the standalone specification lets *)
(* them come in any order.                                                 *)
(*                                                                         *)
(* Abstracted: labels, UpdatedAt, the agent's type and tab (written,       *)
(* exported as attributes, never read back), and the amounts in            *)
(* DurationByState (never read), of which only "allocated or nil" is kept. *)
(***************************************************************************)
EXTENDS Integers, FiniteSets

CONSTANTS
  Workspaces, Tabs, Panes, \* identities Herdr may use
  Agents,                  \* agent types, e.g. "codex"
  Sessions,                \* agent_session values
  SessionAgent,            \* the agent type an agent_session itself names
  Places,                  \* <<pane, workspace, tab>> where a pane may be reported
  Reported,                \* the statuses Herdr reports
  GraceWindow,             \* retention of closed records, in clock units
  ClosedPanesReturn,       \* may a snapshot list a pane whose record was closed?
  MaxTime                  \* bound on the clock

None   == ""  \* Go's zero string: no id, no agent, no session
Zero   == 0   \* Go's zero time
Status == {"idle", "working", "blocked", "done", "unknown", None}

ASSUME PlacesAssumption == Places \subseteq Panes \X Workspaces \X Tabs
ASSUME PanesAssumption == IsFiniteSet(Panes)
ASSUME ReportedAssumption == Reported \subseteq Status
ASSUME NoneAssumption == None \notin Workspaces \cup Tabs \cup Agents \cup Sessions
ASSUME SessionAgentAssumption == SessionAgent \in [Sessions -> Agents]
ASSUME TimeAssumption == GraceWindow \in Nat /\ MaxTime \in Nat
ASSUME ReturnAssumption == ClosedPanesReturn \in BOOLEAN

VARIABLES
  workspaces, \* the set of known workspaces
  tabs,       \* tab -> [ws, closedAt]
  panes,      \* pane -> [ws, tab, agent, status, session, closedAt]
  agents,     \* pane -> [ws, status, enteredAt, attentionAt, ledger, closedAt]
  sessions,   \* agent_session -> [pane, ws, tab, agent]
  counts,     \* [global : status -> count, workspace : <<ws, status>> -> count]
  now,        \* the clock the Apply* methods read
  emitted,    \* what the last call sent on the tracker's three channels
  sampledTo,  \* history: up to when the time of each pane has been exported
  panicked    \* a write to a nil DurationByState map ended the process

vars == <<workspaces, tabs, panes, agents, sessions, counts, now, emitted,
          sampledTo, panicked>>

-----------------------------------------------------------------------------
(* Records, and the close helpers.                                         *)

TabRecord == [ws : Workspaces \cup {None}, closedAt : Nat]
PaneRecord == [ws : Workspaces \cup {None}, tab : Tabs \cup {None},
               agent : Agents \cup {None}, status : Status,
               session : Sessions \cup {None}, closedAt : Nat]
AgentRecord == [ws : Workspaces, status : Status, enteredAt : Nat,
                attentionAt : Nat, ledger : BOOLEAN, closedAt : Nat]
Attribution == [pane : Panes, ws : Workspaces, tab : Tabs, agent : Agents \cup {None}]

NewTab == [ws |-> None, closedAt |-> Zero]
NewPane == [ws |-> None, tab |-> None, agent |-> None, status |-> None,
            session |-> None, closedAt |-> Zero]

Live(f) == {k \in DOMAIN f : f[k].closedAt = Zero}
Closed(f) == DOMAIN f \ Live(f)

\* The map f after storing record r at key k.
Put(f, k, r) == [x \in DOMAIN f \cup {k} |-> IF x = k THEN r ELSE f[x]]
\* The record at k, or the zero record: what indexing a Go map yields.
At(f, k, zero) == IF k \in DOMAIN f THEN f[k] ELSE zero

\* Stamp every live record of K closed; closed ones keep their stamp.
Close(f, K) ==
  [k \in DOMAIN f |-> IF k \in K \cap Live(f)
                        THEN [f[k] EXCEPT !.closedAt = now] ELSE f[k]]

\* Mutant: records go as soon as the window is up, not after it.
RetainedLess(f) ==
  {k \in DOMAIN f : k \in Live(f) \/ now - f[k].closedAt < GraceWindow}

\* Drop the closed records whose grace window has elapsed.
Retained(f) ==
  {k \in DOMAIN f : k \in Live(f) \/ now - f[k].closedAt <= GraceWindow}
Evict(f) == [k \in Retained(f) |-> f[k]]

-----------------------------------------------------------------------------
(* Live per-state counts.                                                  *)

Count(f, k) == IF k \in DOMAIN f THEN f[k] ELSE 0
\* Mutant: a count starts again at one.
AddOneFresh(f, k) == Put(f, k, 1)
AddOne(f, k) == Put(f, k, Count(f, k) + 1)

\* Mutant: the workspace bucket is forgotten.
IncrGlobalOnly(c, w, s) == [c EXCEPT !.global = AddOne(@, s)]
Incr(c, w, s) == [global    |-> AddOne(c.global, s),
                  workspace |-> AddOne(c.workspace, <<w, s>>)]

InState(A, s) == {p \in A : agents[p].status = s}
InBucket(A, w, s) == {p \in InState(A, s) : agents[p].ws = w}

\* The agents of A whose decrement finds its workspace bucket above zero. The
\* others are logged and skipped; which ones they are is up to map iteration.
Counted(A) ==
  CHOOSE U \in SUBSET A :
    \A p \in A :
      LET w == agents[p].ws
          s == agents[p].status
          n == Count(counts.workspace, <<w, s>>)
          k == Cardinality(InBucket(A, w, s))
      IN Cardinality(InBucket(U, w, s)) = IF k <= n THEN k ELSE n

\* Mutant: emptied workspace buckets stay, at zero.
DecrKeepsZero(A) ==
  [global    |-> [s \in DOMAIN counts.global |->
                    counts.global[s] - Cardinality(InState(Counted(A), s))],
   workspace |-> [k \in DOMAIN counts.workspace |->
                    counts.workspace[k] - Cardinality(InBucket(Counted(A), k[1], k[2]))]]

\* counts once the agents of A have left their states. Workspace entries are
\* dropped at zero, global ones are not.
Decr(A) ==
  LET U == Counted(A)
      left(k) == counts.workspace[k] - Cardinality(InBucket(U, k[1], k[2]))
      stay(s) == counts.global[s] - Cardinality(InState(U, s))
  IN [global    |-> [s \in DOMAIN counts.global |-> IF stay(s) > 0 THEN stay(s) ELSE 0],
      workspace |-> [k \in {x \in DOMAIN counts.workspace : left(x) > 0} |-> left(k)]]

-----------------------------------------------------------------------------
(* Exported samples.                                                       *)

Nothing == [latencies |-> {}, durations |-> {}, transitions |-> {}]

\* Mutant: an agent closed while done loses its attention latency.
EmitUnlessClosed(A, transitions) ==
  /\ ~panicked
  /\ emitted' = [latencies   |-> {[pane |-> p, duration |-> now - agents[p].attentionAt]
                                    : p \in IF transitions = {} THEN {} ELSE InState(A, "done")},
                 durations   |-> {[pane |-> p, state |-> agents[p].status,
                                   duration |-> now - agents[p].enteredAt] : p \in A},
                 transitions |-> transitions]
  /\ sampledTo' = [p \in Panes |-> IF p \in A THEN now ELSE sampledTo[p]]

\* The open intervals of the agents in A end now: their state durations and,
\* for those in done, their attention latencies are sent. (Every call either
\* emits or is silent, and a process that panicked makes no call.)
Emit(A, transitions) ==
  /\ ~panicked
  /\ emitted' = [latencies   |-> {[pane |-> p, duration |-> now - agents[p].attentionAt]
                                    : p \in InState(A, "done")},
                 durations   |-> {[pane |-> p, state |-> agents[p].status,
                                   duration |-> now - agents[p].enteredAt] : p \in A},
                 transitions |-> transitions]
  /\ sampledTo' = [p \in Panes |-> IF p \in A THEN now ELSE sampledTo[p]]

Silent == ~panicked /\ emitted' = Nothing /\ UNCHANGED sampledTo

-----------------------------------------------------------------------------
Init ==
  /\ workspaces = {}
  /\ tabs = <<>> /\ panes = <<>> /\ agents = <<>> /\ sessions = <<>>
  /\ counts = [global |-> <<>>, workspace |-> <<>>]
  /\ now = 1
  /\ emitted = Nothing
  /\ sampledTo = [p \in Panes |-> Zero]
  /\ panicked = FALSE

ApplyWorkspaceCreated(w) ==
  /\ workspaces' = workspaces \cup {w}
  /\ Silent
  /\ UNCHANGED <<tabs, panes, agents, sessions, counts, now, panicked>>

ApplyTabCreated(t, w) ==
  /\ tabs' = Put(tabs, t, [At(tabs, t, NewTab) EXCEPT !.ws = w])
  /\ Silent
  /\ UNCHANGED <<workspaces, panes, agents, sessions, counts, now, panicked>>

\* A rename may leave the workspace out.
ApplyTabRenamed(t, w) ==
  /\ tabs' = Put(tabs, t, [At(tabs, t, NewTab) EXCEPT !.ws = IF w = None THEN @ ELSE w])
  /\ Silent
  /\ UNCHANGED <<workspaces, panes, agents, sessions, counts, now, panicked>>

\* The close of tabs T, panes P and agents A, each idempotent. The write to an
\* agent's ledger needs it allocated: NilMapPanic is the other outcome.
CloseAll(T, P, A) ==
  LET C == A \cap Live(agents)
  IN /\ \A p \in C : agents[p].ledger
     /\ tabs' = Close(tabs, T)
     /\ panes' = Close(panes, P)
     /\ agents' = [p \in DOMAIN agents |->
                     IF p \in C THEN [agents[p] EXCEPT !.ledger = FALSE, !.closedAt = now]
                                ELSE agents[p]]
     /\ counts' = Decr(C)
     /\ Emit(C, {})
     /\ UNCHANGED <<sessions, now, panicked>>

In(f, w) == {k \in DOMAIN f : f[k].ws = w}

ApplyWorkspaceClosed(w) ==
  /\ workspaces' = workspaces \ {w}
  /\ CloseAll(In(tabs, w), In(panes, w), In(agents, w))

ApplyTabClosed(t) ==
  LET P == {p \in DOMAIN panes : panes[p].tab = t}
  IN CloseAll({t}, P, P) /\ UNCHANGED workspaces

\* Mutant: the agent of a closed pane is forgotten.
ApplyPaneClosedOnly(p) == CloseAll({}, {p}, {}) /\ UNCHANGED workspaces

ApplyPaneClosed(p) == CloseAll({}, {p}, {p}) /\ UNCHANGED workspaces

\* A created event overwrites a live record whole; one in grace ignores it.
ApplyPaneCreated(p, w, t) ==
  /\ IF p \in Closed(panes)
       THEN UNCHANGED <<panes, tabs>>
       ELSE /\ panes' = Put(panes, p, [NewPane EXCEPT !.ws = w, !.tab = t])
            /\ tabs' = IF t = None THEN tabs
                       ELSE Put(tabs, t, [At(tabs, t, NewTab) EXCEPT !.ws = w])
  /\ Silent
  /\ UNCHANGED <<workspaces, agents, sessions, counts, now, panicked>>

ApplyAgentDetected(p, a) ==
  /\ IF p \in Closed(panes)
       THEN UNCHANGED panes
       ELSE panes' = Put(panes, p, [At(panes, p, NewPane) EXCEPT !.agent = a])
  /\ Silent
  /\ UNCHANGED <<workspaces, tabs, agents, sessions, counts, now, panicked>>

\* Late: the pane or the agent is in its grace window, so nothing is applied.
StatusAbsorbed(p) ==
  /\ p \in Closed(panes) \/ p \in Closed(agents)
  /\ Silent
  /\ UNCHANGED <<panes, agents, counts>>

\* The upsert of the pane that every applied status event starts with.
UpsertPane(p, w, a, s) ==
  /\ p \notin Closed(panes) \cup Closed(agents)
  /\ panes' = Put(panes, p, [At(panes, p, NewPane) EXCEPT
                               !.ws = w, !.agent = a, !.status = s])

\* Mutants: no attention clock; no map for the ledger.
NewAgentUnclocked(w, s) ==
  [ws |-> w, status |-> s, enteredAt |-> now, attentionAt |-> Zero,
   ledger |-> TRUE, closedAt |-> Zero]
NewAgentNoLedger(w, s) ==
  [ws |-> w, status |-> s, enteredAt |-> now,
   attentionAt |-> IF s = "done" THEN now ELSE Zero,
   ledger |-> FALSE, closedAt |-> Zero]

NewAgent(w, s) ==
  [ws |-> w, status |-> s, enteredAt |-> now,
   attentionAt |-> IF s = "done" THEN now ELSE Zero,
   ledger |-> TRUE, closedAt |-> Zero]

StatusFirstSeen(p, w, a, s) ==
  /\ UpsertPane(p, w, a, s)
  /\ p \notin DOMAIN agents
  /\ agents' = Put(agents, p, NewAgent(w, s))
  /\ counts' = Incr(counts, w, s)
  /\ Silent

StatusRepeated(p, w, a, s) ==
  /\ UpsertPane(p, w, a, s)
  /\ p \in DOMAIN agents
  /\ agents[p].status = s
  /\ Silent
  /\ UNCHANGED <<agents, counts>>

\* Mutants: the workspace is not updated; the clock is not restarted.
EnteredStaysPut(r, w, s) ==
  [r EXCEPT !.status = s, !.enteredAt = now,
            !.attentionAt = IF s = "done" THEN now ELSE IF r.status = "done" THEN Zero ELSE @]
EnteredKeepsEntry(r, w, s) ==
  [r EXCEPT !.ws = w, !.status = s,
            !.attentionAt = IF s = "done" THEN now ELSE IF r.status = "done" THEN Zero ELSE @]

\* The record r of an agent that enters state s in workspace w.
Entered(r, w, s) ==
  [r EXCEPT !.ws = w, !.status = s, !.enteredAt = now,
            !.attentionAt = IF s = "done" THEN now ELSE IF r.status = "done" THEN Zero ELSE @]

\* The open interval of p is exported and the interval of s opens, in w.
Move(p, w, s) ==
  LET left == Decr({p})
  IN /\ agents[p].ledger
     /\ agents' = [agents EXCEPT ![p] = Entered(@, w, s)]
     /\ counts' = Incr(left, w, s)
     /\ Emit({p}, {[pane |-> p, previous |-> agents[p].status, new |-> s]})

StatusTransition(p, w, a, s) ==
  /\ UpsertPane(p, w, a, s)
  /\ p \in DOMAIN agents
  /\ agents[p].status # s
  /\ Move(p, w, s)

ApplyAgentStatusChanged(p, w, a, s) ==
  /\ \/ StatusAbsorbed(p)
     \/ StatusFirstSeen(p, w, a, s)
     \/ StatusRepeated(p, w, a, s)
     \/ StatusTransition(p, w, a, s)
  /\ UNCHANGED <<workspaces, tabs, sessions, now, panicked>>

\* The silent done -> idle of an agent the user looked at.
ApplySeenFlip(p) ==
  /\ IF p \in InState(Live(agents), "done")
       THEN /\ Move(p, agents[p].ws, "idle")
            /\ panes' = IF p \in DOMAIN panes
                          THEN [panes EXCEPT ![p].status = "idle"] ELSE panes
       ELSE Silent /\ UNCHANGED <<panes, agents, counts>>
  /\ UNCHANGED <<workspaces, tabs, sessions, now, panicked>>

\* The write of an interval into a live agent's nil DurationByState map, by
\* whichever close, transition or seen-flip comes first.
NilMapPanic(p) ==
  /\ ~panicked
  /\ p \in Live(agents) /\ ~agents[p].ledger
  /\ panicked' = TRUE
  /\ UNCHANGED <<workspaces, tabs, panes, agents, sessions, counts, now,
                 emitted, sampledTo>>

EvictExpired ==
  /\ tabs' = Evict(tabs)
  /\ panes' = Evict(panes)
  /\ agents' = Evict(agents)
  /\ Silent
  /\ UNCHANGED <<workspaces, sessions, counts, now, panicked>>

-----------------------------------------------------------------------------
(* session.snapshot: a function from the listed panes to what it says of   *)
(* each. A workspace and a tab are listed when they hold a listed pane.    *)

PaneReports(p) ==
  {[ws |-> pl[2], tab |-> pl[3], agent |-> a, status |-> s, session |-> x]
     : pl \in {q \in Places : q[1] = p}, a \in Agents \cup {None},
       s \in Reported, x \in Sessions \cup {None}}

Reports == UNION {PaneReports(p) : p \in Panes}

Snapshots ==
  UNION {{f \in [P -> Reports] : \A p \in P : f[p] \in PaneReports(p)} : P \in SUBSET Panes}

SnapWorkspaces(snap) == {snap[p].ws : p \in DOMAIN snap}
SnapTabs(snap) == {snap[p].tab : p \in DOMAIN snap}

\* The agent a pane's session is attributed to.
SessionAgentType(r) == IF r.agent = None THEN SessionAgent[r.session] ELSE r.agent

\* The re-baseline: everything is rebuilt from the snapshot, but an agent whose
\* status is what was tracked, by a record live or closed, keeps that record's
\* clocks and ledger.
ApplySnapshot(snap) ==
  LET held == {p \in DOMAIN snap : snap[p].agent # None}
      kept(p) == p \in DOMAIN agents /\ agents[p].status = snap[p].status
      shown(x) == {p \in DOMAIN snap : snap[p].session = x}
      at(w, s) == {p \in held : snap[p].ws = w /\ snap[p].status = s}
      having(s) == {p \in held : snap[p].status = s}
  IN /\ workspaces' = SnapWorkspaces(snap)
     /\ tabs' = [t \in SnapTabs(snap) |->
                   [ws |-> (CHOOSE r \in {snap[p] : p \in DOMAIN snap} : r.tab = t).ws,
                    closedAt |-> Zero]]
     /\ panes' = [p \in DOMAIN snap |->
                    [ws |-> snap[p].ws, tab |-> snap[p].tab, agent |-> snap[p].agent,
                     status |-> snap[p].status, session |-> snap[p].session,
                     closedAt |-> Zero]]
     /\ \E last \in [{x \in Sessions : shown(x) # {}} -> DOMAIN snap] :
          /\ \A x \in DOMAIN last : last[x] \in shown(x)
          /\ sessions' = [x \in DOMAIN last |->
               [pane |-> last[x], ws |-> snap[last[x]].ws, tab |-> snap[last[x]].tab,
                agent |-> SessionAgentType(snap[last[x]])]]
     /\ agents' = [p \in held |->
                     IF kept(p) THEN [agents[p] EXCEPT !.ws = snap[p].ws, !.closedAt = Zero]
                                ELSE NewAgent(snap[p].ws, snap[p].status)]
     /\ counts' = [global    |-> [s \in {snap[p].status : p \in held} |-> Cardinality(having(s))],
                   workspace |-> [k \in {<<snap[p].ws, snap[p].status>> : p \in held} |->
                                    Cardinality(at(k[1], k[2]))]]
     /\ Silent
     /\ UNCHANGED <<now, panicked>>

\* Diff: read-only. A pane or tab in grace is skipped, and counts as known.
SilentFlip(snap, p) == panes[p].status = "done" /\ snap[p].status = "idle"
Described(r) == <<r.ws, r.tab, r.agent, r.status>>

Diff(snap) ==
  LET both == Live(panes) \cap DOMAIN snap
      flips == {p \in both : SilentFlip(snap, p)}
      differ == {p \in both \ flips : Described(panes[p]) # Described(snap[p])}
  IN [drifted |-> \/ workspaces # SnapWorkspaces(snap)
                  \/ ~(Live(tabs) \subseteq SnapTabs(snap))
                  \/ ~(SnapTabs(snap) \subseteq DOMAIN tabs)
                  \/ ~(Live(panes) \subseteq DOMAIN snap)
                  \/ ~(DOMAIN snap \subseteq DOMAIN panes)
                  \/ differ # {},
      flips   |-> flips]

-----------------------------------------------------------------------------
(* What one collection of metrics observes (app/telemetry.go): a point per *)
(* state for the session, one for each workspace that has a bucket, and    *)
(* the number of agents at work or blocked in each such workspace.         *)

Gauged == Status \ {None}

Gauges ==
  LET listed == {k[1] : k \in DOMAIN counts.workspace}
      here(w, s) == Count(counts.workspace, <<w, s>>)
  IN [total      |-> [s \in Gauged |-> Count(counts.global, s)],
      within     |-> [w \in listed |-> [s \in Gauged |-> here(w, s)]],
      concurrent |-> [w \in listed |-> here(w, "working") + here(w, "blocked")]]

-----------------------------------------------------------------------------
Tick ==
  /\ now < MaxTime
  /\ now' = now + 1
  /\ Silent
  /\ UNCHANGED <<workspaces, tabs, panes, agents, sessions, counts, panicked>>

Event ==
  \/ \E pl \in Places :
       \/ ApplyWorkspaceCreated(pl[2])
       \/ ApplyWorkspaceClosed(pl[2])
       \/ ApplyTabCreated(pl[3], pl[2])
       \/ ApplyTabClosed(pl[3])
       \/ \E w \in {pl[2], None} : ApplyTabRenamed(pl[3], w)
       \/ ApplyPaneCreated(pl[1], pl[2], pl[3])
       \/ ApplyPaneClosed(pl[1])
       \/ \E a \in Agents \cup {None} : ApplyAgentDetected(pl[1], a)
       \/ \E a \in Agents \cup {None}, s \in Reported :
            ApplyAgentStatusChanged(pl[1], pl[2], a, s)

\* Whether a snapshot may list a pane that was just closed is a constant: that
\* is a matter of how Herdr reuses its ids.
Rebaseline ==
  \E snap \in Snapshots :
    /\ ClosedPanesReturn \/ DOMAIN snap \cap Closed(panes) = {}
    /\ ApplySnapshot(snap)

Next ==
  \/ Event
  \/ \E p \in Panes : ApplySeenFlip(p) \/ NilMapPanic(p)
  \/ EvictExpired
  \/ Rebaseline
  \/ Tick

Spec == Init /\ [][Next]_vars

-----------------------------------------------------------------------------
WellFormed ==
  /\ workspaces \subseteq Workspaces
  /\ DOMAIN tabs \subseteq Tabs /\ \A t \in DOMAIN tabs : tabs[t] \in TabRecord
  /\ DOMAIN panes \subseteq Panes /\ \A p \in DOMAIN panes : panes[p] \in PaneRecord
  /\ DOMAIN agents \subseteq Panes /\ \A p \in DOMAIN agents : agents[p] \in AgentRecord
  /\ DOMAIN sessions \subseteq Sessions
  /\ \A x \in DOMAIN sessions : sessions[x] \in Attribution
  /\ DOMAIN counts.global \subseteq Status
  /\ \A s \in DOMAIN counts.global : counts.global[s] \in Nat
  /\ DOMAIN counts.workspace \subseteq Workspaces \X Status
  /\ \A k \in DOMAIN counts.workspace : counts.workspace[k] \in Nat \ {0}
  /\ now \in Nat \ {0}
  /\ sampledTo \in [Panes -> Nat]
  /\ panicked \in BOOLEAN

NoClockAhead ==
  /\ \A t \in DOMAIN tabs : tabs[t].closedAt <= now
  /\ \A p \in DOMAIN panes : panes[p].closedAt <= now
  /\ \A p \in DOMAIN agents :
       now >= agents[p].enteredAt /\ now >= agents[p].attentionAt /\ now >= agents[p].closedAt
  /\ \A p \in Panes : sampledTo[p] <= now

(* Every record is well formed, every stored count is natural (zeros stay  *)
(* only in the global map, as decrState leaves them), and no time stamp    *)
(* runs ahead of the clock, so no exported duration is negative.           *)
TypeOK == WellFormed /\ NoClockAhead

(* The counts the gauges export are the number of live agents in each      *)
(* state, session-wide and per workspace, whatever the wire delivers: no   *)
(* cascade, late event, move or re-baseline loses or repeats one.          *)
CountsMatch ==
  /\ \A s \in Status :
       Count(counts.global, s) = Cardinality(InState(Live(agents), s))
  /\ \A w \in Workspaces, s \in Status :
       Count(counts.workspace, <<w, s>>) = Cardinality(InBucket(Live(agents), w, s))

(* A collection observes the session as it is: every state of the session  *)
(* has a point, absent entries and leftover zeros alike; a workspace has a *)
(* series exactly while it has a live agent, so none goes stale and none   *)
(* is left behind by the last close; and its concurrency is the number of  *)
(* its live agents that are working or blocked.                            *)
GaugesTruthful ==
  LET busy(w) == {p \in Live(agents) : /\ agents[p].ws = w
                                       /\ agents[p].status \in {"working", "blocked"}}
  IN /\ \A s \in Gauged : Gauges.total[s] = Cardinality(InState(Live(agents), s))
     /\ DOMAIN Gauges.within = {agents[p].ws : p \in Live(agents)}
     /\ \A w \in DOMAIN Gauges.within, s \in Gauged :
          Gauges.within[w][s] = Cardinality(InBucket(Live(agents), w, s))
     /\ \A w \in DOMAIN Gauges.concurrent : Gauges.concurrent[w] = Cardinality(busy(w))

(* The attention clock runs exactly while the agent is in done, and from   *)
(* the moment it entered done, across re-baselines that carry it over.     *)
AttentionClock ==
  \A p \in DOMAIN agents :
    agents[p].attentionAt = IF agents[p].status = "done" THEN agents[p].enteredAt ELSE Zero

(* An attention latency is exported with the state duration of the same    *)
(* done interval, and no done interval is exported without its latency.    *)
LatencyIsDoneDuration ==
  {[pane |-> l.pane, duration |-> l.duration] : l \in emitted.latencies}
    = {[pane |-> d.pane, duration |-> d.duration] :
         d \in {e \in emitted.durations : e.state = "done"}}

(* No stretch of a pane's time is exported twice: what is still to be      *)
(* exported of a live agent starts where the last sample of its pane ended.*)
NoIntervalSampledTwice ==
  \A p \in Live(agents) : agents[p].enteredAt >= sampledTo[p]

(* The next close or transition of a live agent has a map to write to.     *)
LedgerAllocated == \A p \in Live(agents) : agents[p].ledger

(* A live agent sits in a live pane: no close reaches one without the      *)
(* other, so no count outlives the pane that Diff compares.                *)
AgentInLivePane == Live(agents) \subseteq Live(panes)

(* A closed record stays as it is until its grace window has elapsed or a  *)
(* re-baseline replaces it: late events change nothing and leave no        *)
(* phantom behind.                                                         *)
ClosedIsFinal ==
  [][\A p \in Closed(agents) :
       \/ p \in DOMAIN agents' /\ agents'[p] = agents[p]
       \/ p \notin DOMAIN agents' /\ now - agents[p].closedAt > GraceWindow
       \/ Rebaseline]_vars
=============================================================================
