------------------------------- MODULE Observr -------------------------------
(***************************************************************************)
(* internal/app with internal/events: the event loop of App.Run, its       *)
(* reconnects, and the reconcile goroutine of Tracker.Run, sharing one     *)
(* tracker and talking to one Herdr session.                               *)
(*                                                                         *)
(* The two goroutines interleave at every call into the tracker: its mutex *)
(* covers single calls only. onReport, which app.go says runs on the loop  *)
(* goroutine, runs on the reconcile goroutine, and so it does here.        *)
(*                                                                         *)
(* The socket's buffer and the subscriber's reader are folded into one     *)
(* bounded queue, events; how the stream ends is module Stream. Failing    *)
(* snapshot fetches retry and change nothing (module Backoff). The clock   *)
(* stands still: properties here are about order, not length.              *)
(***************************************************************************)
EXTENDS Tracker, Sequences

CONSTANTS
  AgentStates, \* the statuses agents take; Herdr reports others besides
  EventCap,    \* capacity of Subscriber.events
  MaxChanges,  \* bound on what the user and the agents do
  MaxFaults,   \* bound on stream failures, and on events late or twice
  Number       \* the number Herdr gives a pane: it counts up

ASSUME StatesAssumption == AgentStates \cup {"unknown", "idle"} \subseteq Reported
ASSUME CapAssumption == EventCap \in Nat \ {0}
ASSUME NumberAssumption == Number \in [Panes -> Nat]
ASSUME BoundAssumption == MaxChanges \in Nat /\ MaxFaults \in Nat

INSTANCE Frames

VARIABLES
  world,     \* the session as it is: a snapshot fetched now would be this
  used,      \* ids that were ever in use: Herdr does not use them again
  changes, faults,
  stream,    \* our subscription: "none", "sent" but not yet registered,
             \* "open", "silent" or "broken"
  scope,     \* App.scope: panes the subscription covers for status events
  events,    \* the subscription's queue
  loop,      \* where App.Run is: "select", a step of reconnect, or "returned"
  fetched,   \* the snapshot SubscribeFromSnapshot holds
  resub,     \* the resubscribe channel holds a signal
  rec,       \* where the reconcile goroutine is
  recSnap,   \* the snapshot reconcile holds
  recFlips, recDrift, \* its report
  gap        \* history: since the last snapshot, the subscription lost an
             \* event or a seen-flip undid a state still standing

hvars == <<world, used, changes, faults>>
svars == <<stream, scope, events>>
lvars == <<loop, fetched>>
rvars == <<rec, recSnap, recFlips, recDrift>>
ovars == <<vars, hvars, svars, lvars, rvars, resub, gap>>

NoSnap == <<>>

-----------------------------------------------------------------------------
(* Herdr, as the code uses it.                                             *)

\* What the reader makes of a frame: an event is queued while there is room.
Read(r, f) ==
  IF parseFrame(f) = NoEvent THEN r
  ELSE IF Len(r.queue) < EventCap THEN [r EXCEPT !.queue = Append(@, parseFrame(f))]
  ELSE [r EXCEPT !.lost = TRUE]

Unread == [queue |-> events, lost |-> gap]
Receive(r) == events' = r.queue /\ gap' = r.lost

\* Lifecycle events go to every subscription, status events to those that
\* named the pane.
Sent(r, e) ==
  IF e.kind = KindAgentStatusChanged /\ e.pane \notin scope THEN r ELSE Read(r, Wire(e))

\* A change and its events, up to three. Until Herdr has registered the
\* subscription they are lost.
Push(e1, e2, e3) ==
  IF stream = "open" THEN Receive(Sent(Sent(Sent(Unread, e1), e2), e3))
                     ELSE gap' = TRUE /\ UNCHANGED events

Unless(c, e) == IF c THEN NoEvent ELSE e

InTab(t) == {q \in DOMAIN world : world[q].tab = t}
wsOf(t) == world[CHOOSE p \in DOMAIN world : world[p].tab = t].ws

Changing ==
  /\ changes < MaxChanges
  /\ changes' = changes + 1
  /\ UNCHANGED <<vars, faults, stream, scope, lvars, rvars, resub>>

OpenPane(pl) ==
  LET p == pl[1]
      w == pl[2]
      t == pl[3]
  IN /\ p \notin used /\ \A q \in Panes \ used : Number[p] <= Number[q]
     /\ t \in used => InTab(t) # {}
     /\ \A q \in InTab(t) : world[q].ws = w
     /\ w \in used => In(world, w) # {}
     /\ Changing
     /\ used' = used \cup {p, t, w}
     /\ world' = Put(world, p, [ws |-> w, tab |-> t, agent |-> None,
                                status |-> "unknown", session |-> None])
     /\ Push(Unless(In(world, w) # {}, Ev(KindWorkspaceCreated, None, w, None, None, None)),
             Unless(InTab(t) # {}, Ev(KindTabCreated, None, w, t, None, None)),
             Ev(KindPaneCreated, p, w, t, None, None))

Vanish(P, e1, e2) ==
  /\ P # {}
  /\ Changing
  /\ world' = [q \in DOMAIN world \ P |-> world[q]]
  /\ Push(e1, e2, NoEvent)
  /\ UNCHANGED used

\* A pane closes and leaves others in its tab.
ClosePane(p) ==
  /\ p \in DOMAIN world /\ InTab(world[p].tab) # {p}
  /\ Vanish({p}, Ev(KindPaneClosed, p, world[p].ws, None, None, None), NoEvent)

\* A tab closes, itself or with its last pane: silently for its panes, and the
\* workspace follows its last tab.
CloseTab(t) ==
  Vanish(InTab(t), Ev(KindTabClosed, None, wsOf(t), t, None, None),
         Unless(In(world, wsOf(t)) # InTab(t),
                Ev(KindWorkspaceClosed, None, wsOf(t), None, None, None)))

\* A workspace closes, silently for all it holds.
CloseWorkspace(w) ==
  Vanish(In(world, w), Ev(KindWorkspaceClosed, None, w, None, None, None), NoEvent)

\* An agent appears in a pane, or changes state. It is done when it stops
\* working unseen.
AgentChanges(p, a, s) ==
  /\ p \in DOMAIN world
  /\ s # world[p].status
  /\ s = "done" => world[p].status \in {"working", "blocked"}
  /\ s = "idle" => world[p].status # "done"
  /\ world[p].agent # None => a = world[p].agent
  /\ Changing
  /\ world' = [world EXCEPT ![p].agent = a, ![p].status = s]
  /\ Push(Unless(world[p].agent # None, Ev(KindAgentDetected, p, world[p].ws, None, a, None)),
          Ev(KindAgentStatusChanged, p, world[p].ws, None, a, s), NoEvent)
  /\ UNCHANGED used

\* The user looks at a pane that is done: it turns idle and no event says so,
\* but a frame outside the subscription's scope may.
Seen(p) ==
  /\ p \in DOMAIN world /\ world[p].status = "done"
  /\ Changing
  /\ world' = [world EXCEPT ![p].status = "idle"]
  /\ Receive(IF stream = "open" THEN Read(Unread, Unscoped(p, world[p].ws)) ELSE Unread)
  /\ UNCHANGED used

RenameTab(t) ==
  /\ t \in SnapTabs(world)
  /\ Changing
  /\ Push(Ev(KindTabRenamed, None, wsOf(t), t, None, None), NoEvent, NoEvent)
  /\ UNCHANGED <<world, used>>

\* The queue with its event at i last.
Delayed(q, i) ==
  [j \in DOMAIN q |-> IF j < i THEN q[j] ELSE IF j < Len(q) THEN q[j + 1] ELSE q[i]]

\* An event comes after those that followed it, or once more. Both count as
\* events lost: until the next snapshot the order is not Herdr's.
Disturb(i) ==
  /\ faults < MaxFaults /\ i \in DOMAIN events
  /\ faults' = faults + 1
  /\ \/ events' = Delayed(events, i)
     \/ Len(events) < EventCap /\ events' = Append(events, events[i])
  /\ gap' = TRUE
  /\ UNCHANGED <<vars, world, used, changes, stream, scope, lvars, rvars, resub>>

\* Herdr handles the subscription: it looks up every pane named, and rejects
\* one that names a vanished pane. Both answers are acks, which the reader only
\* logs.
Register ==
  /\ stream = "sent"
  /\ stream' = IF scope \subseteq DOMAIN world THEN "open" ELSE "silent"
  /\ Receive(Read(Unread, Ack))
  /\ UNCHANGED <<vars, hvars, scope, lvars, rvars, resub>>

\* The stream fails; what was read from it stays in the queue.
Break ==
  /\ stream \in {"sent", "open", "silent"} /\ faults < MaxFaults
  /\ faults' = faults + 1
  /\ stream' = "broken"
  /\ UNCHANGED <<vars, world, used, changes, scope, events, lvars, rvars, resub, gap>>

Herdr ==
  \/ \E pl \in Places : OpenPane(pl)
  \/ \E p \in Panes : ClosePane(p) \/ Seen(p)
  \/ \E p \in Panes, a \in Agents, s \in AgentStates : AgentChanges(p, a, s)
  \/ \E t \in Tabs : CloseTab(t) \/ RenameTab(t)
  \/ \E w \in Workspaces : CloseWorkspace(w)
  \/ \E i \in 1..EventCap : Disturb(i)
  \/ Register \/ Break

-----------------------------------------------------------------------------
(* App.Run: the event loop and reconnect.                                  *)

Handle(e) ==
  \/ e.kind = KindWorkspaceCreated /\ ApplyWorkspaceCreated(e.ws)
  \/ e.kind = KindWorkspaceClosed /\ ApplyWorkspaceClosed(e.ws)
  \/ e.kind = KindTabCreated /\ ApplyTabCreated(e.tab, e.ws)
  \/ e.kind = KindTabClosed /\ ApplyTabClosed(e.tab)
  \/ e.kind = KindTabRenamed /\ ApplyTabRenamed(e.tab, e.ws)
  \/ e.kind = KindPaneCreated /\ ApplyPaneCreated(e.pane, e.ws, e.tab)
  \/ e.kind = KindPaneClosed /\ ApplyPaneClosed(e.pane)
  \/ e.kind = KindAgentDetected /\ ApplyAgentDetected(e.pane, e.agent)
  \/ e.kind = KindAgentStatusChanged
     /\ ApplyAgentStatusChanged(e.pane, e.ws, e.agent, e.status)

\* Mutant: a created pane waits for drift.
paneCreatedNeverResubscribes(e) == FALSE
paneCreatedNeedsResubscribe(e) == e.kind = KindPaneCreated /\ e.pane \notin scope

\* Mutant: reconnect consumes the new stream before the snapshot is applied.
TakeEventEarly ==
  /\ loop \in {"select", "apply"} /\ events # <<>>
  /\ Handle(Head(events))
  /\ events' = Tail(events)
  /\ resub' = (resub \/ paneCreatedNeedsResubscribe(Head(events)))
  /\ UNCHANGED <<hvars, stream, scope, lvars, rvars, gap>>

TakeEvent ==
  /\ loop = "select" /\ events # <<>>
  /\ Handle(Head(events))
  /\ events' = Tail(events)
  /\ resub' = (resub \/ paneCreatedNeedsResubscribe(Head(events)))
  /\ UNCHANGED <<hvars, stream, scope, lvars, rvars, gap>>

\* Mutant: what the old subscription had queued is delivered after the snapshot.
CloseOldKeepsQueue ==
  /\ loop' = "fetch"
  /\ stream' = "none"
  /\ UNCHANGED <<vars, hvars, events, scope, fetched, rvars, gap>>

\* The first thing reconnect does: the old subscription and its queue go.
CloseOld ==
  /\ loop' = "fetch"
  /\ stream' = "none" /\ events' = <<>>
  /\ UNCHANGED <<vars, hvars, scope, fetched, rvars, gap>>

StreamError == loop = "select" /\ stream = "broken" /\ CloseOld /\ UNCHANGED resub

\* The reader of a failed stream closes events too: select may take that case
\* first, once the queue is drained, and Run ends the process.
Return ==
  /\ loop = "select" /\ stream = "broken" /\ events = <<>>
  /\ loop' = "returned" /\ stream' = "none"
  /\ rec' = "off" /\ recSnap' = NoSnap /\ recFlips' = {} /\ recDrift' = FALSE
  /\ UNCHANGED <<vars, hvars, scope, events, fetched, resub, gap>>

Resubscribe == loop = "select" /\ resub /\ CloseOld /\ resub' = FALSE

FetchSnapshot ==
  /\ loop = "fetch"
  /\ loop' = "subscribe" /\ fetched' = world /\ gap' = FALSE
  /\ UNCHANGED <<vars, hvars, svars, rvars, resub>>

\* Mutant: the scope stays that of the subscription before.
SubscribeKeepsScope ==
  /\ loop = "subscribe"
  /\ loop' = "apply" /\ stream' = "sent"
  /\ UNCHANGED <<vars, hvars, events, scope, fetched, rvars, resub, gap>>

\* The request is written and not waited for.
Subscribe ==
  /\ loop = "subscribe"
  /\ loop' = "apply" /\ stream' = "sent" /\ scope' = DOMAIN fetched
  /\ UNCHANGED <<vars, hvars, events, fetched, rvars, resub, gap>>

\* The reconcile goroutine starts after the first baseline.
Baseline ==
  /\ loop = "apply"
  /\ ApplySnapshot(fetched)
  /\ loop' = "select" /\ fetched' = NoSnap
  /\ rec' = IF rec = "off" THEN "idle" ELSE rec
  /\ UNCHANGED <<hvars, svars, recSnap, recFlips, recDrift, resub, gap>>

-----------------------------------------------------------------------------
(* Tracker.Run: reconcile, with App.Run's onReport.                        *)

ReconcileFetch ==
  /\ rec = "idle"
  /\ rec' = "fetched" /\ recSnap' = world
  /\ UNCHANGED <<vars, hvars, svars, lvars, recFlips, recDrift, resub, gap>>

ReconcileDiff ==
  LET report == Diff(recSnap)
  IN /\ rec = "fetched"
     /\ rec' = IF report.drifted \/ report.flips # {} THEN "report" ELSE "idle"
     /\ recFlips' = report.flips /\ recDrift' = report.drifted
     /\ recSnap' = NoSnap
     /\ UNCHANGED <<vars, hvars, svars, lvars, resub, gap>>

\* Herdr still has p in done, and every event that says so has been applied.
StillDone(p) ==
  /\ p \in DOMAIN world /\ world[p].status = "done"
  /\ \A i \in DOMAIN events :
       ~(events[i].pane = p /\ events[i].kind = KindAgentStatusChanged)

ReportFlip(p) ==
  /\ rec = "report" /\ p \in recFlips
  /\ ApplySeenFlip(p)
  /\ recFlips' = recFlips \ {p}
  /\ gap' = (gap \/ StillDone(p))
  /\ UNCHANGED <<hvars, svars, lvars, rec, recSnap, recDrift, resub>>

\* Mutant: drift is reported to nobody.
ReportDriftUnheard ==
  /\ rec = "report" /\ recFlips = {}
  /\ rec' = "idle" /\ recDrift' = FALSE
  /\ UNCHANGED <<vars, hvars, svars, lvars, recSnap, recFlips, resub, gap>>

ReportDrift ==
  /\ rec = "report" /\ recFlips = {}
  /\ rec' = "idle" /\ recDrift' = FALSE
  /\ resub' = (resub \/ recDrift)
  /\ UNCHANGED <<vars, hvars, svars, lvars, recSnap, recFlips, gap>>

-----------------------------------------------------------------------------
ObservrInit ==
  /\ Init
  /\ world = NoSnap /\ used = {} /\ changes = 0 /\ faults = 0
  /\ stream = "none" /\ scope = {} /\ events = <<>>
  /\ loop = "fetch" /\ fetched = NoSnap /\ resub = FALSE
  /\ rec = "off" /\ recSnap = NoSnap /\ recFlips = {} /\ recDrift = FALSE
  /\ gap = FALSE

Loop ==
  \/ TakeEvent \/ StreamError \/ Return
  \/ Resubscribe \/ FetchSnapshot \/ Subscribe \/ Baseline

Reconcile ==
  \/ ReconcileFetch \/ ReconcileDiff \/ ReportDrift
  \/ \E p \in Panes : ReportFlip(p)

ObservrNext == Herdr \/ Loop \/ Reconcile

ObservrSpec == ObservrInit /\ [][ObservrNext]_ovars

\* Go's select picks at random among the ready cases, so a case that keeps
\* becoming ready is taken; the other steps run once they can. Of a failed
\* stream it may take either case. Herdr answers a subscription; else it and
\* the user owe nothing.
Fairness ==
  /\ SF_ovars(TakeEvent) /\ SF_ovars(StreamError) /\ SF_ovars(Resubscribe)
  /\ WF_ovars(FetchSnapshot) /\ WF_ovars(Subscribe) /\ WF_ovars(Baseline)
  /\ WF_ovars(Register)
  /\ WF_ovars(ReconcileFetch) /\ WF_ovars(ReconcileDiff) /\ WF_ovars(ReportDrift)
  /\ \A p \in Panes : WF_ovars(ReportFlip(p))

FairSpec == ObservrSpec /\ Fairness

-----------------------------------------------------------------------------
(* While no event was lost since the last snapshot, an idle loop has the   *)
(* session right: the same workspaces, tabs and panes, and of every pane   *)
(* it covers the agent and its status, but for a done it cannot know to    *)
(* have been seen.                                                         *)
EventSourced ==
  (loop = "select" /\ stream = "open" /\ events = <<>> /\ ~gap) =>
    /\ workspaces = SnapWorkspaces(world)
    /\ Live(tabs) = SnapTabs(world)
    /\ Live(panes) = DOMAIN world
    /\ \A p \in scope \cap DOMAIN world :
         /\ p \in Live(agents) <=> world[p].agent # None
         /\ p \in Live(agents) => agents[p].status = panes[p].status
         /\ panes[p].agent = world[p].agent
         /\ \/ panes[p].status = world[p].status
            \/ SilentFlip(world, p)

(* What App.Run, onReport and reconnect do to the tracker is what its      *)
(* standalone specification allows, so that whatever is proved of it holds *)
(* here too: every call is atomic and carries what Herdr reported, the     *)
(* process never meets a nil map, and no snapshot, however late it is      *)
(* applied, lists a pane whose close was handled.                          *)
DrivesTracker == Spec

(* A pane the tracker learned of from its created event is covered for     *)
(* status events, or a resubscription that will cover it is pending.       *)
CoveredOrPending ==
  loop = "select" =>
    \A p \in Live(panes) \ scope : panes[p].tab # None => resub

(* A seen-flip is applied only to an agent that has left done: never to    *)
(* one that Herdr still reports done and whose events have all been        *)
(* applied.                                                                *)
FlipOnlyTheSeen ==
  [][\A p \in InState(Live(agents), "done") : ReportFlip(p) => ~StillDone(p)]_ovars

InSync ==
  /\ ~Diff(world).drifted /\ Diff(world).flips = {}
  /\ Live(panes) = DOMAIN world
  /\ Live(agents) = {p \in DOMAIN world : world[p].agent # None}
  /\ \A p \in Live(agents) : agents[p].status = world[p].status

(* When the session settles and Run does not return, the tracker agrees    *)
(* with it for good, whatever events were dropped, never subscribed to, or *)
(* cut off by a broken stream, and whatever stale reports the reconcile    *)
(* goroutine still held.                                                   *)
Converges == <>[](InSync \/ loop = "returned")

(* When the session settles, all its panes are covered for status events,  *)
(* by a subscription that Herdr accepted and that has not failed, whatever *)
(* subscriptions were rejected or broken before, unless Run returned.      *)
EventuallyCovered ==
  <>[]((stream = "open" /\ DOMAIN world \subseteq scope) \/ loop = "returned")
=============================================================================
