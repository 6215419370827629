---------------------------- MODULE ObservrProofs ----------------------------
(***************************************************************************)
(* Proofs about module Observr, for any session, any capacity of the       *)
(* queue, and any number of changes, late or repeated events, failures and *)
(* resubscriptions.                                                        *)
(*                                                                         *)
(* CoveredOrPending is not inductive: that the snapshot just applied lists *)
(* only panes of the scope depends on the scope having been taken from it. *)
(***************************************************************************)
EXTENDS Observr, TrackerProofs, SequenceTheorems

\* What the argument needs of the pane records: their shape.
Shaped == \A p \in DOMAIN panes : {"tab", "closedAt"} \subseteq DOMAIN panes[p]

ScopeInv ==
  /\ Shaped
  /\ loop = "apply" => scope = DOMAIN fetched
  /\ CoveredOrPending

\* The live panes with a tab are from before, or their creation is the event.
Traced(S) ==
  \A p \in Live(panes)' :
    panes'[p].tab # None => \/ p \in Live(panes) /\ panes[p].tab # None
                            \/ p \in S

\* A new or changed record that keeps its tab.
LEMMA PutTraced ==
  ASSUME Shaped, NEW p, p \notin Closed(panes), NEW r,
         panes' = Put(panes, p, r), {"tab", "closedAt"} \subseteq DOMAIN r,
         NEW S, r.tab = At(panes, p, NewPane).tab \/ p \in S
  PROVE  Shaped' /\ Traced(S)
<1>1. DOMAIN panes' = DOMAIN panes \cup {p}
      /\ \A q \in DOMAIN panes' : panes'[q] = IF q = p THEN r ELSE panes[q]
  BY DEF Put
<1>2. p \in DOMAIN panes => p \in Live(panes)
  BY DEF Closed
<1>3. NewPane.tab = None
  BY DEF NewPane
<1>4. Shaped'
  BY <1>1 DEF Shaped
<1>5. ASSUME NEW q \in Live(panes)', panes'[q].tab # None
      PROVE  (q \in Live(panes) /\ panes[q].tab # None) \/ q \in S
  <2>1. q \in DOMAIN panes' /\ panes'[q].closedAt = Zero
    BY DEF Live
  <2>2. CASE q = p
    BY <1>1, <1>2, <1>3, <1>5, <2>1, <2>2 DEF At
  <2>3. CASE q # p
    BY <1>1, <1>5, <2>1, <2>3 DEF Live
  <2> QED
    BY <2>2, <2>3
<1> QED
  BY <1>4, <1>5 DEF Traced

\* Closing panes makes none live.
LEMMA CloseTraced ==
  ASSUME Shaped, NEW P, panes' = Close(panes, P), NEW S
  PROVE  Shaped' /\ Traced(S)
  BY DEF Shaped, Close, Live, Traced

LEMMA SameTraced ==
  ASSUME Shaped, UNCHANGED panes, NEW S
  PROVE  Shaped' /\ Traced(S)
  BY DEF Shaped, Live, Traced

\* The pane records and their tabs, for each event the loop handles.
LEMMA HandleTraced ==
  ASSUME Shaped, NEW e, Handle(e)
  PROVE  Shaped' /\ Traced(IF e.kind = KindPaneCreated THEN {e.pane} ELSE {})
<1> DEFINE S == IF e.kind = KindPaneCreated THEN {e.pane} ELSE {}
<1> SUFFICES Shaped' /\ Traced(S)
  OBVIOUS
<1>1. CASE UNCHANGED panes
  BY <1>1, SameTraced
<1>2. CASE \E P : panes' = Close(panes, P)
  BY <1>2, CloseTraced
<1>3. CASE e.kind = KindPaneCreated /\ ApplyPaneCreated(e.pane, e.ws, e.tab)
  <2> DEFINE r == [NewPane EXCEPT !.ws = e.ws, !.tab = e.tab]
  <2>1. e.pane \in S
    BY <1>3
  <2>2. {"tab", "closedAt"} \subseteq DOMAIN r
    BY DEF NewPane
  <2>3. UNCHANGED panes \/ (e.pane \notin Closed(panes) /\ panes' = Put(panes, e.pane, r))
    BY <1>3 DEF ApplyPaneCreated
  <2> HIDE DEF r, S
  <2> QED
    BY <1>1, <2>1, <2>2, <2>3, PutTraced
<1>4. CASE ApplyAgentDetected(e.pane, e.agent)
  <2> DEFINE r == [At(panes, e.pane, NewPane) EXCEPT !.agent = e.agent]
  <2>1. /\ {"tab", "closedAt"} \subseteq DOMAIN r
        /\ r.tab = At(panes, e.pane, NewPane).tab
    BY DEF NewPane, At, Shaped
  <2>2. UNCHANGED panes \/ (e.pane \notin Closed(panes) /\ panes' = Put(panes, e.pane, r))
    BY <1>4 DEF ApplyAgentDetected
  <2> HIDE DEF r, S
  <2> QED
    BY <1>1, <2>1, <2>2, PutTraced
<1>5. CASE ApplyAgentStatusChanged(e.pane, e.ws, e.agent, e.status)
  <2> DEFINE r == [At(panes, e.pane, NewPane) EXCEPT
                     !.ws = e.ws, !.agent = e.agent, !.status = e.status]
  <2>1. /\ {"tab", "closedAt"} \subseteq DOMAIN r
        /\ r.tab = At(panes, e.pane, NewPane).tab
    BY DEF NewPane, At, Shaped
  <2>2. UNCHANGED panes \/ (e.pane \notin Closed(panes) /\ panes' = Put(panes, e.pane, r))
    BY <1>5 DEF ApplyAgentStatusChanged, StatusAbsorbed, StatusFirstSeen, StatusRepeated,
                StatusTransition, UpsertPane
  <2> HIDE DEF r, S
  <2> QED
    BY <1>1, <2>1, <2>2, PutTraced
<1>6. CASE \/ ApplyWorkspaceCreated(e.ws) \/ ApplyTabCreated(e.tab, e.ws)
           \/ ApplyTabRenamed(e.tab, e.ws)
  BY <1>1, <1>6 DEF ApplyWorkspaceCreated, ApplyTabCreated, ApplyTabRenamed
<1>7. CASE ApplyWorkspaceClosed(e.ws) \/ ApplyTabClosed(e.tab) \/ ApplyPaneClosed(e.pane)
  BY <1>2, <1>7 DEF ApplyWorkspaceClosed, ApplyTabClosed, ApplyPaneClosed, CloseAll
<1> HIDE DEF S
<1> QED
  BY <1>3, <1>4, <1>5, <1>6, <1>7 DEF Handle

\* A seen-flip changes the status of a pane, nothing else.
LEMMA FlipTraced ==
  ASSUME Shaped, NEW p, ApplySeenFlip(p)
  PROVE  Shaped' /\ Traced({})
<1>1. CASE UNCHANGED panes
  BY <1>1, SameTraced
<1>2. CASE p \in DOMAIN panes /\ panes' = [panes EXCEPT ![p].status = "idle"]
  BY <1>2 DEF Shaped, Traced, Live
<1> QED
  BY <1>1, <1>2 DEF ApplySeenFlip

\* Handling an event: a created pane outside the scope sets the signal.
LEMMA TakeEventScope == ScopeInv /\ TakeEvent => ScopeInv'
<1> SUFFICES ASSUME ScopeInv, TakeEvent PROVE ScopeInv'
  OBVIOUS
<1> DEFINE e == Head(events)
           S == IF e.kind = KindPaneCreated THEN {e.pane} ELSE {}
<1>1. /\ loop = "select" /\ UNCHANGED <<loop, scope, fetched>>
      /\ Handle(e)
      /\ resub' = (resub \/ paneCreatedNeedsResubscribe(e))
  BY DEF TakeEvent, lvars
<1>2. Shaped' /\ Traced(S)
  BY <1>1, HandleTraced DEF ScopeInv
<1>3. ASSUME NEW p \in Live(panes)' \ scope', panes'[p].tab # None PROVE resub'
  <2>1. CASE p \in Live(panes) /\ panes[p].tab # None
    <3>1. resub
      BY <1>1, <1>3, <2>1 DEF ScopeInv, CoveredOrPending
    <3> QED
      BY <1>1, <3>1
  <2>2. CASE p \in S
    <3>1. paneCreatedNeedsResubscribe(e)
      BY <1>1, <1>3, <2>2 DEF paneCreatedNeedsResubscribe
    <3> QED
      BY <1>1, <3>1
  <2> QED
    BY <1>2, <1>3, <2>1, <2>2 DEF Traced
<1> QED
  BY <1>1, <1>2, <1>3 DEF ScopeInv, CoveredOrPending

\* The re-baseline: every pane it lists is in the scope that came from it.
LEMMA BaselineScope == ScopeInv /\ Baseline => ScopeInv'
<1> SUFFICES ASSUME ScopeInv, Baseline PROVE ScopeInv'
  OBVIOUS
<1>1. loop = "apply" /\ loop' = "select" /\ UNCHANGED scope /\ ApplySnapshot(fetched)
  BY DEF Baseline, svars
<1>2. panes' = [p \in DOMAIN fetched |->
                  [ws |-> fetched[p].ws, tab |-> fetched[p].tab, agent |-> fetched[p].agent,
                   status |-> fetched[p].status, session |-> fetched[p].session,
                   closedAt |-> Zero]]
  BY <1>1 DEF ApplySnapshot
<1>3. Shaped'
  BY <1>2 DEF Shaped
<1>4. Live(panes)' \subseteq scope'
  BY <1>1, <1>2 DEF Live, ScopeInv
<1> QED
  BY <1>1, <1>3, <1>4 DEF ScopeInv, CoveredOrPending

\* The reconcile goroutine may flip a pane and set the signal.
LEMMA ReconcileScope == ScopeInv /\ Reconcile => ScopeInv'
<1> SUFFICES ASSUME ScopeInv, Reconcile PROVE ScopeInv'
  OBVIOUS
<1>1. UNCHANGED <<loop, scope, fetched>>
  BY DEF Reconcile, ReconcileFetch, ReconcileDiff, ReportDrift, ReportFlip, svars, lvars
<1>2. resub => resub'
  BY DEF Reconcile, ReconcileFetch, ReconcileDiff, ReportDrift, ReportFlip
<1>3. Shaped' /\ Traced({})
  <2>1. CASE UNCHANGED panes
    BY <2>1, SameTraced DEF ScopeInv
  <2>2. CASE \E p \in Panes : ApplySeenFlip(p)
    BY <2>2, FlipTraced DEF ScopeInv
  <2> QED
    BY <2>1, <2>2 DEF Reconcile, ReconcileFetch, ReconcileDiff, ReportDrift, ReportFlip, vars
<1> QED
  BY <1>1, <1>2, <1>3 DEF ScopeInv, CoveredOrPending, Traced

\* Whatever Herdr does, the loop, the scope and the tracker stay as they are.
LEMMA HerdrScope == ScopeInv /\ Herdr => ScopeInv'
<1> SUFFICES ASSUME ScopeInv, Herdr PROVE ScopeInv'
  OBVIOUS
<1>1. UNCHANGED <<panes, loop, scope, fetched, resub>>
  BY DEF Herdr, OpenPane, ClosePane, CloseTab, CloseWorkspace, Vanish, Seen, AgentChanges,
         RenameTab, Disturb, Register, Break, Changing, vars, lvars
<1> QED
  BY <1>1 DEF ScopeInv, Shaped, CoveredOrPending, Live

\* Every pane the tracker learned of from its created event is in the scope of
\* the subscription, or the signal to resubscribe is set: also for a pane that
\* is created while the loop resubscribes, and however often an event is
\* repeated or late.
THEOREM ScopeFollowsPanes == ObservrSpec => []CoveredOrPending
<1>1. ObservrInit => ScopeInv
  <2> DEFINE empty == <<>>
  <2>1. DOMAIN empty = {}
    OBVIOUS
  <2>2. ObservrInit => panes = empty /\ loop = "fetch"
    BY DEF ObservrInit, Init
  <2> HIDE DEF empty
  <2> QED
    BY <2>1, <2>2 DEF ScopeInv, Shaped, CoveredOrPending
<1>2. ScopeInv /\ [ObservrNext]_ovars => ScopeInv'
  <2> SUFFICES ASSUME ScopeInv, [ObservrNext]_ovars PROVE ScopeInv'
    OBVIOUS
  <2>1. CASE Herdr
    BY <2>1, HerdrScope
  <2>2. CASE TakeEvent
    BY <2>2, TakeEventScope
  <2>3. CASE CloseOld \/ FetchSnapshot \/ Return
    <3>1. loop' \in {"fetch", "subscribe", "returned"} /\ UNCHANGED panes
      BY <2>3 DEF CloseOld, FetchSnapshot, Return, vars
    <3> QED
      BY <3>1 DEF ScopeInv, Shaped, CoveredOrPending
  <2>4. CASE Subscribe
    <3>1. loop' = "apply" /\ scope' = DOMAIN fetched /\ UNCHANGED <<panes, fetched>>
      BY <2>4 DEF Subscribe, vars
    <3> QED
      BY <3>1 DEF ScopeInv, Shaped, CoveredOrPending
  <2>5. CASE Baseline
    BY <2>5, BaselineScope
  <2>6. CASE Reconcile
    BY <2>6, ReconcileScope
  <2>7. CASE UNCHANGED ovars
    BY <2>7 DEF ovars, vars, svars, lvars, ScopeInv, Shaped, CoveredOrPending, Live
  <2> QED
    BY <2>1, <2>2, <2>3, <2>4, <2>5, <2>6, <2>7 DEF ObservrNext, Loop, StreamError, Resubscribe
<1>3. ScopeInv => CoveredOrPending
  BY DEF ScopeInv
<1> QED
  BY <1>1, <1>2, <1>3, PTL DEF ObservrSpec

-----------------------------------------------------------------------------
(* What Herdr writes for an event is what parseFrame makes of it again.    *)

\* An event of the session: its ids belong together.
Possible(e) ==
  /\ e.kind \in Kinds
  /\ e.kind \in {KindWorkspaceCreated, KindWorkspaceClosed} =>
       \E pl \in Places : e = Ev(e.kind, None, pl[2], None, None, None)
  /\ e.kind \in {KindTabCreated, KindTabClosed, KindTabRenamed} =>
       \E pl \in Places : e = Ev(e.kind, None, pl[2], pl[3], None, None)
  /\ e.kind = KindPaneCreated =>
       \E pl \in Places : e = Ev(e.kind, pl[1], pl[2], pl[3], None, None)
  /\ e.kind = KindPaneClosed =>
       \E pl \in Places : e = Ev(e.kind, pl[1], pl[2], None, None, None)
  /\ e.kind = KindAgentDetected =>
       \E pl \in Places : \E a \in Agents : e = Ev(e.kind, pl[1], pl[2], None, a, None)
  /\ e.kind = KindAgentStatusChanged =>
       \E pl \in Places : \E a \in Agents, s \in Reported :
          e = Ev(e.kind, pl[1], pl[2], None, a, s)

LEMMA KindsDiffer ==
  /\ <<>> \notin Kinds
  /\ KindWorkspaceCreated \notin
       {KindWorkspaceClosed, KindTabCreated, KindTabClosed, KindTabRenamed,
        KindPaneCreated, KindPaneClosed, KindAgentDetected, KindAgentStatusChanged}
  /\ KindWorkspaceClosed \notin
       {KindTabCreated, KindTabClosed, KindTabRenamed,
        KindPaneCreated, KindPaneClosed, KindAgentDetected, KindAgentStatusChanged}
  /\ KindTabCreated \notin
       {KindTabClosed, KindTabRenamed,
        KindPaneCreated, KindPaneClosed, KindAgentDetected, KindAgentStatusChanged}
  /\ KindTabClosed \notin
       {KindTabRenamed,
        KindPaneCreated, KindPaneClosed, KindAgentDetected, KindAgentStatusChanged}
  /\ KindTabRenamed \notin
       {KindPaneCreated, KindPaneClosed, KindAgentDetected, KindAgentStatusChanged}
  /\ KindPaneCreated \notin {KindPaneClosed, KindAgentDetected, KindAgentStatusChanged}
  /\ KindPaneClosed \notin {KindAgentDetected, KindAgentStatusChanged}
  /\ KindAgentDetected # KindAgentStatusChanged
BY DEF Kinds, KindWorkspaceCreated, KindWorkspaceClosed, KindTabCreated, KindTabClosed,
       KindTabRenamed, KindPaneCreated, KindPaneClosed, KindAgentDetected,
       KindAgentStatusChanged

LEMMA CollapseTriple ==
  ASSUME NEW a, NEW b, NEW c, a # ".", c # "."
  PROVE  Collapse(<<a, b, c>>) = <<a, IF b = "." THEN "_" ELSE b, c>>
<1> DEFINE n == <<a, b, c>>
           m == <<a, IF b = "." THEN "_" ELSE b, c>>
<1>1. DOMAIN n = 1..3 /\ DOMAIN m = 1..3
  OBVIOUS
<1>2. /\ n[1] = a /\ n[2] = b /\ n[3] = c
      /\ m[1] = a /\ m[2] = (IF b = "." THEN "_" ELSE b) /\ m[3] = c
  OBVIOUS
<1>3. \A i \in 1..3 : m[i] = (IF n[i] = "." THEN "_" ELSE n[i])
  <2>1. \A i \in 1..3 : i = 1 \/ i = 2 \/ i = 3
    OBVIOUS
  <2> QED
    BY <1>2, <2>1
<1>4. m = [i \in 1..3 |-> m[i]]
  BY <1>1
<1>5. Collapse(n) = m
  <2> HIDE DEF m, n
  <2> QED
    BY <1>1, <1>3, <1>4 DEF Collapse
<1> QED
  BY <1>5

\* Whatever the style of its name, an event keeps its kind.
LEMMA NameCollapses ==
  ASSUME NEW k \in Kinds
  PROVE  Collapse(Name(k)) = k /\ Name(k) # <<>>
<1>1. CASE k = KindAgentStatusChanged
  <2>1. Name(k) = <<"pane", ".", "agent_status_changed">>
    BY <1>1 DEF Name
  <2>2. Collapse(<<"pane", ".", "agent_status_changed">>) = <<"pane", "_", "agent_status_changed">>
    BY CollapseTriple
  <2>3. <<"pane", ".", "agent_status_changed">> # <<>>
    OBVIOUS
  <2> QED
    BY <1>1, <2>1, <2>2, <2>3 DEF KindAgentStatusChanged
<1>2. CASE k # KindAgentStatusChanged
  <2>1. Name(k) = k
    BY <1>2 DEF Name
  <2>2. PICK a \in {"workspace", "tab", "pane"},
             c \in {"created", "closed", "renamed", "agent_detected"} : k = <<a, "_", c>>
    BY <1>2 DEF Kinds, KindWorkspaceCreated, KindWorkspaceClosed, KindTabCreated,
                KindTabClosed, KindTabRenamed, KindPaneCreated, KindPaneClosed,
                KindAgentDetected, KindAgentStatusChanged
  <2>3. a # "." /\ c # "."
    OBVIOUS
  <2>4. Collapse(<<a, "_", c>>) = <<a, "_", c>>
    BY <2>3, CollapseTriple
  <2> QED
    BY <2>1, <2>2, <2>4, KindsDiffer
<1> QED
  BY <1>1, <1>2

\* Each id of an event comes from the entity object, or from beside it.
LEMMA IdsCarried ==
  ASSUME NEW e, Possible(e)
  PROVE  /\ Id(Wire(e), "pane") = e.pane
         /\ Id(Wire(e), "ws") = e.ws
         /\ Id(Wire(e), "tab") = e.tab
<1>0. /\ Wire(e).objects = Object(e) /\ Wire(e).flat = Flat(e)
  BY DEF Wire, Frame
<1>1. CASE e.kind \in {KindWorkspaceCreated, KindWorkspaceClosed}
  <2>1. Object(e) = [o \in {"workspace"} |-> Ids(None, e.ws, None)]
    BY <1>1, KindsDiffer DEF Object
  <2>2. e.pane = None /\ e.tab = None
    BY <1>1 DEF Possible, Ev
  <2>3. Flat(e) \in {NoIds, Ids(e.pane, e.ws, e.tab)}
    BY DEF Flat
  <2> QED
    BY <1>0, <2>1, <2>2, <2>3 DEF Id, Nested, NoIds, Ids
<1>2. CASE e.kind = KindTabCreated
  <2>1. Object(e) = [o \in {"tab"} |-> Ids(None, e.ws, e.tab)]
    BY <1>2, KindsDiffer DEF Object
  <2>2. e.pane = None
    BY <1>2 DEF Possible, Ev
  <2>3. Flat(e) = NoIds
    BY <1>2 DEF Flat
  <2> QED
    BY <1>0, <2>1, <2>2, <2>3 DEF Id, Nested, NoIds, Ids
<1>3. CASE e.kind = KindPaneCreated
  <2>1. Object(e) = [o \in {"pane"} |-> Ids(e.pane, e.ws, e.tab)]
    BY <1>3, KindsDiffer DEF Object
  <2>2. Flat(e) = NoIds
    BY <1>3 DEF Flat
  <2> QED
    BY <1>0, <2>1, <2>2 DEF Id, Nested, NoIds, Ids
<1>4. CASE e.kind \notin {KindWorkspaceCreated, KindWorkspaceClosed, KindTabCreated,
                          KindPaneCreated}
  <2>1. DOMAIN Object(e) = {}
    BY <1>4 DEF Object, NoObjects
  <2>2. Flat(e) = Ids(e.pane, e.ws, e.tab)
    BY <1>4 DEF Flat
  <2> QED
    BY <1>0, <2>1, <2>2 DEF Id, Nested, NoIds, Ids
<1> QED
  BY <1>1, <1>2, <1>3, <1>4

\* Every event of a session survives its way over the wire, whatever the
\* naming style of its frame and wherever that puts the ids.
THEOREM EventsParsed ==
  ASSUME NEW e, Possible(e)
  PROVE  parseFrame(Wire(e)) = e
<1>1. e.kind \in Kinds /\ Collapse(Name(e.kind)) = e.kind /\ Name(e.kind) # <<>>
  BY NameCollapses DEF Possible
<1>2. /\ Wire(e).event = Name(e.kind) /\ Wire(e).agent = e.agent
      /\ Wire(e).status = e.status
  BY DEF Wire, Frame
<1>3. Class(Wire(e)) = "event"
  BY <1>1, <1>2 DEF Class
<1>4. Normalized(Wire(e)) = Ev(e.kind, e.pane, e.ws, e.tab, e.agent, e.status)
  BY <1>1, <1>2, IdsCarried DEF Normalized
<1>5. Ev(e.kind, e.pane, e.ws, e.tab, e.agent, e.status) = e
  BY <1>1 DEF Possible, Ev, Kinds
<1> QED
  BY <1>3, <1>4, <1>5 DEF parseFrame

-----------------------------------------------------------------------------
(* What the reader adds to the queue.                                      *)

LEMMA SentOne ==
  ASSUME NEW e, Possible(e), NEW r
  PROVE  Sent(r, e) =
           IF e.kind = KindAgentStatusChanged /\ e.pane \notin scope THEN r
           ELSE IF Len(r.queue) < EventCap THEN [r EXCEPT !.queue = Append(@, e)]
           ELSE [r EXCEPT !.lost = TRUE]
<1>1. e # NoEvent
  BY KindsDiffer DEF Possible, NoEvent, Ev
<1> QED
  BY <1>1, EventsParsed DEF Sent, Read

\* A frame that is no event changes nothing.
LEMMA NoEventRead ==
  ASSUME NEW r
  PROVE  /\ Sent(r, NoEvent) = r
         /\ Read(r, Ack) = r
         /\ \A p, w : Read(r, Unscoped(p, w)) = r
<1>1. KindAgentStatusChanged # <<>>
  BY KindsDiffer DEF Kinds
<1>2. NoEvent.kind = <<>>
  BY DEF NoEvent, Ev
<1>3. Wire(NoEvent).event = <<>> /\ Wire(NoEvent).ack = FALSE
  BY <1>1, <1>2 DEF Wire, Frame, Name
<1>4. Ack.event = <<>> /\ Ack.ack = TRUE
  BY DEF Ack, Frame
<1>5. Class(Wire(NoEvent)) # "event" /\ Class(Ack) # "event"
  BY <1>3, <1>4 DEF Class
<1>6. ASSUME NEW p, NEW w PROVE Class(Unscoped(p, w)) # "event"
  <2>1. Unscoped(p, w).event = <<"pane", ".", "scroll_changed">>
    BY DEF Unscoped, Frame
  <2>2. Collapse(<<"pane", ".", "scroll_changed">>) = <<"pane", "_", "scroll_changed">>
    BY CollapseTriple
  <2>3. <<"pane", "_", "scroll_changed">> \notin Kinds
    BY DEF Kinds, KindWorkspaceCreated, KindWorkspaceClosed, KindTabCreated,
           KindTabClosed, KindTabRenamed, KindPaneCreated, KindPaneClosed,
           KindAgentDetected, KindAgentStatusChanged
  <2>4. <<"pane", ".", "scroll_changed">> # <<>>
    OBVIOUS
  <2> QED
    BY <2>1, <2>2, <2>3, <2>4 DEF Class
<1>7. Sent(r, NoEvent) = r
  BY <1>1, <1>2, <1>5 DEF Sent, Read, parseFrame
<1>8. Read(r, Ack) = r /\ \A p, w : Read(r, Unscoped(p, w)) = r
  BY <1>5, <1>6 DEF Read, parseFrame
<1> QED
  BY <1>7, <1>8

\* What the reader holds of the events of S, and whether it lost any.
Reading(S) == [queue : Seq(S), lost : BOOLEAN]

LEMMA SentKeeps ==
  ASSUME NEW S, \A e \in S : Possible(e),
         NEW r \in Reading(S), NEW e \in S \cup {NoEvent}
  PROVE  Sent(r, e) \in Reading(S)
<1>1. CASE e = NoEvent
  BY <1>1, NoEventRead
<1>2. CASE e \in S
  <2>1. Append(r.queue, e) \in Seq(S)
    BY <1>2 DEF Reading
  <2>2. [r EXCEPT !.queue = Append(@, e)] \in Reading(S)
    BY <2>1 DEF Reading
  <2>3. [r EXCEPT !.lost = TRUE] \in Reading(S)
    BY DEF Reading
  <2> QED
    BY <1>2, <2>2, <2>3, SentOne
<1> QED
  BY <1>1, <1>2

LEMMA PushKeeps ==
  ASSUME NEW S, \A e \in S : Possible(e), events \in Seq(S), gap \in BOOLEAN,
         NEW e1 \in S \cup {NoEvent}, NEW e2 \in S \cup {NoEvent},
         NEW e3 \in S \cup {NoEvent}, Push(e1, e2, e3)
  PROVE  events' \in Seq(S) /\ gap' \in BOOLEAN
<1>1. CASE stream = "open"
  <2>1. Unread \in Reading(S)
    BY DEF Unread, Reading
  <2>2. Sent(Unread, e1) \in Reading(S)
    BY <2>1, SentKeeps
  <2>3. Sent(Sent(Unread, e1), e2) \in Reading(S)
    BY <2>2, SentKeeps
  <2>4. Sent(Sent(Sent(Unread, e1), e2), e3) \in Reading(S)
    BY <2>3, SentKeeps
  <2> QED
    BY <1>1, <2>4 DEF Push, Receive, Reading
<1>2. CASE stream # "open"
  BY <1>2 DEF Push
<1> QED
  BY <1>1, <1>2

-----------------------------------------------------------------------------
(* The session, the events about it, and what the tracker made of them.    *)

\* The ids of events, of tracked records and of a snapshot in hand are ids
\* that were in use, and never in another workspace or tab. An event or a
\* record that closes something does so only after the session did.
Consistent(f) ==
  /\ f \in Snapshots
  /\ \A p, q \in DOMAIN f : f[p].tab = f[q].tab => f[p].ws = f[q].ws

SessionLawful ==
  /\ Consistent(world)
  /\ DOMAIN world \cup SnapTabs(world) \cup SnapWorkspaces(world) \subseteq used

NormalizedEvents ==
  [kind : Kinds, pane : Panes \cup {None}, ws : Workspaces \cup {None},
   tab : Tabs \cup {None}, agent : Agents \cup {None}, status : Status]

PaneKinds == {KindPaneCreated, KindPaneClosed, KindAgentDetected, KindAgentStatusChanged}

Lawful(e) ==
  /\ Possible(e)
  /\ e.kind = KindWorkspaceClosed => e.ws \in used \ SnapWorkspaces(world)
  /\ e.kind = KindTabClosed => e.tab \in used \ SnapTabs(world)
  /\ e.kind = KindPaneClosed => e.pane \notin DOMAIN world
  /\ e.kind \in PaneKinds => e.pane \in used
  /\ e.kind \in {KindPaneCreated, KindAgentStatusChanged} /\ e.pane \in DOMAIN world =>
       e.ws = world[e.pane].ws
  /\ e.kind = KindPaneCreated /\ e.pane \in DOMAIN world => e.tab = world[e.pane].tab

LawfulEvents == {e \in NormalizedEvents : Lawful(e)}

PaneLawful(p) ==
  p \in DOMAIN panes => /\ panes[p].closedAt = Zero
                        /\ panes[p].ws \in {None, world[p].ws}
                        /\ panes[p].tab \in {None, world[p].tab}
AgentLawful(p) ==
  p \in DOMAIN agents => agents[p].closedAt = Zero /\ agents[p].ws = world[p].ws

TrackerLawful ==
  /\ DOMAIN panes \cup DOMAIN agents \subseteq used
  /\ \A p \in DOMAIN world : PaneLawful(p) /\ AgentLawful(p)

FetchedLawful ==
  loop \in {"subscribe", "apply"} =>
    /\ Consistent(fetched)
    /\ DOMAIN fetched \subseteq used
    /\ DOMAIN fetched \cap Closed(panes) = {}
    /\ \A p \in DOMAIN fetched \cap DOMAIN world :
         fetched[p].ws = world[p].ws /\ fetched[p].tab = world[p].tab

LawInv ==
  /\ SessionLawful
  /\ events \in Seq(LawfulEvents) /\ gap \in BOOLEAN
  /\ loop \in {"fetch", "subscribe"} => stream = "none" /\ events = <<>>
  /\ TrackerLawful
  /\ FetchedLawful

\* How the session moves on: ids that were in use are not used again.
SessionMoves ==
  /\ used \subseteq used'
  /\ \A p \in DOMAIN world' \cap used :
       /\ p \in DOMAIN world
       /\ world'[p].ws = world[p].ws /\ world'[p].tab = world[p].tab
  /\ used \cap SnapTabs(world') \subseteq SnapTabs(world)
  /\ used \cap SnapWorkspaces(world') \subseteq SnapWorkspaces(world)

\* An event that was lawful stays so.
LEMMA LawfulStays ==
  ASSUME SessionMoves
  PROVE  LawfulEvents \subseteq LawfulEvents'
<1> SUFFICES ASSUME NEW e, Lawful(e) PROVE Lawful(e)'
  BY DEF LawfulEvents
<1>1. /\ Possible(e)' /\ (e.kind \in PaneKinds => e.pane \in used')
      /\ KindPaneCreated \in PaneKinds /\ KindAgentStatusChanged \in PaneKinds
  BY DEF Possible, Lawful, SessionMoves, PaneKinds
<1>2. e.kind = KindWorkspaceClosed => e.ws \in used' \ SnapWorkspaces(world')
  BY DEF Lawful, SessionMoves
<1>3. e.kind = KindTabClosed => e.tab \in used' \ SnapTabs(world')
  BY DEF Lawful, SessionMoves
<1>4. e.kind \in PaneKinds => e.pane \in used
  BY DEF Lawful
<1>5. e.kind = KindPaneClosed => e.pane \notin DOMAIN world'
  BY <1>4 DEF Lawful, SessionMoves, PaneKinds
<1>6. e.kind \in {KindPaneCreated, KindAgentStatusChanged} /\ e.pane \in DOMAIN world' =>
        e.ws = world'[e.pane].ws
  BY <1>1, <1>4 DEF Lawful, SessionMoves
<1>7. e.kind = KindPaneCreated /\ e.pane \in DOMAIN world' => e.tab = world'[e.pane].tab
  BY <1>1, <1>4 DEF Lawful, SessionMoves
<1> QED
  BY <1>1, <1>2, <1>3, <1>5, <1>6, <1>7 DEF Lawful, PaneKinds

LEMMA LawMoves ==
  ASSUME LawInv, SessionMoves, UNCHANGED <<panes, agents, loop, fetched>>
  PROVE  TrackerLawful' /\ FetchedLawful'
<1>1. TrackerLawful'
  <2>1. ASSUME NEW p \in DOMAIN world', p \in DOMAIN panes \cup DOMAIN agents
        PROVE  PaneLawful(p)' /\ AgentLawful(p)'
    BY <2>1 DEF LawInv, TrackerLawful, SessionMoves, PaneLawful, AgentLawful
  <2>2. DOMAIN panes' \cup DOMAIN agents' \subseteq used'
    BY DEF LawInv, TrackerLawful, SessionMoves
  <2> QED
    BY <2>1, <2>2 DEF TrackerLawful, PaneLawful, AgentLawful
<1>2. FetchedLawful'
  BY DEF LawInv, FetchedLawful, SessionMoves, Closed, Live, Consistent
<1> QED
  BY <1>1, <1>2

\* Membership in the snapshots Herdr may send, pane by pane.
LEMMA ReportParts ==
  ASSUME NEW p, NEW r
  PROVE  r \in PaneReports(p) <=>
           \E pl \in Places, a \in Agents \cup {None}, s \in Reported, x \in Sessions \cup {None} :
             pl[1] = p /\ r = [ws |-> pl[2], tab |-> pl[3], agent |-> a, status |-> s, session |-> x]
  BY DEF PaneReports

LEMMA SnapshotParts ==
  ASSUME NEW f
  PROVE  f \in Snapshots <=>
           /\ f = [p \in DOMAIN f |-> f[p]] /\ DOMAIN f \subseteq Panes
           /\ \A p \in DOMAIN f : f[p] \in PaneReports(p)
<1>1. ASSUME f \in Snapshots
      PROVE  /\ f = [p \in DOMAIN f |-> f[p]] /\ DOMAIN f \subseteq Panes
             /\ \A p \in DOMAIN f : f[p] \in PaneReports(p)
  BY <1>1 DEF Snapshots
<1>2. ASSUME f = [p \in DOMAIN f |-> f[p]], DOMAIN f \subseteq Panes,
             \A p \in DOMAIN f : f[p] \in PaneReports(p)
      PROVE  f \in Snapshots
  <2>1. \A p \in DOMAIN f : f[p] \in Reports
    BY <1>2 DEF Reports
  <2>2. f \in [DOMAIN f -> Reports]
    BY <1>2, <2>1
  <2>3. f \in {g \in [DOMAIN f -> Reports] : \A p \in DOMAIN f : g[p] \in PaneReports(p)}
    BY <1>2, <2>2
  <2> QED
    BY <1>2, <2>3 DEF Snapshots
<1> QED
  BY <1>1, <1>2

\* What is known of a pane of a consistent picture.
LEMMA PaneOf ==
  ASSUME NEW f, Consistent(f), NEW p \in DOMAIN f
  PROVE  /\ p \in Panes /\ f[p].ws \in Workspaces /\ f[p].tab \in Tabs
         /\ f[p].agent \in Agents \cup {None} /\ f[p].status \in Reported
         /\ f[p].session \in Sessions \cup {None}
         /\ \E pl \in Places : pl[1] = p /\ pl[2] = f[p].ws /\ pl[3] = f[p].tab
         /\ f[p] = [ws |-> f[p].ws, tab |-> f[p].tab, agent |-> f[p].agent,
                    status |-> f[p].status, session |-> f[p].session]
<1>1. f[p] \in PaneReports(p) /\ p \in Panes
  BY SnapshotParts DEF Consistent
<1>2. PICK pl \in Places, a \in Agents \cup {None}, s \in Reported, x \in Sessions \cup {None} :
        pl[1] = p /\ f[p] = [ws |-> pl[2], tab |-> pl[3], agent |-> a, status |-> s, session |-> x]
  BY <1>1, ReportParts
<1> QED
  BY <1>1, <1>2, PlaceParts

\* A picture in which one pane says something else of its agent.
LEMMA StatusChangesPicture ==
  ASSUME NEW f, Consistent(f), NEW p \in DOMAIN f,
         NEW a \in Agents \cup {None}, NEW s \in Reported,
         NEW g, DOMAIN g = DOMAIN f, g = [q \in DOMAIN g |-> g[q]],
         \A q \in DOMAIN f : q # p => g[q] = f[q],
         g[p] = [ws |-> f[p].ws, tab |-> f[p].tab, agent |-> a, status |-> s,
                 session |-> f[p].session]
  PROVE  /\ Consistent(g)
         /\ \A q \in DOMAIN f : g[q].ws = f[q].ws /\ g[q].tab = f[q].tab
<1>1. g[p] \in PaneReports(p)
  BY PaneOf, ReportParts
<1>2. g \in Snapshots
  <2>1. \A q \in DOMAIN f : f[q] \in PaneReports(q)
    BY SnapshotParts DEF Consistent
  <2>2. DOMAIN f \subseteq Panes
    BY PaneOf
  <2>3. \A q \in DOMAIN g : g[q] \in PaneReports(q)
    BY <1>1, <2>1
  <2> QED
    BY <2>2, <2>3, SnapshotParts
<1>3. \A q \in DOMAIN f : g[q].ws = f[q].ws /\ g[q].tab = f[q].tab
  OBVIOUS
<1> QED
  BY <1>2, <1>3 DEF Consistent

\* The same, of the session.
LEMMA WorldChanges ==
  ASSUME SessionLawful, NEW p \in DOMAIN world,
         NEW a \in Agents \cup {None}, NEW s \in Reported,
         \/ world' = [world EXCEPT ![p].agent = a, ![p].status = s]
         \/ world' = [world EXCEPT ![p].status = s] /\ a = world[p].agent,
         UNCHANGED used
  PROVE  /\ SessionMoves /\ SessionLawful'
         /\ DOMAIN world' = DOMAIN world
         /\ \A q \in DOMAIN world : world'[q].ws = world[q].ws /\ world'[q].tab = world[q].tab
         /\ \A q \in DOMAIN world : q # p => world'[q] = world[q]
         /\ world'[p].agent = a /\ world'[p].status = s
<1>1. Consistent(world) /\ DOMAIN world \cup SnapTabs(world) \cup SnapWorkspaces(world) \subseteq used
  BY DEF SessionLawful
<1>2. world[p] = [ws |-> world[p].ws, tab |-> world[p].tab, agent |-> world[p].agent,
                  status |-> world[p].status, session |-> world[p].session]
  BY <1>1, PaneOf
<1>3. /\ DOMAIN world' = DOMAIN world /\ world' = [q \in DOMAIN world' |-> world'[q]]
      /\ \A q \in DOMAIN world : q # p => world'[q] = world[q]
  OBVIOUS
<1>4. world'[p] = [ws |-> world[p].ws, tab |-> world[p].tab, agent |-> a, status |-> s,
                   session |-> world[p].session]
  BY <1>2
<1>5. Consistent(world')
      /\ \A q \in DOMAIN world : world'[q].ws = world[q].ws /\ world'[q].tab = world[q].tab
  <2> DEFINE g == world'
  <2>1. /\ DOMAIN g = DOMAIN world /\ g = [q \in DOMAIN g |-> g[q]]
        /\ \A q \in DOMAIN world : q # p => g[q] = world[q]
        /\ g[p] = [ws |-> world[p].ws, tab |-> world[p].tab, agent |-> a, status |-> s,
                   session |-> world[p].session]
    BY <1>3, <1>4
  <2> HIDE DEF g
  <2>2. Consistent(g)
        /\ \A q \in DOMAIN world : g[q].ws = world[q].ws /\ g[q].tab = world[q].tab
    BY <1>1, <2>1, StatusChangesPicture
  <2> QED
    BY <2>2 DEF g
<1>6. SnapTabs(world') = SnapTabs(world) /\ SnapWorkspaces(world') = SnapWorkspaces(world)
  BY <1>3, <1>5 DEF SnapTabs, SnapWorkspaces
<1>7. SessionMoves /\ SessionLawful'
  BY <1>1, <1>3, <1>5, <1>6 DEF SessionMoves, SessionLawful
<1> QED
  BY <1>3, <1>4, <1>5, <1>7

\* Typing of the events the session sends.
LEMMA PossibleTyped == \A e : Possible(e) => e \in NormalizedEvents
<1> SUFFICES ASSUME NEW e, Possible(e) PROVE e \in NormalizedEvents
  OBVIOUS
<1>1. None \in Status /\ \A pl \in Places : pl[1] \in Panes /\ pl[2] \in Workspaces /\ pl[3] \in Tabs
  BY PlaceParts DEF Status
<1>2. e.kind \in Kinds
  BY DEF Possible
<1>3. CASE e.kind \in {KindWorkspaceCreated, KindWorkspaceClosed}
  BY <1>1, <1>2, <1>3 DEF Possible, Ev, NormalizedEvents
<1>4. CASE e.kind \in {KindTabCreated, KindTabClosed, KindTabRenamed}
  BY <1>1, <1>2, <1>4 DEF Possible, Ev, NormalizedEvents
<1>5. CASE e.kind \in {KindPaneCreated, KindPaneClosed}
  BY <1>1, <1>2, <1>5 DEF Possible, Ev, NormalizedEvents
<1>6. CASE e.kind \in {KindAgentDetected, KindAgentStatusChanged}
  BY <1>1, <1>2, <1>6, ReportedAssumption DEF Possible, Ev, NormalizedEvents
<1> QED
  BY <1>2, <1>3, <1>4, <1>5, <1>6 DEF Kinds

\* What an action that pushes its events needs to show.
LEMMA PushLawful ==
  ASSUME LawInv, SessionMoves, SessionLawful',
         NEW e1, NEW e2, NEW e3, Push(e1, e2, e3),
         \A e \in {e1, e2, e3} : e = NoEvent \/ Lawful(e)',
         UNCHANGED <<vars, stream, loop, fetched>>
  PROVE  LawInv'
<1>1. \A e \in {e1, e2, e3} : e \in LawfulEvents' \cup {NoEvent}
  BY PossibleTyped DEF LawfulEvents, Lawful
<1>2. events \in Seq(LawfulEvents')
  BY LawfulStays DEF LawInv
<1>3. \A e \in LawfulEvents' : Possible(e)
  BY DEF LawfulEvents, Lawful
<1>4. events' \in Seq(LawfulEvents') /\ gap' \in BOOLEAN
  <2> DEFINE S == LawfulEvents'
  <2>1. e1 \in S \cup {NoEvent} /\ e2 \in S \cup {NoEvent} /\ e3 \in S \cup {NoEvent}
    BY <1>1
  <2> HIDE DEF S
  <2>2. \A e \in S : Possible(e)
    BY <1>3 DEF S
  <2>3. events \in Seq(S) /\ gap \in BOOLEAN
    BY <1>2 DEF S, LawInv
  <2>4. events' \in Seq(S) /\ gap' \in BOOLEAN
    BY <2>1, <2>2, <2>3, PushKeeps
  <2> QED
    BY <2>4 DEF S
<1>5. TrackerLawful' /\ FetchedLawful'
  BY LawMoves DEF vars
<1>6. stream = "none" => events' = events
  BY DEF Push
<1> QED
  BY <1>4, <1>5, <1>6 DEF LawInv

\* A pane opens, with an id that was never in use, and with it what holds it.
LEMMA OpenPaneLaw ==
  ASSUME LawInv, NEW pl \in Places, OpenPane(pl)
  PROVE  LawInv'
<1> DEFINE p == pl[1]
           w == pl[2]
           t == pl[3]
           r == [ws |-> w, tab |-> t, agent |-> None, status |-> "unknown", session |-> None]
           inTab == InTab(t)
           ew == Ev(KindWorkspaceCreated, None, w, None, None, None)
           et == Ev(KindTabCreated, None, w, t, None, None)
           ep == Ev(KindPaneCreated, p, w, t, None, None)
<1>1. /\ p \notin used /\ (t \in used => inTab # {})
      /\ (w \in used => In(world, w) # {})
      /\ \A q \in inTab : world[q].ws = w
      /\ used' = used \cup {p, t, w} /\ world' = Put(world, p, r)
      /\ UNCHANGED <<vars, stream, loop, fetched>>
      /\ Push(Unless(In(world, w) # {}, ew), Unless(inTab # {}, et), ep)
  BY DEF OpenPane, Changing, lvars
<1> HIDE DEF r
<1>2. Consistent(world) /\ DOMAIN world \cup SnapTabs(world) \cup SnapWorkspaces(world) \subseteq used
  BY DEF LawInv, SessionLawful
<1>3. /\ DOMAIN world' = DOMAIN world \cup {p} /\ p \notin DOMAIN world
      /\ \A q \in DOMAIN world : world'[q] = world[q]
      /\ world'[p] = r
      /\ world' = [q \in DOMAIN world' |-> world'[q]]
  BY <1>1, <1>2 DEF Put
<1>4. r.ws = w /\ r.tab = t
  BY DEF r
<1>5. SnapTabs(world') = SnapTabs(world) \cup {t}
      /\ SnapWorkspaces(world') = SnapWorkspaces(world) \cup {w}
  BY <1>3, <1>4 DEF SnapTabs, SnapWorkspaces
<1>6. /\ t \in used => t \in SnapTabs(world)
      /\ w \in used => w \in SnapWorkspaces(world)
  BY <1>1 DEF SnapTabs, SnapWorkspaces, In, InTab
<1>7. SessionMoves
  BY <1>1, <1>3, <1>5, <1>6 DEF SessionMoves
<1>8. r \in PaneReports(p)
  BY ReportParts, StatesAssumption DEF r
<1>9. p \in Panes
  BY PlaceParts
<1>10. world' \in Snapshots
  <2>1. \A q \in DOMAIN world : q \in Panes /\ world[q] \in PaneReports(q)
    BY <1>2, SnapshotParts DEF Consistent
  <2>2. \A q \in DOMAIN world' : world'[q] \in PaneReports(q)
    BY <1>3, <1>8, <2>1
  <2>3. DOMAIN world' \subseteq Panes
    BY <1>3, <1>9, <2>1
  <2> QED
    BY <1>3, <2>2, <2>3, SnapshotParts
<1>18. inTab = {q \in DOMAIN world : world[q].tab = t}
  BY DEF InTab
<1>11. Consistent(world')
  <2> SUFFICES ASSUME NEW q1 \in DOMAIN world', NEW q2 \in DOMAIN world',
                      world'[q1].tab = world'[q2].tab
               PROVE  world'[q1].ws = world'[q2].ws
    BY <1>10 DEF Consistent
  <2> QED
    BY <1>1, <1>2, <1>3, <1>4, <1>18 DEF Consistent
<1>12. SessionLawful'
  BY <1>1, <1>2, <1>3, <1>5, <1>11 DEF SessionLawful
<1>13. ew.kind = KindWorkspaceCreated /\ et.kind = KindTabCreated /\ ep.kind = KindPaneCreated
       /\ ep.pane = p /\ ep.ws = w /\ ep.tab = t
  BY DEF Ev
<1>14. Possible(ew) /\ Possible(et) /\ Possible(ep)
  <2>1. Possible(ew)
    BY <1>13, KindsDiffer DEF Possible, Kinds
  <2>2. Possible(et)
    BY <1>13, KindsDiffer DEF Possible, Kinds
  <2>3. Possible(ep)
    BY <1>13, KindsDiffer DEF Possible, Kinds
  <2> QED
    BY <2>1, <2>2, <2>3
<1> HIDE DEF p, w, t, inTab, ew, et, ep
<1>15. Lawful(ew)' /\ Lawful(et)'
  BY <1>13, <1>14, KindsDiffer DEF Lawful, PaneKinds
<1>16. Lawful(ep)'
  BY <1>1, <1>3, <1>4, <1>13, <1>14, KindsDiffer DEF Lawful, PaneKinds
<1>17. \A e \in {Unless(In(world, w) # {}, ew), Unless(inTab # {}, et), ep} :
         e = NoEvent \/ Lawful(e)'
  BY <1>15, <1>16 DEF Unless
<1> QED
  BY <1>1, <1>7, <1>12, <1>17, PushLawful

\* The events about a place of the session, and what makes each lawful.
LEMMA LawfulNext ==
  ASSUME NEW pl \in Places
  PROVE  /\ Lawful(Ev(KindTabRenamed, None, pl[2], pl[3], None, None))'
         /\ pl[2] \in used' \ SnapWorkspaces(world') =>
              Lawful(Ev(KindWorkspaceClosed, None, pl[2], None, None, None))'
         /\ pl[3] \in used' \ SnapTabs(world') =>
              Lawful(Ev(KindTabClosed, None, pl[2], pl[3], None, None))'
         /\ pl[1] \in used' \ DOMAIN world' =>
              Lawful(Ev(KindPaneClosed, pl[1], pl[2], None, None, None))'
         /\ \A a \in Agents : pl[1] \in used' =>
              Lawful(Ev(KindAgentDetected, pl[1], pl[2], None, a, None))'
         /\ \A a \in Agents, s \in Reported :
              pl[1] \in used' /\ (pl[1] \in DOMAIN world' => pl[2] = world'[pl[1]].ws) =>
              Lawful(Ev(KindAgentStatusChanged, pl[1], pl[2], None, a, s))'
<1>1. Lawful(Ev(KindTabRenamed, None, pl[2], pl[3], None, None))'
  <2> DEFINE e == Ev(KindTabRenamed, None, pl[2], pl[3], None, None)
  <2>1. e.kind = KindTabRenamed
    BY DEF Ev
  <2>2. Possible(e)
    BY <2>1, KindsDiffer DEF Possible, Kinds
  <2> HIDE DEF e
  <2> QED
    BY <2>1, <2>2, KindsDiffer DEF Lawful, PaneKinds, e
<1>2. ASSUME pl[2] \in used' \ SnapWorkspaces(world')
      PROVE  Lawful(Ev(KindWorkspaceClosed, None, pl[2], None, None, None))'
  <2> DEFINE e == Ev(KindWorkspaceClosed, None, pl[2], None, None, None)
  <2>1. e.kind = KindWorkspaceClosed /\ e.ws = pl[2]
    BY DEF Ev
  <2>2. Possible(e)
    BY <2>1, KindsDiffer DEF Possible, Kinds
  <2> HIDE DEF e
  <2> QED
    BY <1>2, <2>1, <2>2, KindsDiffer DEF Lawful, PaneKinds, e
<1>3. ASSUME pl[3] \in used' \ SnapTabs(world')
      PROVE  Lawful(Ev(KindTabClosed, None, pl[2], pl[3], None, None))'
  <2> DEFINE e == Ev(KindTabClosed, None, pl[2], pl[3], None, None)
  <2>1. e.kind = KindTabClosed /\ e.tab = pl[3]
    BY DEF Ev
  <2>2. Possible(e)
    BY <2>1, KindsDiffer DEF Possible, Kinds
  <2> HIDE DEF e
  <2> QED
    BY <1>3, <2>1, <2>2, KindsDiffer DEF Lawful, PaneKinds, e
<1>4. ASSUME pl[1] \in used' \ DOMAIN world'
      PROVE  Lawful(Ev(KindPaneClosed, pl[1], pl[2], None, None, None))'
  <2> DEFINE e == Ev(KindPaneClosed, pl[1], pl[2], None, None, None)
  <2>1. e.kind = KindPaneClosed /\ e.pane = pl[1]
    BY DEF Ev
  <2>2. Possible(e)
    BY <2>1, KindsDiffer DEF Possible, Kinds
  <2> HIDE DEF e
  <2> QED
    BY <1>4, <2>1, <2>2, KindsDiffer DEF Lawful, PaneKinds, e
<1>5. ASSUME NEW a \in Agents, pl[1] \in used'
      PROVE  Lawful(Ev(KindAgentDetected, pl[1], pl[2], None, a, None))'
  <2> DEFINE e == Ev(KindAgentDetected, pl[1], pl[2], None, a, None)
  <2>1. e.kind = KindAgentDetected /\ e.pane = pl[1]
    BY DEF Ev
  <2>2. Possible(e)
    BY <2>1, KindsDiffer DEF Possible, Kinds
  <2> HIDE DEF e
  <2> QED
    BY <1>5, <2>1, <2>2, KindsDiffer DEF Lawful, PaneKinds, e
<1>6. ASSUME NEW a \in Agents, NEW s \in Reported, pl[1] \in used',
             pl[1] \in DOMAIN world' => pl[2] = world'[pl[1]].ws
      PROVE  Lawful(Ev(KindAgentStatusChanged, pl[1], pl[2], None, a, s))'
  <2> DEFINE e == Ev(KindAgentStatusChanged, pl[1], pl[2], None, a, s)
  <2>1. e.kind = KindAgentStatusChanged /\ e.pane = pl[1] /\ e.ws = pl[2]
    BY DEF Ev
  <2>2. Possible(e)
    BY <2>1, KindsDiffer DEF Possible, Kinds
  <2> HIDE DEF e
  <2> QED
    BY <1>6, <2>1, <2>2, KindsDiffer DEF Lawful, PaneKinds, e
<1> QED
  BY <1>1, <1>2, <1>3, <1>4, <1>5, <1>6

\* Panes vanish from the session, and with them what held nothing else.
LEMMA VanishMoves ==
  ASSUME LawInv, NEW P, world' = [q \in DOMAIN world \ P |-> world[q]], UNCHANGED used
  PROVE  /\ SessionMoves /\ SessionLawful'
         /\ DOMAIN world' = DOMAIN world \ P
         /\ \A q \in DOMAIN world' : world'[q] = world[q]
<1>1. Consistent(world) /\ DOMAIN world \cup SnapTabs(world) \cup SnapWorkspaces(world) \subseteq used
  BY DEF LawInv, SessionLawful
<1>2. /\ DOMAIN world' = DOMAIN world \ P /\ \A q \in DOMAIN world' : world'[q] = world[q]
      /\ world' = [q \in DOMAIN world' |-> world'[q]]
  OBVIOUS
<1>3. world' \in Snapshots
  <2> DEFINE left == world'
  <2>1. \A q \in DOMAIN world : q \in Panes /\ world[q] \in PaneReports(q)
    BY <1>1, SnapshotParts DEF Consistent
  <2>2. /\ left = [q \in DOMAIN left |-> left[q]] /\ DOMAIN left \subseteq Panes
        /\ \A q \in DOMAIN left : left[q] \in PaneReports(q)
    BY <1>2, <2>1
  <2> HIDE DEF left
  <2>3. left \in Snapshots
    BY <2>2, SnapshotParts
  <2> QED
    BY <2>3 DEF left
<1>4. Consistent(world')
  BY <1>1, <1>2, <1>3 DEF Consistent
<1>5. SnapTabs(world') \subseteq SnapTabs(world) /\ SnapWorkspaces(world') \subseteq SnapWorkspaces(world)
  BY <1>2 DEF SnapTabs, SnapWorkspaces
<1>6. SessionMoves
  BY <1>2, <1>5 DEF SessionMoves
<1>7. SessionLawful'
  BY <1>1, <1>2, <1>4, <1>5 DEF SessionLawful
<1> QED
  BY <1>2, <1>6, <1>7

\* A pane that leaves others in its tab.
LEMMA ClosePaneLaw ==
  ASSUME LawInv, NEW p \in Panes, ClosePane(p)
  PROVE  LawInv'
<1>1. /\ p \in DOMAIN world /\ world' = [q \in DOMAIN world \ {p} |-> world[q]]
      /\ UNCHANGED used /\ UNCHANGED <<vars, stream, loop, fetched>>
      /\ Push(Ev(KindPaneClosed, p, world[p].ws, None, None, None), NoEvent, NoEvent)
  BY DEF ClosePane, Vanish, Changing, lvars
<1>2. Consistent(world) /\ DOMAIN world \subseteq used
  BY DEF LawInv, SessionLawful
<1>3. SessionMoves /\ SessionLawful' /\ DOMAIN world' = DOMAIN world \ {p}
  BY <1>1, VanishMoves
<1>4. PICK pl \in Places : pl[1] = p /\ pl[2] = world[p].ws
  BY <1>1, <1>2, PaneOf
<1> DEFINE ep == Ev(KindPaneClosed, pl[1], pl[2], None, None, None)
<1>5. Push(ep, NoEvent, NoEvent)
  BY <1>1, <1>4
<1>6. Lawful(ep)'
  BY <1>1, <1>2, <1>3, <1>4, LawfulNext
<1>7. \A e \in {ep, NoEvent} : e = NoEvent \/ Lawful(e)'
  BY <1>6
<1> HIDE DEF ep
<1> QED
  BY <1>1, <1>3, <1>5, <1>7, PushLawful

\* The workspace of a tab is that of each of its panes.
LEMMA TabOf ==
  ASSUME SessionLawful, NEW t, InTab(t) # {}
  PROVE  /\ \A p \in InTab(t) : p \in DOMAIN world /\ world[p].tab = t /\ world[p].ws = wsOf(t)
         /\ InTab(t) \subseteq In(world, wsOf(t))
         /\ t \in SnapTabs(world) /\ wsOf(t) \in SnapWorkspaces(world)
         /\ \E pl \in Places : pl[2] = wsOf(t) /\ pl[3] = t
<1>1. \E p \in DOMAIN world : world[p].tab = t
  BY DEF InTab
<1>2. PICK p \in DOMAIN world : world[p].tab = t /\ wsOf(t) = world[p].ws
  BY <1>1 DEF wsOf
<1>3. \A q \in InTab(t) : q \in DOMAIN world /\ world[q].tab = t /\ world[q].ws = wsOf(t)
  BY <1>2 DEF InTab, SessionLawful, Consistent
<1>4. \E pl \in Places : pl[2] = wsOf(t) /\ pl[3] = t
  BY <1>2, PaneOf DEF SessionLawful
<1> QED
  BY <1>2, <1>3, <1>4 DEF In, SnapTabs, SnapWorkspaces

\* A tab closes, and its workspace if it was the last.
LEMMA CloseTabLaw ==
  ASSUME LawInv, NEW t \in Tabs, CloseTab(t)
  PROVE  LawInv'
<1> DEFINE w == wsOf(t)
<1>1. /\ InTab(t) # {} /\ world' = [q \in DOMAIN world \ InTab(t) |-> world[q]]
      /\ UNCHANGED used /\ UNCHANGED <<vars, stream, loop, fetched>>
      /\ Push(Ev(KindTabClosed, None, w, t, None, None),
              Unless(In(world, w) # InTab(t), Ev(KindWorkspaceClosed, None, w, None, None, None)),
              NoEvent)
  BY DEF CloseTab, Vanish, Changing, lvars
<1> HIDE DEF w
<1>2. SessionLawful /\ SnapTabs(world) \cup SnapWorkspaces(world) \subseteq used
  BY DEF LawInv, SessionLawful
<1>3. /\ SessionMoves /\ SessionLawful' /\ DOMAIN world' = DOMAIN world \ InTab(t)
      /\ \A q \in DOMAIN world' : world'[q] = world[q]
  BY <1>1, VanishMoves
<1>4. t \in SnapTabs(world) /\ w \in SnapWorkspaces(world)
      /\ \E pl \in Places : pl[2] = w /\ pl[3] = t
  BY <1>1, <1>2, TabOf DEF w
<1>5. PICK pl \in Places : pl[2] = w /\ pl[3] = t
  BY <1>4
<1> DEFINE et == Ev(KindTabClosed, None, pl[2], pl[3], None, None)
           ew == Ev(KindWorkspaceClosed, None, pl[2], None, None, None)
<1>6. Push(et, Unless(In(world, w) # InTab(t), ew), NoEvent)
  BY <1>1, <1>5
<1>7. t \in used' \ SnapTabs(world')
  BY <1>1, <1>2, <1>3, <1>4 DEF SnapTabs, InTab
<1>8. In(world, w) = InTab(t) => w \in used' \ SnapWorkspaces(world')
  BY <1>1, <1>2, <1>3, <1>4 DEF SnapWorkspaces, In
<1>9. Lawful(et)' /\ (In(world, w) = InTab(t) => Lawful(ew)')
  BY <1>5, <1>7, <1>8, LawfulNext
<1>10. \A e \in {et, Unless(In(world, w) # InTab(t), ew), NoEvent} : e = NoEvent \/ Lawful(e)'
  BY <1>9 DEF Unless
<1> HIDE DEF et, ew
<1> QED
  BY <1>1, <1>3, <1>6, <1>10, PushLawful

\* A workspace closes with all it holds.
LEMMA CloseWorkspaceLaw ==
  ASSUME LawInv, NEW w \in Workspaces, CloseWorkspace(w)
  PROVE  LawInv'
<1>1. /\ In(world, w) # {} /\ world' = [q \in DOMAIN world \ In(world, w) |-> world[q]]
      /\ UNCHANGED used /\ UNCHANGED <<vars, stream, loop, fetched>>
      /\ Push(Ev(KindWorkspaceClosed, None, w, None, None, None), NoEvent, NoEvent)
  BY DEF CloseWorkspace, Vanish, Changing, lvars
<1>2. Consistent(world) /\ SnapWorkspaces(world) \subseteq used
  BY DEF LawInv, SessionLawful
<1>3. /\ SessionMoves /\ SessionLawful' /\ DOMAIN world' = DOMAIN world \ In(world, w)
      /\ \A q \in DOMAIN world' : world'[q] = world[q]
  BY <1>1, VanishMoves
<1>4. PICK p \in DOMAIN world : world[p].ws = w
  BY <1>1 DEF In
<1>5. PICK pl \in Places : pl[2] = w
  BY <1>2, <1>4, PaneOf
<1> DEFINE ew == Ev(KindWorkspaceClosed, None, pl[2], None, None, None)
<1>6. Push(ew, NoEvent, NoEvent)
  BY <1>1, <1>5
<1>7. w \in used' \ SnapWorkspaces(world')
  BY <1>1, <1>2, <1>3, <1>4 DEF SnapWorkspaces, In
<1>8. Lawful(ew)'
  BY <1>5, <1>7, LawfulNext
<1>9. \A e \in {ew, NoEvent} : e = NoEvent \/ Lawful(e)'
  BY <1>8
<1> HIDE DEF ew
<1> QED
  BY <1>1, <1>3, <1>6, <1>9, PushLawful

\* An agent appears or changes: the ids stay as they are.
LEMMA AgentChangesLaw ==
  ASSUME LawInv, NEW p \in Panes, NEW a \in Agents, NEW s \in AgentStates,
         AgentChanges(p, a, s)
  PROVE  LawInv'
<1>1. /\ p \in DOMAIN world /\ UNCHANGED used
      /\ world' = [world EXCEPT ![p].agent = a, ![p].status = s]
      /\ UNCHANGED <<vars, stream, loop, fetched>>
      /\ Push(Unless(world[p].agent # None,
                     Ev(KindAgentDetected, p, world[p].ws, None, a, None)),
              Ev(KindAgentStatusChanged, p, world[p].ws, None, a, s), NoEvent)
  BY DEF AgentChanges, Changing, lvars
<1>2. SessionLawful /\ Consistent(world) /\ DOMAIN world \subseteq used
  BY DEF LawInv, SessionLawful
<1>3. s \in Reported
  BY StatesAssumption
<1>4. /\ SessionMoves /\ SessionLawful' /\ DOMAIN world' = DOMAIN world
      /\ \A q \in DOMAIN world : world'[q].ws = world[q].ws
  BY <1>1, <1>2, <1>3, WorldChanges
<1>7. PICK pl \in Places : pl[1] = p /\ pl[2] = world[p].ws /\ pl[3] = world[p].tab
  BY <1>1, <1>2, PaneOf
<1> DEFINE ed == Ev(KindAgentDetected, pl[1], pl[2], None, a, None)
           es == Ev(KindAgentStatusChanged, pl[1], pl[2], None, a, s)
<1>8. Push(Unless(world[p].agent # None, ed), es, NoEvent)
  BY <1>1, <1>7
<1>9. Lawful(ed)' /\ Lawful(es)'
  BY <1>1, <1>2, <1>3, <1>4, <1>7, LawfulNext
<1>10. \A e \in {Unless(world[p].agent # None, ed), es, NoEvent} : e = NoEvent \/ Lawful(e)'
  BY <1>9 DEF Unless
<1> HIDE DEF ed, es
<1> QED
  BY <1>1, <1>4, <1>8, <1>10, PushLawful

\* The user looks at a pane: no event says so.
LEMMA SeenLaw ==
  ASSUME LawInv, NEW p \in Panes, Seen(p)
  PROVE  LawInv'
<1>1. /\ p \in DOMAIN world /\ UNCHANGED used
      /\ world' = [world EXCEPT ![p].status = "idle"]
      /\ UNCHANGED <<vars, stream, loop, fetched>>
  BY DEF Seen, Changing, lvars
<1>2. UNCHANGED <<events, gap>>
  BY NoEventRead DEF Seen, Receive, Unread
<1>3. "idle" \in Reported /\ world[p].agent \in Agents \cup {None} /\ SessionLawful
  BY <1>1, PaneOf, StatesAssumption DEF LawInv, SessionLawful
<1>4. SessionMoves /\ SessionLawful'
  BY <1>1, <1>3, WorldChanges
<1>5. events' \in Seq(LawfulEvents')
  BY <1>2, <1>4, LawfulStays DEF LawInv
<1>6. TrackerLawful' /\ FetchedLawful'
  BY <1>1, <1>4, LawMoves DEF vars
<1> QED
  BY <1>1, <1>2, <1>4, <1>5, <1>6 DEF LawInv

\* A rename names a tab of the session.
LEMMA RenameTabLaw ==
  ASSUME LawInv, NEW t \in Tabs, RenameTab(t)
  PROVE  LawInv'
<1>1. /\ t \in SnapTabs(world) /\ UNCHANGED <<used, world>>
      /\ UNCHANGED <<vars, stream, loop, fetched>>
      /\ Push(Ev(KindTabRenamed, None, wsOf(t), t, None, None), NoEvent, NoEvent)
  BY DEF RenameTab, Changing, lvars
<1>2. Consistent(world)
  BY DEF LawInv, SessionLawful
<1>3. SessionMoves /\ SessionLawful'
  BY <1>1 DEF SessionMoves, SessionLawful, LawInv, Consistent, SnapTabs, SnapWorkspaces
<1>4. \E p \in DOMAIN world : world[p].tab = t
  BY <1>1 DEF SnapTabs
<1>5. PICK p \in DOMAIN world : world[p].tab = t /\ wsOf(t) = world[p].ws
  BY <1>4 DEF wsOf
<1>6. PICK pl \in Places : pl[1] = p /\ pl[2] = world[p].ws /\ pl[3] = world[p].tab
  BY <1>2, <1>5, PaneOf
<1> DEFINE e1 == Ev(KindTabRenamed, None, pl[2], pl[3], None, None)
<1>7. Push(e1, NoEvent, NoEvent)
  BY <1>1, <1>5, <1>6
<1>8. Lawful(e1)'
  BY LawfulNext
<1>9. \A e \in {e1, NoEvent} : e = NoEvent \/ Lawful(e)'
  BY <1>8
<1> HIDE DEF e1
<1> QED
  BY <1>1, <1>3, <1>7, <1>9, PushLawful

LEMMA DelayedKeeps ==
  ASSUME NEW S, NEW q \in Seq(S), NEW i \in DOMAIN q
  PROVE  Delayed(q, i) \in Seq(S)
<1>1. Len(q) \in Nat /\ DOMAIN q = 1..Len(q) /\ \A j \in 1..Len(q) : q[j] \in S
  OBVIOUS
<1> DEFINE d == [j \in 1..Len(q) |->
                   IF j < i THEN q[j] ELSE IF j < Len(q) THEN q[j + 1] ELSE q[i]]
<1>2. \A j \in 1..Len(q) : d[j] \in S
  BY <1>1
<1>3. d \in [1..Len(q) -> S]
  BY <1>2
<1>4. Delayed(q, i) = d
  BY <1>1 DEF Delayed
<1> HIDE DEF d
<1> QED
  BY <1>1, <1>3, <1>4, SeqDef

\* An event late or twice is still one that Herdr sent.
LEMMA DisturbLaw ==
  ASSUME LawInv, NEW i, Disturb(i)
  PROVE  LawInv'
<1>1. /\ i \in DOMAIN events /\ gap' = TRUE
      /\ UNCHANGED <<vars, world, used, stream, loop, fetched>>
      /\ \/ events' = Delayed(events, i)
         \/ events' = Append(events, events[i])
  BY DEF Disturb, lvars
<1>2. SessionMoves /\ SessionLawful'
  BY <1>1 DEF SessionMoves, SessionLawful, LawInv, Consistent, SnapTabs, SnapWorkspaces
<1>3. events \in Seq(LawfulEvents')
  BY <1>2, LawfulStays DEF LawInv
<1>4. events' \in Seq(LawfulEvents')
  <2> DEFINE S == LawfulEvents'
  <2> HIDE DEF S
  <2>1. events \in Seq(S)
    BY <1>3 DEF S
  <2>2. events[i] \in S
    BY <1>1, <2>1
  <2>3. events' \in Seq(S)
    BY <1>1, <2>1, <2>2, DelayedKeeps
  <2> QED
    BY <2>3 DEF S
<1>5. loop \notin {"fetch", "subscribe"}
  <2>1. events = <<>> => DOMAIN events = {}
    OBVIOUS
  <2> QED
    BY <1>1, <2>1 DEF LawInv
<1>6. TrackerLawful' /\ FetchedLawful'
  BY <1>1, <1>2, LawMoves DEF vars
<1> QED
  BY <1>1, <1>2, <1>4, <1>5, <1>6 DEF LawInv

\* Steps after which the session, the queue and the tracker are as before.
LEMMA SameLaw ==
  ASSUME LawInv, UNCHANGED <<vars, world, used, events, loop, fetched>>,
         gap' \in BOOLEAN, stream # "none" => stream' # "none",
         loop \in {"fetch", "subscribe"} => stream' = "none"
  PROVE  LawInv'
<1>1. SessionMoves /\ SessionLawful'
  BY DEF SessionMoves, SessionLawful, LawInv, Consistent, SnapTabs, SnapWorkspaces
<1>2. events' \in Seq(LawfulEvents')
  BY <1>1, LawfulStays DEF LawInv
<1>3. TrackerLawful' /\ FetchedLawful'
  BY <1>1, LawMoves DEF vars
<1> QED
  BY <1>1, <1>2, <1>3 DEF LawInv

\* Whatever Herdr does.
LEMMA HerdrLaw == LawInv /\ Herdr => LawInv'
<1> SUFFICES ASSUME LawInv, Herdr PROVE LawInv'
  OBVIOUS
<1>1. CASE Break
  <2>1. /\ UNCHANGED <<vars, world, used, events, loop, fetched, gap>>
        /\ stream \in {"sent", "open", "silent"} /\ stream' = "broken"
    BY <1>1 DEF Break, lvars
  <2>2. loop \notin {"fetch", "subscribe"} /\ gap' \in BOOLEAN
    BY <2>1 DEF LawInv
  <2> QED
    BY <2>1, <2>2, SameLaw
<1>2. CASE Register
  <2>1. /\ UNCHANGED <<vars, world, used, loop, fetched>>
        /\ stream = "sent" /\ stream' # "none"
    BY <1>2 DEF Register, hvars, lvars
  <2>2. UNCHANGED <<events, gap>>
    BY <1>2, NoEventRead DEF Register, Receive, Unread
  <2>3. loop \notin {"fetch", "subscribe"} /\ gap' \in BOOLEAN
    BY <2>1, <2>2 DEF LawInv
  <2> QED
    BY <2>1, <2>2, <2>3, SameLaw
<1> QED
  BY <1>1, <1>2, OpenPaneLaw, ClosePaneLaw, CloseTabLaw, CloseWorkspaceLaw, SeenLaw,
     AgentChangesLaw, RenameTabLaw, DisturbLaw DEF Herdr

\* What each kind of call leaves of the panes and of the agents.
PanesFit(P) ==
  /\ DOMAIN P \subseteq used
  /\ \A p \in DOMAIN world \cap DOMAIN P :
       /\ P[p].closedAt = Zero
       /\ P[p].ws \in {None, world[p].ws} /\ P[p].tab \in {None, world[p].tab}
AgentsFit(A) ==
  /\ DOMAIN A \subseteq used
  /\ \A p \in DOMAIN world \cap DOMAIN A : A[p].closedAt = Zero /\ A[p].ws = world[p].ws

LEMMA TrackerFits ==
  /\ TrackerLawful <=> PanesFit(panes) /\ AgentsFit(agents)
  /\ UNCHANGED <<world, used>> =>
       (TrackerLawful' <=> PanesFit(panes') /\ AgentsFit(agents'))
BY DEF TrackerLawful, PaneLawful, AgentLawful, PanesFit, AgentsFit

\* A stored record that agrees with the session.
LEMMA PutPaneFits ==
  ASSUME PanesFit(panes), NEW p \in used, NEW r,
         p \in DOMAIN world => /\ r.closedAt = Zero
                               /\ r.ws \in {None, world[p].ws}
                               /\ r.tab \in {None, world[p].tab},
         panes' = Put(panes, p, r)
  PROVE  PanesFit(panes')
  BY DEF PanesFit, Put

LEMMA PutAgentFits ==
  ASSUME AgentsFit(agents), NEW p \in used, NEW r,
         p \in DOMAIN world => r.closedAt = Zero /\ r.ws = world[p].ws,
         agents' = Put(agents, p, r)
  PROVE  AgentsFit(agents')
<1>1. DOMAIN agents' = DOMAIN agents \cup {p}
      /\ \A q \in DOMAIN agents' : agents'[q] = IF q = p THEN r ELSE agents[q]
  BY DEF Put
<1> QED
  BY <1>1 DEF AgentsFit

\* A close of what the session closed.
LEMMA CloseFits ==
  ASSUME PanesFit(panes), AgentsFit(agents),
         NEW T, NEW P, NEW A, CloseAll(T, P, A),
         P \cap DOMAIN panes \cap DOMAIN world = {}, A \cap DOMAIN agents \cap DOMAIN world = {}
  PROVE  PanesFit(panes') /\ AgentsFit(agents')
<1> DEFINE C == A \cap Live(agents)
<1>1. /\ DOMAIN panes' = DOMAIN panes /\ DOMAIN agents' = DOMAIN agents
      /\ \A p \in DOMAIN panes \ P : panes'[p] = panes[p]
      /\ \A p \in DOMAIN agents \ A : agents'[p] = agents[p]
  BY DEF CloseAll, Close
<1> QED
  BY <1>1 DEF PanesFit, AgentsFit

\* A transition or a seen-flip writes one record.
LEMMA MovesPut ==
  ASSUME WellFormed, NEW p \in Live(agents), NEW w, NEW s, Move(p, w, s)
  PROVE  \E n : /\ n.ws = w /\ n.status = s /\ n.closedAt = Zero
                /\ agents' = Put(agents, p, n)
<1> DEFINE n == Entered(agents[p], w, s)
<1>1. p \in DOMAIN agents /\ agents[p] \in AgentRecord /\ agents[p].closedAt = Zero
  BY DEF WellFormed, Live
<1>2. n.ws = w /\ n.status = s /\ n.closedAt = Zero
  BY <1>1 DEF Entered, AgentRecord
<1>3. agents' = [agents EXCEPT ![p] = n]
  BY DEF Move
<1> HIDE DEF n
<1>4. agents' = Put(agents, p, n)
  <2>1. DOMAIN agents = DOMAIN agents \cup {p}
    BY <1>1
  <2>2. agents' = [q \in DOMAIN agents |-> IF q = p THEN n ELSE agents[q]]
    BY <1>3
  <2> QED
    BY <2>1, <2>2 DEF Put
<1> QED
  BY <1>2, <1>4

\* The record of an upsert, from what was there.
LEMMA UpsertedPane ==
  ASSUME WellFormed, PanesFit(panes), NEW p,
         NEW w, NEW a, NEW s,
         NEW r, \/ r = [At(panes, p, NewPane) EXCEPT !.agent = a]
                \/ /\ r = [At(panes, p, NewPane) EXCEPT !.ws = w, !.agent = a, !.status = s]
                   /\ p \in DOMAIN world => w = world[p].ws
  PROVE  p \in DOMAIN world => /\ r.closedAt = Zero
                               /\ r.ws \in {None, world[p].ws}
                               /\ r.tab \in {None, world[p].tab}
<1>1. p \in DOMAIN panes => panes[p] \in PaneRecord
  BY DEF WellFormed
<1>2. CASE p \in DOMAIN panes
  BY <1>1, <1>2 DEF PanesFit, At, PaneRecord
<1>3. CASE p \notin DOMAIN panes
  BY <1>3 DEF At, NewPane
<1> QED
  BY <1>2, <1>3

\* A close reaches no record of a pane that the session has.
LEMMA ClosesSpare ==
  ASSUME PanesFit(panes), AgentsFit(agents), NEW e, Lawful(e), Handle(e),
         e.kind \in {KindWorkspaceClosed, KindTabClosed, KindPaneClosed}
  PROVE  \E T, P, A :
           /\ CloseAll(T, P, A) /\ P \cap DOMAIN panes \cap DOMAIN world = {}
           /\ A \cap DOMAIN agents \cap DOMAIN world = {}
<1>1. \A pl \in Places : pl[2] # None /\ pl[3] # None
  BY PlaceParts, NoneAssumption
<1>2. CASE e.kind = KindWorkspaceClosed
  <2>1. e.ws # None /\ e.ws \notin SnapWorkspaces(world)
    BY <1>1, <1>2, KindsDiffer DEF Lawful, Possible, Ev
  <2>2. In(panes, e.ws) \cap DOMAIN world = {} /\ In(agents, e.ws) \cap DOMAIN world = {}
    BY <2>1 DEF PanesFit, AgentsFit, In, SnapWorkspaces
  <2>3. CloseAll(In(tabs, e.ws), In(panes, e.ws), In(agents, e.ws))
    BY <1>2, KindsDiffer DEF Handle, ApplyWorkspaceClosed
  <2> QED
    BY <2>2, <2>3
<1>3. CASE e.kind = KindTabClosed
  <2> DEFINE P == {p \in DOMAIN panes : panes[p].tab = e.tab}
  <2>1. e.tab # None /\ e.tab \notin SnapTabs(world)
    BY <1>1, <1>3, KindsDiffer DEF Lawful, Possible, Ev
  <2>2. P \cap DOMAIN world = {}
    BY <2>1 DEF PanesFit, SnapTabs
  <2>3. CloseAll({e.tab}, P, P)
    BY <1>3, KindsDiffer DEF Handle, ApplyTabClosed
  <2> HIDE DEF P
  <2> QED
    BY <2>2, <2>3
<1>4. CASE e.kind = KindPaneClosed
  <2>1. e.pane \notin DOMAIN world
    BY <1>4 DEF Lawful
  <2>2. CloseAll({}, {e.pane}, {e.pane})
    BY <1>4, KindsDiffer DEF Handle, ApplyPaneClosed
  <2> QED
    BY <2>1, <2>2
<1> QED
  BY <1>2, <1>3, <1>4

\* An event handled leaves records that agree with the session.
LEMMA HandleLaw ==
  ASSUME WellFormed, TrackerLawful, NEW e, Lawful(e), Handle(e), UNCHANGED <<world, used>>
  PROVE  TrackerLawful'
<1>1. PanesFit(panes) /\ AgentsFit(agents)
  BY TrackerFits
<1>2. CASE \/ e.kind = KindWorkspaceCreated /\ ApplyWorkspaceCreated(e.ws)
           \/ e.kind = KindTabCreated /\ ApplyTabCreated(e.tab, e.ws)
           \/ e.kind = KindTabRenamed /\ ApplyTabRenamed(e.tab, e.ws)
  <2>1. UNCHANGED <<panes, agents>>
    BY <1>2 DEF ApplyWorkspaceCreated, ApplyTabCreated, ApplyTabRenamed
  <2> QED
    BY <1>1, <2>1, TrackerFits
<1>3. CASE e.kind \in {KindWorkspaceClosed, KindTabClosed, KindPaneClosed}
  <2>1. PICK T, P, A : /\ CloseAll(T, P, A) /\ P \cap DOMAIN panes \cap DOMAIN world = {}
                       /\ A \cap DOMAIN agents \cap DOMAIN world = {}
    BY <1>1, <1>3, ClosesSpare
  <2>2. PanesFit(panes') /\ AgentsFit(agents')
    BY <1>1, <2>1, CloseFits
  <2> QED
    BY <2>2, TrackerFits
<1>4. CASE e.kind = KindPaneCreated /\ ApplyPaneCreated(e.pane, e.ws, e.tab)
  <2> DEFINE r == [NewPane EXCEPT !.ws = e.ws, !.tab = e.tab]
  <2>1. /\ e.pane \in used
        /\ e.pane \in DOMAIN world => e.ws = world[e.pane].ws /\ e.tab = world[e.pane].tab
    BY <1>4 DEF Lawful, PaneKinds
  <2>2. r.closedAt = Zero /\ r.ws = e.ws /\ r.tab = e.tab
    BY DEF NewPane
  <2>3. UNCHANGED agents /\ (UNCHANGED panes \/ panes' = Put(panes, e.pane, r))
    BY <1>4 DEF ApplyPaneCreated
  <2> HIDE DEF r
  <2>4. PanesFit(panes')
    BY <1>1, <2>1, <2>2, <2>3, PutPaneFits
  <2> QED
    BY <1>1, <2>3, <2>4, TrackerFits
<1>5. CASE e.kind = KindAgentDetected /\ ApplyAgentDetected(e.pane, e.agent)
  <2> DEFINE r == [At(panes, e.pane, NewPane) EXCEPT !.agent = e.agent]
  <2>1. e.pane \in used
    BY <1>5 DEF Lawful, PaneKinds
  <2>2. UNCHANGED agents /\ (UNCHANGED panes \/ panes' = Put(panes, e.pane, r))
    BY <1>5 DEF ApplyAgentDetected
  <2>3. e.pane \in DOMAIN world => /\ r.closedAt = Zero
                                   /\ r.ws \in {None, world[e.pane].ws}
                                   /\ r.tab \in {None, world[e.pane].tab}
    BY <1>1, UpsertedPane
  <2> HIDE DEF r
  <2>4. PanesFit(panes')
    BY <1>1, <2>1, <2>2, <2>3, PutPaneFits
  <2> QED
    BY <1>1, <2>2, <2>4, TrackerFits
<1>6. CASE e.kind = KindAgentStatusChanged
           /\ ApplyAgentStatusChanged(e.pane, e.ws, e.agent, e.status)
  <2> DEFINE r == [At(panes, e.pane, NewPane) EXCEPT
                     !.ws = e.ws, !.agent = e.agent, !.status = e.status]
  <2>1. e.pane \in used /\ (e.pane \in DOMAIN world => e.ws = world[e.pane].ws)
    BY <1>6 DEF Lawful, PaneKinds
  <2>2. \/ UNCHANGED <<panes, agents>>
        \/ /\ panes' = Put(panes, e.pane, r)
           /\ \/ UNCHANGED agents
              \/ agents' = Put(agents, e.pane, NewAgent(e.ws, e.status))
              \/ e.pane \in Live(agents) /\ Move(e.pane, e.ws, e.status)
    BY <1>6 DEF ApplyAgentStatusChanged, StatusAbsorbed, StatusFirstSeen, StatusRepeated,
                StatusTransition, UpsertPane, Closed
  <2> DEFINE Kept == \E n : /\ n.closedAt = Zero /\ n.ws = e.ws
                            /\ agents' = Put(agents, e.pane, n)
  <2>3. UNCHANGED agents \/ Kept
    <3>1. CASE UNCHANGED agents
      BY <3>1
    <3>2. CASE agents' = Put(agents, e.pane, NewAgent(e.ws, e.status))
      <4>1. NewAgent(e.ws, e.status).closedAt = Zero /\ NewAgent(e.ws, e.status).ws = e.ws
        BY DEF NewAgent
      <4> QED
        BY <3>2, <4>1
    <3>3. CASE e.pane \in Live(agents) /\ Move(e.pane, e.ws, e.status)
      BY <3>3, MovesPut
    <3> QED
      BY <2>2, <3>1, <3>2, <3>3
  <2>4. e.pane \in DOMAIN world => /\ r.closedAt = Zero
                                   /\ r.ws \in {None, world[e.pane].ws}
                                   /\ r.tab \in {None, world[e.pane].tab}
    BY <1>1, <2>1, UpsertedPane
  <2> HIDE DEF r
  <2>5. PanesFit(panes')
    BY <1>1, <2>1, <2>2, <2>4, PutPaneFits
  <2>6. AgentsFit(agents')
    BY <1>1, <2>1, <2>2, <2>3, PutAgentFits
  <2> QED
    BY <2>5, <2>6, TrackerFits
<1> QED
  BY <1>2, <1>3, <1>4, <1>5, <1>6 DEF Handle

LEMMA TakeEventLaw ==
  ASSUME WellFormed, LawInv, TakeEvent
  PROVE  LawInv' /\ \E e : Lawful(e) /\ Handle(e)
<1> DEFINE e == Head(events)
<1>1. /\ loop = "select" /\ events # <<>> /\ Handle(e) /\ events' = Tail(events)
      /\ UNCHANGED <<world, used, stream, loop, fetched, gap>>
  BY DEF TakeEvent, hvars, lvars
<1>2. e \in LawfulEvents /\ Tail(events) \in Seq(LawfulEvents)
  BY <1>1, HeadTailProperties DEF LawInv
<1>3. Lawful(e)
  BY <1>2 DEF LawfulEvents
<1> HIDE DEF e
<1>4. SessionMoves /\ SessionLawful'
  BY <1>1 DEF SessionMoves, SessionLawful, LawInv, Consistent, SnapTabs, SnapWorkspaces
<1>5. events' \in Seq(LawfulEvents')
  <2>1. events' \in Seq(LawfulEvents)
    BY <1>1, <1>2
  <2>2. LawfulEvents' = LawfulEvents
    BY <1>1 DEF LawfulEvents, Lawful
  <2> QED
    BY <2>1, <2>2
<1>6. TrackerLawful'
  <2>1. \E x : Lawful(x) /\ Handle(x)
    BY <1>1, <1>3
  <2>2. PICK x : Lawful(x) /\ Handle(x)
    BY <2>1
  <2> QED
    BY <1>1, <2>2, HandleLaw DEF LawInv
<1> QED
  BY <1>1, <1>3, <1>4, <1>5, <1>6 DEF LawInv, FetchedLawful

\* Reconnecting: the queue goes, the session is fetched, the reader starts; or
\* Run returns.
LEMMA ReconnectLaw ==
  ASSUME LawInv, CloseOld \/ Return \/ FetchSnapshot \/ Subscribe
  PROVE  LawInv'
<1>1. UNCHANGED <<vars, world, used>>
  BY DEF CloseOld, Return, FetchSnapshot, Subscribe, hvars
<1>2. SessionMoves /\ SessionLawful'
  BY <1>1 DEF SessionMoves, SessionLawful, LawInv, Consistent, SnapTabs, SnapWorkspaces
<1>3. TrackerLawful'
  BY <1>1 DEF LawInv, TrackerLawful, PaneLawful, AgentLawful, vars
<1>4. CASE CloseOld
  <2>1. loop' = "fetch" /\ stream' = "none" /\ events' = <<>> /\ gap' = gap
    BY <1>4 DEF CloseOld
  <2>2. events' \in Seq(LawfulEvents')
    BY <2>1
  <2> QED
    BY <1>2, <1>3, <2>1, <2>2 DEF LawInv, FetchedLawful
<1>7. CASE Return
  <2>1. loop' = "returned" /\ UNCHANGED <<events, gap>>
    BY <1>7 DEF Return
  <2>2. events' \in Seq(LawfulEvents')
    BY <1>2, <2>1, LawfulStays DEF LawInv
  <2> QED
    BY <1>2, <1>3, <2>1, <2>2 DEF LawInv, FetchedLawful
<1>5. CASE FetchSnapshot
  <2>1. /\ loop = "fetch" /\ loop' = "subscribe" /\ fetched' = world /\ gap' = FALSE
        /\ UNCHANGED <<stream, events>>
    BY <1>5 DEF FetchSnapshot, svars
  <2>2. events' \in Seq(LawfulEvents')
    BY <1>2, <2>1, LawfulStays DEF LawInv
  <2>3. DOMAIN world \cap Closed(panes) = {}
    BY DEF LawInv, TrackerLawful, PaneLawful, Closed, Live
  <2>4. FetchedLawful'
    <3>1. /\ Consistent(fetched') /\ DOMAIN fetched' \subseteq used'
          /\ \A p \in DOMAIN fetched' \cap DOMAIN world' :
               fetched'[p].ws = world'[p].ws /\ fetched'[p].tab = world'[p].tab
      BY <1>1, <2>1 DEF LawInv, SessionLawful
    <3>2. DOMAIN fetched' \cap Closed(panes') = {}
      BY <1>1, <2>1, <2>3 DEF vars, Closed, Live
    <3> QED
      BY <3>1, <3>2 DEF FetchedLawful, Closed, Live, Consistent
  <2> QED
    BY <1>2, <1>3, <2>1, <2>2, <2>4 DEF LawInv
<1>6. CASE Subscribe
  <2>1. loop = "subscribe" /\ loop' = "apply" /\ UNCHANGED fetched
    BY <1>6 DEF Subscribe
  <2>2. UNCHANGED <<events, gap>>
    BY <1>6 DEF Subscribe
  <2>3. events' \in Seq(LawfulEvents')
    BY <1>2, <2>2, LawfulStays DEF LawInv
  <2>4. FetchedLawful'
    BY <1>1, <2>1 DEF LawInv, FetchedLawful, Consistent, Closed, Live, vars
  <2> QED
    BY <1>2, <1>3, <2>1, <2>2, <2>3, <2>4 DEF LawInv
<1> QED
  BY <1>4, <1>5, <1>6, <1>7

\* The re-baseline: the snapshot, however late it is applied, still agrees
\* with the session in the panes that both have.
LEMMA BaselineLaw ==
  ASSUME WellFormed, LawInv, Baseline
  PROVE  LawInv' /\ Rebaseline
<1>1. /\ loop = "apply" /\ loop' = "select" /\ ApplySnapshot(fetched)
      /\ UNCHANGED <<world, used, stream, events, gap>>
  BY DEF Baseline, hvars, svars
<1>2. SessionMoves /\ SessionLawful'
  BY <1>1 DEF SessionMoves, SessionLawful, LawInv, Consistent, SnapTabs, SnapWorkspaces
<1>3. events' \in Seq(LawfulEvents')
  BY <1>1, <1>2, LawfulStays DEF LawInv
<1>4. /\ Consistent(fetched) /\ DOMAIN fetched \subseteq used
      /\ DOMAIN fetched \cap Closed(panes) = {}
      /\ \A p \in DOMAIN fetched \cap DOMAIN world :
           fetched[p].ws = world[p].ws /\ fetched[p].tab = world[p].tab
  BY <1>1 DEF LawInv, FetchedLawful
<1>5. PanesFit(panes')
  <2>1. panes' = [p \in DOMAIN fetched |->
                    [ws |-> fetched[p].ws, tab |-> fetched[p].tab, agent |-> fetched[p].agent,
                     status |-> fetched[p].status, session |-> fetched[p].session,
                     closedAt |-> Zero]]
    BY <1>1 DEF ApplySnapshot
  <2> QED
    BY <1>4, <2>1 DEF PanesFit
<1>6. AgentsFit(agents')
  <2> DEFINE held == {p \in DOMAIN fetched : fetched[p].agent # None}
             kept(p) == p \in DOMAIN agents /\ agents[p].status = fetched[p].status
  <2>1. agents' = [p \in held |->
                     IF kept(p) THEN [agents[p] EXCEPT !.ws = fetched[p].ws, !.closedAt = Zero]
                                ELSE NewAgent(fetched[p].ws, fetched[p].status)]
    BY <1>1 DEF ApplySnapshot
  <2>2. \A p \in held : kept(p) => agents[p] \in AgentRecord
    BY DEF WellFormed
  <2>3. \A p \in held : agents'[p].ws = fetched[p].ws /\ agents'[p].closedAt = Zero
    BY <2>1, <2>2 DEF AgentRecord, NewAgent
  <2>4. DOMAIN agents' = held
    BY <2>1
  <2> QED
    BY <1>4, <2>3, <2>4 DEF AgentsFit
<1>7. TrackerLawful'
  BY <1>1, <1>5, <1>6, TrackerFits
<1>8. Rebaseline
  BY <1>1, <1>4 DEF Rebaseline, Consistent
<1> QED
  BY <1>1, <1>2, <1>3, <1>7, <1>8 DEF LawInv, FetchedLawful

\* A seen-flip changes a status, and no record's ids or stamp.
LEMMA FlipLaw ==
  ASSUME WellFormed, LawInv, NEW p, ApplySeenFlip(p),
         UNCHANGED <<world, used, stream, events, loop, fetched>>, gap' \in BOOLEAN
  PROVE  LawInv'
<1>1. CASE UNCHANGED <<panes, agents>>
  <2>1. SessionMoves /\ SessionLawful'
    BY DEF SessionMoves, SessionLawful, LawInv, Consistent, SnapTabs, SnapWorkspaces
  <2>2. TrackerLawful' /\ FetchedLawful'
    BY <1>1, <2>1, LawMoves
  <2>3. events' \in Seq(LawfulEvents')
    BY <2>1, LawfulStays DEF LawInv
  <2> QED
    BY <2>1, <2>2, <2>3 DEF LawInv
<1>2. CASE p \in InState(Live(agents), "done")
  <2>0. /\ p \in Live(agents) /\ Move(p, agents[p].ws, "idle")
        /\ panes' = IF p \in DOMAIN panes THEN [panes EXCEPT ![p].status = "idle"] ELSE panes
    BY <1>2 DEF ApplySeenFlip, InState, Live
  <2>1. PICK n : n.ws = agents[p].ws /\ n.closedAt = Zero /\ agents' = Put(agents, p, n)
    BY <2>0, MovesPut
  <2>2. /\ DOMAIN panes' = DOMAIN panes
        /\ \A q \in DOMAIN panes : /\ panes'[q].ws = panes[q].ws /\ panes'[q].tab = panes[q].tab
                                   /\ panes'[q].closedAt = panes[q].closedAt
    <3>1. p \in DOMAIN panes => panes[p] \in PaneRecord
      BY DEF WellFormed
    <3> QED
      BY <2>0, <3>1 DEF PaneRecord
  <2>3. PanesFit(panes) /\ AgentsFit(agents)
    BY TrackerFits DEF LawInv
  <2>4. PanesFit(panes')
    BY <2>2, <2>3 DEF PanesFit
  <2>5. AgentsFit(agents')
    BY <2>0, <2>1, <2>3, PutAgentFits DEF AgentsFit, Live
  <2>6. TrackerLawful'
    BY <2>4, <2>5, TrackerFits
  <2>7. Closed(panes') = Closed(panes)
    BY <2>2 DEF Closed, Live
  <2>8. FetchedLawful'
    BY <2>7 DEF LawInv, FetchedLawful, Consistent, Closed, Live
  <2>9. SessionMoves /\ SessionLawful'
    BY DEF SessionMoves, SessionLawful, LawInv, Consistent, SnapTabs, SnapWorkspaces
  <2>10. events' \in Seq(LawfulEvents')
    BY <2>9, LawfulStays DEF LawInv
  <2> QED
    BY <2>6, <2>8, <2>9, <2>10 DEF LawInv
<1> QED
  BY <1>1, <1>2 DEF ApplySeenFlip

LEMMA ReconcileLaw == WellFormed /\ LawInv /\ Reconcile => LawInv'
<1> SUFFICES ASSUME WellFormed, LawInv, Reconcile PROVE LawInv'
  OBVIOUS
<1>1. UNCHANGED <<world, used, stream, events, loop, fetched>>
  BY DEF Reconcile, ReconcileFetch, ReconcileDiff, ReportDrift, ReportFlip, hvars, svars, lvars
<1>2. gap' \in BOOLEAN
  BY DEF Reconcile, ReconcileFetch, ReconcileDiff, ReportDrift, ReportFlip, LawInv
<1>3. CASE UNCHANGED vars
  BY <1>1, <1>2, <1>3, SameLaw DEF LawInv
<1>4. CASE \E p \in Panes : ApplySeenFlip(p)
  BY <1>1, <1>2, <1>4, FlipLaw
<1> QED
  BY <1>3, <1>4 DEF Reconcile, ReconcileFetch, ReconcileDiff, ReportDrift, ReportFlip

-----------------------------------------------------------------------------
(* The tracker inside the application does what its specification allows.  *)

\* A lawful event is one the tracker's specification takes.
LEMMA HandleIsEvent ==
  ASSUME NEW e, Possible(e), Handle(e)
  PROVE  Event
<1>1. CASE e.kind = KindWorkspaceCreated /\ ApplyWorkspaceCreated(e.ws)
  <2>1. PICK pl \in Places : e.ws = pl[2]
    BY <1>1 DEF Possible, Ev
  <2> QED
    BY <1>1, <2>1 DEF Event
<1>2. CASE e.kind = KindWorkspaceClosed /\ ApplyWorkspaceClosed(e.ws)
  <2>1. PICK pl \in Places : e.ws = pl[2]
    BY <1>2 DEF Possible, Ev
  <2> QED
    BY <1>2, <2>1 DEF Event
<1>3. CASE e.kind = KindTabCreated /\ ApplyTabCreated(e.tab, e.ws)
  <2>1. PICK pl \in Places : e.ws = pl[2] /\ e.tab = pl[3]
    BY <1>3 DEF Possible, Ev
  <2> QED
    BY <1>3, <2>1 DEF Event
<1>4. CASE e.kind = KindTabClosed /\ ApplyTabClosed(e.tab)
  <2>1. PICK pl \in Places : e.ws = pl[2] /\ e.tab = pl[3]
    BY <1>4 DEF Possible, Ev
  <2> QED
    BY <1>4, <2>1 DEF Event
<1>5. CASE e.kind = KindTabRenamed /\ ApplyTabRenamed(e.tab, e.ws)
  <2>1. PICK pl \in Places : e.ws = pl[2] /\ e.tab = pl[3]
    BY <1>5 DEF Possible, Ev
  <2> QED
    BY <1>5, <2>1 DEF Event
<1>6. CASE e.kind = KindPaneCreated /\ ApplyPaneCreated(e.pane, e.ws, e.tab)
  <2>1. PICK pl \in Places : e.pane = pl[1] /\ e.ws = pl[2] /\ e.tab = pl[3]
    BY <1>6 DEF Possible, Ev
  <2> QED
    BY <1>6, <2>1 DEF Event
<1>7. CASE e.kind = KindPaneClosed /\ ApplyPaneClosed(e.pane)
  <2>1. PICK pl \in Places : e.pane = pl[1]
    BY <1>7 DEF Possible, Ev
  <2> QED
    BY <1>7, <2>1 DEF Event
<1>8. CASE e.kind = KindAgentDetected /\ ApplyAgentDetected(e.pane, e.agent)
  <2>1. PICK pl \in Places : e.pane = pl[1] /\ e.agent \in Agents
    BY <1>8 DEF Possible, Ev
  <2> QED
    BY <1>8, <2>1 DEF Event
<1>9. CASE e.kind = KindAgentStatusChanged
           /\ ApplyAgentStatusChanged(e.pane, e.ws, e.agent, e.status)
  <2>1. PICK pl \in Places : /\ e.pane = pl[1] /\ e.ws = pl[2]
                             /\ e.agent \in Agents /\ e.status \in Reported
    BY <1>9 DEF Possible, Ev
  <2> QED
    BY <1>9, <2>1 DEF Event
<1> QED
  BY <1>1, <1>2, <1>3, <1>4, <1>5, <1>6, <1>7, <1>8, <1>9 DEF Handle

\* The inductive invariant: the tracker's own, and how it fits the session.
AppInv == WellFormed /\ CountsMatch /\ LawInv

\* A step is one of the tracker's, and its re-baselines revive nothing.
LEMMA AppStep ==
  AppInv /\ [ObservrNext]_ovars => AppInv' /\ [OtherSteps \/ FreshBaseline]_vars
<1> SUFFICES ASSUME AppInv, [ObservrNext]_ovars
             PROVE  AppInv' /\ [OtherSteps \/ FreshBaseline]_vars
  OBVIOUS
<1>1. WellFormed /\ CountsMatch /\ LawInv
  BY DEF AppInv
<1>2. LawInv' /\ [OtherSteps \/ FreshBaseline]_vars
  <2>1. CASE Herdr
    <3>1. UNCHANGED vars
      BY <2>1 DEF Herdr, OpenPane, ClosePane, CloseTab, CloseWorkspace, Vanish, Seen,
                  AgentChanges, RenameTab, Disturb, Register, Break, Changing
    <3> QED
      BY <1>1, <2>1, <3>1, HerdrLaw
  <2>2. CASE TakeEvent
    <3>1. LawInv' /\ \E e : Lawful(e) /\ Handle(e)
      BY <1>1, <2>2, TakeEventLaw
    <3>2. Event
      BY <3>1, HandleIsEvent DEF Lawful
    <3> QED
      BY <3>1, <3>2 DEF OtherSteps
  <2>3. CASE CloseOld \/ Return \/ FetchSnapshot \/ Subscribe
    <3>1. UNCHANGED vars
      BY <2>3 DEF CloseOld, Return, FetchSnapshot, Subscribe
    <3> QED
      BY <1>1, <2>3, <3>1, ReconnectLaw
  <2>4. CASE Baseline
    <3>1. FreshBaseline
      BY <1>1, <2>4 DEF Baseline, FreshBaseline, LawInv, FetchedLawful, Consistent
    <3> QED
      BY <1>1, <2>4, <3>1, BaselineLaw
  <2>5. CASE Reconcile
    <3>1. UNCHANGED vars \/ \E p \in Panes : ApplySeenFlip(p)
      BY <2>5 DEF Reconcile, ReconcileFetch, ReconcileDiff, ReportDrift, ReportFlip
    <3> QED
      BY <1>1, <2>5, <3>1, ReconcileLaw DEF OtherSteps
  <2>6. CASE UNCHANGED ovars
    <3>1. /\ UNCHANGED <<vars, world, used, stream, events, loop, fetched, gap>>
      BY <2>6 DEF ovars, hvars, svars, lvars
    <3>2. gap' \in BOOLEAN /\ (loop \in {"fetch", "subscribe"} => stream' = "none")
      BY <1>1, <3>1 DEF LawInv
    <3> QED
      BY <1>1, <3>1, <3>2, SameLaw
  <2> QED
    BY <2>1, <2>2, <2>3, <2>4, <2>5, <2>6 DEF ObservrNext, Loop, StreamError, Resubscribe
<1>3. [Next]_vars
  BY <1>2 DEF Next, OtherSteps, FreshBaseline, Rebaseline
<1> QED
  BY <1>1, <1>2, <1>3, TypeAndCountsStep DEF AppInv

LEMMA AppInit == ObservrInit => AppInv
<1> SUFFICES ASSUME ObservrInit PROVE AppInv
  OBVIOUS
<1> DEFINE empty == <<>>
<1>1. DOMAIN empty = {} /\ empty = [p \in DOMAIN empty |-> empty[p]]
  OBVIOUS
<1>2. /\ world = empty /\ used = {} /\ panes = empty /\ agents = empty
      /\ loop = "fetch" /\ stream = "none" /\ events = <<>> /\ gap = FALSE
  BY DEF ObservrInit, Init, NoSnap
<1>3. events \in Seq(LawfulEvents)
  BY <1>2
<1> HIDE DEF empty
<1>4. empty \in Snapshots
  BY <1>1, SnapshotParts
<1>5. SessionLawful
  BY <1>1, <1>2, <1>4 DEF SessionLawful, Consistent, SnapTabs, SnapWorkspaces
<1>6. TrackerLawful /\ FetchedLawful
  BY <1>1, <1>2 DEF TrackerLawful, FetchedLawful
<1> QED
  BY <1>2, <1>3, <1>5, <1>6, TypeAndCountsInit DEF AppInv, LawInv, ObservrInit

LEMMA AppAlways == ObservrSpec => []AppInv
  BY AppInit, AppStep, PTL DEF ObservrSpec

\* What App.Run, onReport and reconnect do to the tracker is what the tracker's
\* own specification allows: each call is atomic and carries what Herdr may
\* report, no write meets a nil map, and no snapshot lists a closed pane.
THEOREM LoopDrivesTracker == ObservrSpec => DrivesTracker
<1>1. ObservrInit => Init
  BY DEF ObservrInit
<1>2. AppInv /\ [ObservrNext]_ovars => [Next]_vars
  BY AppStep DEF Next, OtherSteps, FreshBaseline, Rebaseline
<1> QED
  BY <1>1, <1>2, AppAlways, PTL DEF ObservrSpec, DrivesTracker, Spec

\* So what is proved of the tracker holds of it here: what the gauges export of
\* the session is right, ...
THEOREM CountsHere == ObservrSpec => [](CountsMatch /\ GaugesTruthful /\ AttentionClock)
  BY LoopDrivesTracker, CountsCorrect, GaugesCorrect, AttentionCorrect, PTL DEF DrivesTracker

\* ... and, since the re-baselines of reconnect revive no closed pane, the next
\* close or transition of an agent has its ledger, a live agent its live pane,
\* and no stretch of a pane's time is exported twice.
THEOREM LedgersHere ==
  ASSUME StaysInWorkspace
  PROVE  ObservrSpec => [](LedgerAllocated /\ AgentInLivePane /\ NoIntervalSampledTwice)
<1>1. ObservrInit => InStep /\ Unsampled
  BY InStepInit, UnsampledInit DEF ObservrInit
<1>2. AppInv /\ InStep /\ Unsampled /\ [ObservrNext]_ovars => InStep' /\ Unsampled'
  <2> SUFFICES ASSUME AppInv, InStep, Unsampled, [ObservrNext]_ovars
               PROVE  InStep' /\ Unsampled'
    OBVIOUS
  <2>1. WellFormed /\ [OtherSteps \/ FreshBaseline]_vars
    BY AppStep DEF AppInv
  <2>2. [Next]_vars
    BY <2>1 DEF Next, OtherSteps, FreshBaseline, Rebaseline
  <2> QED
    BY <2>1, <2>2, InStepStep, UnsampledStep
<1>3. InStep /\ Unsampled => LedgerAllocated /\ AgentInLivePane /\ NoIntervalSampledTwice
  BY InStepSuffices DEF Unsampled, LedgerAllocated, NoIntervalSampledTwice, Live
<1> QED
  BY <1>1, <1>2, <1>3, AppAlways, PTL DEF ObservrSpec
=============================================================================
