--------------------------- MODULE UsageCollector ---------------------------
(***************************************************************************)
(* internal/usage/collector.go: which panes' usage is polled, and how the  *)
(* totals of an assistant's store become deltas.                           *)
(*                                                                         *)
(* Two goroutines meet on channels. The event loop of App.Run mutates the  *)
(* tracker, forwards its transitions, requests syncs and exports deltas.   *)
(* UsageCollector.Run owns active and cursors; each of its loops over      *)
(* panes reads the tracker and the store pane by pane, while both move on. *)
(*                                                                         *)
(* Abstracted: of the six counters of UsageTotals, which are diffed alike, *)
(* one is kept, and of the others whether one fell; a pane's agent is one  *)
(* an adapter serves; the tracker's own transition channel is folded into  *)
(* the collector's; of the deltas in their channel only the number.        *)
(***************************************************************************)
EXTENDS Integers, Sequences, FiniteSets

CONSTANTS
  Panes, Sessions,
  Shown,          \* pane -> the sessions a snapshot may show in it
  Tree,           \* session -> the sessions of its tree, which come in any order
  TransitionCap, DeltaCap, \* channel capacities
  MaxChanges,     \* bound on what the tracker sees
  MaxUsage,       \* bound on the accrual of a session
  MaxFaults       \* bound on resets and outages of the store

None == "" \* no agent_session

ASSUME ShownAssumption == Shown \in [Panes -> SUBSET (Sessions \cup {None})]
ASSUME SessionsAssumption == IsFiniteSet(Sessions)
ASSUME TreeAssumption == Tree \in [Sessions -> SUBSET Sessions]
ASSUME BoundsAssumption ==
  /\ TransitionCap \in Nat \ {0} /\ DeltaCap \in Nat \ {0}
  /\ MaxChanges \in Nat /\ MaxUsage \in Nat /\ MaxFaults \in Nat

VARIABLES
  live,        \* Tracker.Panes(): pane -> [working, session, closing]
  changes,     \* changes of live so far
  store, down, faults, \* session -> total; unreadable; resets and outages so far
  fell,        \* the sessions another counter of which is below its cursor
  accrued,     \* history: what each session used since the process started
  req, reqMap, \* where the loop is in RequestSync, and the map it passes
  syncs, transitions, deltas, \* channels; how many deltas are queued
  taken,       \* history: the last map received from syncs
  job, map, todo, \* the collector's loop: "none", "sync" or "poll"; over what
  active, cursors,
  billed,      \* history: session -> sum of the deltas sent to the channel
  missed       \* ... and what never will be: used before the first poll, in a
               \* delta that found the channel full, or while another counter fell

trackerVars == <<live, changes, req, reqMap>>
storeVars == <<store, down, faults, accrued>>
usageVars == <<cursors, billed, missed, deltas, fell>>
runVars == <<taken, job, map, todo, active>>
vars == <<trackerVars, storeVars, syncs, transitions, runVars, usageVars>>

PaneState == [working : BOOLEAN, session : Sessions \cup {None}, closing : BOOLEAN]
PaneMaps == UNION {[P -> PaneState] : P \in SUBSET Panes}
Views == UNION {{v \in [P -> PaneState] :
                   \A p \in P : v[p].session \in Shown[p] /\ ~v[p].closing} : P \in SUBSET Panes}
Working(view) == {p \in DOMAIN view : view[p].working}
Blank == [working |-> FALSE, session |-> None, closing |-> FALSE]
Put(f, k, r) == [x \in DOMAIN f \cup {k} |-> IF x = k THEN r ELSE f[x]]
Without(f, k) == [x \in DOMAIN f \ {k} |-> f[x]]
Lesser(m, n) == IF m <= n THEN m ELSE n

\* The bootstrap: Run is started, then the first sync requested.
Init ==
  /\ live \in Views
  /\ req = "request" /\ reqMap = live /\ changes = 0
  /\ store = [s \in Sessions |-> 1] /\ accrued = [s \in Sessions |-> 0]
  /\ down = FALSE /\ faults = 0 /\ fell = {}
  /\ syncs = <<>> /\ transitions = <<>> /\ deltas = 0 /\ taken = <<>>
  /\ job = "none" /\ map = <<>> /\ todo = {}
  /\ active = {} /\ cursors = <<>>
  /\ billed = [s \in Sessions |-> 0] /\ missed = [s \in Sessions |-> 0]

-----------------------------------------------------------------------------
(* The event loop: what happens to the tracker, and who is told.           *)

TrackerChanges ==
  /\ req = "idle" /\ changes < MaxChanges
  /\ changes' = changes + 1
  /\ UNCHANGED <<storeVars, syncs, runVars, usageVars>>

\* A status transition, forwarded; dropped when the channel is full.
NotifyTransition(p, working) ==
  /\ p \in DOMAIN live /\ ~live[p].closing /\ ~(working /\ live[p].working)
  /\ TrackerChanges
  /\ live' = [live EXCEPT ![p].working = working]
  /\ transitions' = IF Len(transitions) = TransitionCap THEN transitions
                    ELSE Append(transitions, [pane |-> p, working |-> working])
  /\ UNCHANGED <<req, reqMap>>

\* A pane.created, the repeated one too: it blanks the pane.
PaneCreated(p) ==
  /\ p \in DOMAIN live => ~live[p].closing
  /\ TrackerChanges
  /\ live' = Put(live, p, Blank)
  /\ UNCHANGED <<transitions, req, reqMap>>

\* A pane first seen working, or again after it was blanked, and a close, emit
\* no transition.
FirstSeenWorking(p) ==
  /\ p \in DOMAIN live => live[p] = Blank
  /\ TrackerChanges
  /\ live' = Put(live, p, [Blank EXCEPT !.working = TRUE])
  /\ UNCHANGED <<transitions, req, reqMap>>

PaneCloses(p) ==
  /\ p \in DOMAIN live /\ ~live[p].closing
  /\ TrackerChanges
  /\ live' = [live EXCEPT ![p].closing = TRUE]
  /\ UNCHANGED <<transitions, req, reqMap>>

EvictExpired(p) ==
  /\ req = "idle" /\ p \in DOMAIN live /\ live[p].closing
  /\ live' = Without(live, p)
  /\ UNCHANGED <<changes, req, reqMap, storeVars, syncs, transitions, runVars, usageVars>>

\* reconnect: ApplySnapshot, then RequestSync with the panes it left.
ApplySnapshot(view) ==
  /\ TrackerChanges
  /\ live' = view
  /\ req' = "request" /\ reqMap' = view
  /\ UNCHANGED transitions

reqKeeps == <<live, changes, reqMap, storeVars, transitions, runVars, usageVars>>

\* Mutant: syncs queue up.
RequestSyncQueues ==
  /\ req = "request"
  /\ syncs' = Append(syncs, reqMap) /\ req' = "idle"
  /\ UNCHANGED reqKeeps

\* RequestSync: try, else take out what is pending and try again. Run may
\* receive between any two of its selects.
RequestSync ==
  /\ req = "request"
  /\ syncs' = IF syncs = <<>> THEN <<reqMap>> ELSE syncs
  /\ req' = IF syncs = <<>> THEN "idle" ELSE "drain"
  /\ UNCHANGED reqKeeps

\* Mutant: the pending sync stays.
DrainNothing == req = "drain" /\ req' = "send" /\ UNCHANGED <<syncs, reqKeeps>>

DrainSync == req = "drain" /\ syncs' = <<>> /\ req' = "send" /\ UNCHANGED reqKeeps

SendSync ==
  /\ req = "send"
  /\ syncs' = IF syncs = <<>> THEN <<reqMap>> ELSE syncs
  /\ req' = "idle"
  /\ UNCHANGED reqKeeps

ExportDelta ==
  /\ req = "idle" /\ deltas > 0
  /\ deltas' = deltas - 1
  /\ UNCHANGED <<trackerVars, storeVars, syncs, transitions, runVars,
                 cursors, billed, missed, fell>>

-----------------------------------------------------------------------------
(* The assistant's store.                                                  *)

storeKeeps == <<trackerVars, syncs, transitions, runVars, usageVars>>

Accrue(s) ==
  /\ accrued[s] < MaxUsage
  /\ accrued' = [accrued EXCEPT ![s] = @ + 1]
  /\ store' = [store EXCEPT ![s] = @ + 1]
  /\ UNCHANGED <<down, faults, storeKeeps>>

\* An outage; a reset of a session; the fall of another of its counters.
Fault ==
  /\ faults < MaxFaults
  /\ faults' = faults + 1
  /\ \/ down' = TRUE /\ UNCHANGED <<store, fell>>
     \/ (\E s \in Sessions : store' = [store EXCEPT ![s] = 0]) /\ UNCHANGED <<down, fell>>
     \/ (\E s \in DOMAIN cursors : fell' = fell \cup {s}) /\ UNCHANGED <<down, store>>
  /\ UNCHANGED <<accrued, trackerVars, syncs, transitions, runVars,
                 cursors, billed, missed, deltas>>

Recover ==
  /\ down
  /\ down' = FALSE
  /\ UNCHANGED <<store, faults, accrued, storeKeeps>>

-----------------------------------------------------------------------------
(* UsageCollector.Run.                                                     *)

Growth(s) == IF s \in DOMAIN cursors /\ store[s] > cursors[s] THEN store[s] - cursors[s] ELSE 0

\* Mutant: a total that fell is a delta as well.
diffAndRecordSigned(s) == IF s \in DOMAIN cursors THEN store[s] - cursors[s] ELSE 0

\* The delta of one session's totals: first ones, and ones of which any fell,
\* only seed the cursor.
diffAndRecord(s) == IF s \in fell THEN 0 ELSE Growth(s)

\* The deltas of the grown sessions, in the order the store returned them, each
\* if there is room: the loop may make some between two of them.
emitDelta(grown, sent) ==
  /\ Cardinality(sent) >= Lesser(Cardinality(grown), DeltaCap - deltas)
  /\ deltas' = Lesser(deltas + Cardinality(sent), DeltaCap)
  /\ billed' = [s \in Sessions |-> IF s \in sent THEN billed[s] + diffAndRecord(s) ELSE billed[s]]

\* The cursors move first, so a delta the channel has no room for is gone.
pollPane(pane) ==
  IF pane.closing \/ pane.session = None \/ down
    THEN UNCHANGED usageVars
    ELSE LET polled == Tree[pane.session]
             grown == {s \in polled : diffAndRecord(s) # 0}
         IN \E sent \in SUBSET grown :
              /\ emitDelta(grown, sent)
              /\ missed' = [s \in Sessions |->
                              IF s \in (polled \cap fell) \cup (grown \ sent)
                                THEN missed[s] + Growth(s)
                              ELSE IF s \in polled \ DOMAIN cursors THEN accrued[s] ELSE missed[s]]
              /\ fell' = fell \ polled
              /\ cursors' = [s \in DOMAIN cursors \cup polled |->
                               IF s \in polled THEN store[s] ELSE cursors[s]]

Gone(p, panes) == p \notin DOMAIN panes \/ (p \in DOMAIN panes /\ panes[p].closing)

\* Mutant: the cursors of a pane that closes are dropped with it.
pollPaneInMapForgets(p, panes) ==
  IF ~Gone(p, panes) THEN pollPane(panes[p])
  ELSE IF p \notin DOMAIN panes \/ (p \in DOMAIN panes /\ panes[p].session = None)
    THEN UNCHANGED usageVars
    ELSE cursors' = [s \in DOMAIN cursors \ Tree[panes[p].session] |-> cursors[s]]
         /\ UNCHANGED <<billed, missed, deltas, fell>>

pollPaneInMap(p, panes) == IF Gone(p, panes) THEN UNCHANGED usageVars ELSE pollPane(panes[p])

\* It also drops a pane that is gone or closing.
StillActive(p, panes) == IF Gone(p, panes) THEN {} ELSE {p}

runKeeps == <<trackerVars, storeVars>>

applyTransition ==
  LET p == Head(transitions).pane
  IN /\ job = "none" /\ transitions # <<>>
     /\ transitions' = Tail(transitions)
     /\ \/ /\ Head(transitions).working
           /\ pollPaneInMap(p, live)
           /\ active' = (active \ {p}) \cup StillActive(p, live)
        \/ /\ ~Head(transitions).working /\ p \in active
           /\ pollPaneInMap(p, live)
           /\ active' = active \ {p}
        \/ /\ ~Head(transitions).working /\ p \notin active
           /\ UNCHANGED <<active, usageVars>>
     /\ UNCHANGED <<syncs, taken, job, map, todo, runKeeps>>

\* applySync over the panes that view says are working, one by one, and then
\* over the active ones.
StartSync(view) == job = "none" /\ job' = "sync" /\ map' = view /\ todo' = Working(view)

TakeSync ==
  /\ syncs # <<>>
  /\ StartSync(Head(syncs))
  /\ syncs' = <<>> /\ taken' = Head(syncs)
  /\ UNCHANGED <<transitions, active, usageVars, runKeeps>>

\* Mutant: no reconcile ticker.
SelfHealNever == FALSE

SelfHeal ==
  /\ StartSync(live)
  /\ UNCHANGED <<syncs, transitions, taken, active, usageVars, runKeeps>>

SyncPane(p) ==
  /\ job = "sync" /\ p \in todo
  /\ todo' = todo \ {p}
  /\ IF p \in active \/ p \notin Working(live)
       THEN UNCHANGED <<active, usageVars>>
       ELSE active' = active \cup {p} /\ pollPane(live[p])
  /\ UNCHANGED <<syncs, transitions, taken, job, map, runKeeps>>

SyncFinish ==
  /\ job = "sync" /\ todo = {}
  /\ job' = "none" /\ map' = <<>>
  /\ active' = active \cap Working(map)
  /\ UNCHANGED <<syncs, transitions, taken, todo, usageVars, runKeeps>>

\* Mutant: no poll ticker.
PollNever == FALSE

\* pollActive, with one copy of the panes for the whole tick.
PollTick ==
  /\ job = "none"
  /\ job' = "poll" /\ map' = live /\ todo' = active
  /\ UNCHANGED <<syncs, transitions, taken, active, usageVars, runKeeps>>

PollActive(p) ==
  /\ job = "poll" /\ p \in todo
  /\ todo' = todo \ {p}
  /\ pollPaneInMap(p, map)
  /\ active' = (active \ {p}) \cup StillActive(p, map)
  /\ UNCHANGED <<syncs, transitions, taken, job, map, runKeeps>>

PollFinish ==
  /\ job = "poll" /\ todo = {}
  /\ job' = "none" /\ map' = <<>>
  /\ UNCHANGED <<syncs, transitions, taken, todo, active, usageVars, runKeeps>>

-----------------------------------------------------------------------------
Tracked ==
  \/ \E p \in Panes, working \in BOOLEAN : NotifyTransition(p, working)
  \/ \E p \in Panes : PaneCreated(p) \/ FirstSeenWorking(p) \/ PaneCloses(p)
  \/ \E view \in Views : ApplySnapshot(view)

Store == Fault \/ \E s \in Sessions : Accrue(s)

Loop == RequestSync \/ DrainSync \/ SendSync \/ ExportDelta

Polling ==
  \/ SyncFinish \/ PollFinish
  \/ \E p \in Panes : SyncPane(p) \/ PollActive(p)

Next ==
  \/ Tracked \/ Store \/ Recover \/ Loop \/ Polling
  \/ \E p \in Panes : EvictExpired(p)
  \/ applyTransition \/ TakeSync \/ SelfHeal \/ PollTick

\* The tickers keep firing and select picks at random among ready cases. The
\* store is assumed to become readable again.
Fairness ==
  /\ WF_vars(Loop) /\ WF_vars(Polling) /\ WF_vars(Recover)
  /\ SF_vars(applyTransition) /\ SF_vars(TakeSync) /\ SF_vars(SelfHeal) /\ SF_vars(PollTick)
  /\ \A p \in Panes : WF_vars(EvictExpired(p))

Spec == Init /\ [][Next]_vars
FairSpec == Spec /\ Fairness

-----------------------------------------------------------------------------
TypeOK ==
  /\ live \in PaneMaps /\ map \in PaneMaps
  /\ active \subseteq Panes /\ todo \subseteq Panes
  /\ DOMAIN cursors \subseteq Sessions /\ \A s \in DOMAIN cursors : cursors[s] \in Nat
  /\ job \in {"none", "sync", "poll"} /\ req \in {"idle", "request", "drain", "send"}
  /\ Len(syncs) <= 1 /\ Len(transitions) <= TransitionCap /\ deltas \in 0..DeltaCap
  /\ billed \in [Sessions -> Int] /\ missed \in [Sessions -> Int]
  /\ fell \subseteq DOMAIN cursors

(* The collector implements Billing: no session is billed more than it     *)
(* used since the process started (not the total it started from, not a    *)
(* total twice when panes share it or its tree, not what a reset of the    *)
(* store makes it lose), and what was billed is never taken back.          *)
Bills == INSTANCE Billing WITH used <- accrued
BillingImplemented == Bills!Spec

(* From its first poll on, all that a session uses is billed, or awaits    *)
(* the next poll, or was in a delta that found the channel full, or in a   *)
(* poll that re-seeded the session because another counter of it fell:     *)
(* nothing else gets lost, until the store is reset.                       *)
UsageConserved ==
  \A s \in DOMAIN cursors :
    store[s] = 1 + accrued[s] => billed[s] + missed[s] + (store[s] - cursors[s]) = accrued[s]

(* The newest requested sync is pending or was the last one received,      *)
(* however Run's receives fall between RequestSync's selects.              *)
NewestSyncKept ==
  req = "idle" => \/ syncs = <<reqMap>>
                  \/ syncs = <<>> /\ taken = reqMap

(* When the session settles, exactly the working panes are polled,         *)
(* whatever transition was dropped, never sent, or overtaken by a sync.    *)
ActiveConverges == <>[](active = Working(live))

(* ... and the cursors of their sessions catch up with the store.          *)
CaughtUp(p) ==
  live[p].session # None =>
    \A s \in Tree[live[p].session] : s \in DOMAIN cursors /\ cursors[s] = store[s]

UsageCatchesUp == <>[](\A p \in Working(live) : CaughtUp(p))

(* collector.go:211-213: re-checking the live pane ensures that "one that  *)
(* started working isn't dropped before the self-heal scan re-derives it". *)
StartedNotDropped ==
  [][SyncFinish => \A p \in active \ active' : p \notin Working(live)]_vars
=============================================================================
