# herdr-observr: TLA+ models and proofs

herdr-observr is a daemon that watches one Herdr session over a Unix socket and
exports what its agents do as OpenTelemetry metrics. It keeps a live picture of
the session (the *tracker*), fed by an event stream that carries no sequence
numbers, corrected by a periodic comparison with `session.snapshot`, and it
polls the assistants' own databases for usage. This directory models that core,
checks it with TLC and proves its safety properties with TLAPS.

## 1. The system

| Part | Code | State | Operations |
|---|---|---|---|
| Tracker | `internal/tracker` | workspaces, tabs, panes, agents, sessions, per-state counts; one mutex | `Apply*` per event, `ApplySeenFlip`, `EvictExpired`, `ApplySnapshot`; reads: `Diff`, `Counts`, `Panes` |
| Event loop | `internal/app/app.go` | current subscriber, `scope`, the resubscribe channel | the `select` of `App.Run`, `handleEvent`, `reconnect` |
| Reconcile | `internal/tracker/diff.go` | none of its own | every minute: fetch a snapshot, `Diff`, `onReport` |
| Subscriber | `internal/events` | connection, events channel (64), error channel (1), `stopped`, `closeOnce` | `run` (reader goroutine), `Close` |
| Backoff | `subscribeWithBackoff` | attempt number | snapshot and subscribe, wait, retry |
| Usage collector | `internal/usage/collector.go` | active panes, cursors; channels for transitions (64), syncs (1), deltas (64) | `Run`, `RequestSync`, `NotifyTransition`, polling |
| opencode adapter | `internal/usage/adapters/opencode` | none (opens the database per poll) | `PollUsage`, `resolveRoot` |
| Client, snapshot | `internal/client`, `internal/snapshot` | none | one RPC per connection |
| Telemetry | `internal/app/telemetry.go`, `internal/otel` | three providers, each there or not | start-up signal by signal, gauges read from the counts, export, shutdown |
| Machine id | `internal/machineid` | one file | `LoadOrCreate`, `generate` |
| main | `main.go` | the context | signals |

How they interact. Three goroutines matter beside the reader: the event loop,
which owns subscription and teardown; the reconcile goroutine, which calls into
the tracker *and* into `onReport`; and the collector, which owns `active` and
`cursors`. The tracker's mutex makes single calls atomic and nothing more: a
snapshot is fetched, compared and acted upon in separate steps. Everything else
travels over channels whose sends never block: when full, they drop. Two other
programs write what this one reads: Herdr, and the assistant (opencode) whose
database is queried while it is in use.

What is hard here: events that are lost, late, repeated or never sent (a tab's
panes close silently; being *seen* emits nothing); cascades that overlap; the
gap between snapshot and subscription; the two shutdown paths of a stream; stale
snapshots and stale pane maps; clocks that must survive a re-baseline; totals
that are shared, reset, or change between two statements; a file that a crash
leaves torn. The full list, line by line, with the properties aimed at each, is in
`PROJECT.json` under `hazards`.

What makes each part correct:

- **Tracker**: counts and gauges equal live agents; each stretch of an agent's
  time is exported at most once, and none with a negative length; the attention clock runs exactly in `done`; a
  closed record is final until its grace window is over; no step can panic.
- **Loop and reconcile**: without a lost event the tracker *is* the session; with
  lost events it becomes so again, as long as `Run` does not return; every open
  pane is eventually covered for status events, by a subscription that Herdr
  accepted and that stands; a seen-flip is applied only to what was seen.
- **Subscriber**: one reader at a time, `Close` returns, no false errors, a
  failure is acted upon, a cancelled process stops.
- **Collector**: nobody is billed for more than was used, and nothing is lost but
  what finds a channel full or falls to a re-seeded cursor; the working panes are the ones polled; the newest
  sync wins.
- **opencode adapter**: all below a session and its ancestors, the whole tree where
  none of them is missing, nothing of another tree, and an answer in finitely many
  statements.
- **Start-up**: one identity per machine, every provider flushed on every way out,
  no start-up that hangs.

## 2. Modules

| Module | Models | Notes |
|---|---|---|
| `Tracker` | `tracker/{tracker,apply,counts,diff,types}.go`, the gauge callback of `app/telemetry.go` | one action per method; arguments from any event in any order |
| `Frames` | `events/event.go` | operators only: the wire frames of Herdr, and `parseFrame` |
| `Observr` | `app/app.go`, `app/scope.go`, `events/subscription.go`, `Tracker.Run` | EXTENDS `Tracker`, INSTANCEs `Frames`; its actions are the calls loop and reconcile make |
| `Stream` | `events/subscriber.go` with the loop's `select` | the reader's exit is one step per `close` |
| `Backoff` | `subscribeWithBackoff` | int64 arithmetic on sets of bits |
| `Startup` | `machineid`, `NewTelemetry`, `Telemetry.Shutdown`, the bootstrap and the ends of `App.Run` | INSTANCEs `Backoff`; several runs on one machine |
| `Billing` | | abstract: billed grows, and stays within what was used |
| `UsageCollector` | `usage/collector.go` | implements `Billing`; loops over panes are one step per pane |
| `Opencode` | `usage/adapters/opencode/opencode.go` | one poll, one action per SQL statement |
| `MCTracker`, `MCObservr`, `MCUsageCollector` | | small instances for TLC; the others are run directly |
| `TrackerProofs`, `ObservrProofs`, `EventProofs`, `StreamProofs`, `UsageProofs`, `OpencodeProofs`, `StartupProofs` | | TLAPS proofs (section 4) |

### Tracker

State and actions carry the code's names. `panes`, `agents`, `tabs`, `sessions`
are functions whose domain is the key set of the Go map. `closedAt = Zero` means
live. A nil `DurationByState` is `ledger = FALSE`; its contents are never read
by the program and are left out, as are labels, `UpdatedAt`, and the agent's
type and tab, which are only copied into exports. `counts` is the pair of maps of
`counts.go`, with the same treatment of empty buckets: workspace entries go at
zero, global ones stay (so `TypeOK` allows a stored zero only there).
`NewAgent` is the record of a first status or of a re-baseline, `Entered` the update
in place of a transition. `decrStateLocked` skips an agent whose bucket is empty;
`Counted` is the set not skipped. `Gauges` is what one collection of metrics
observes of them. `emitted` holds what the last call sent on
the three channels, `sampledTo` (a history variable) up to when each pane's time
was exported. The drop of a sample on a full channel is not modelled: it changes
nothing in the tracker. `NilMapPanic` is the runtime error of writing to a nil
map; after it no action is possible.

`Next` lets Herdr send any event about any place at any time, which covers loss,
duplication and reordering without further machinery. `Rebaseline` takes any
snapshot. Two constants say what is assumed of Herdr's ids: `Places` lists where
a pane may be reported (one place each, or several when panes can move), and
`ClosedPanesReturn` whether a snapshot can list a pane the tracker closed.

### Frames and Observr

`world` is the session as Herdr has it; the actions of `Herdr` change it and push
the frames that the code's comments and tests say Herdr sends. That part is
external: it is modelled from how the code uses it (`event.go:41-72`,
`apply.go:20-27` and `68-77`, `types.go:132-138`, `subscription.go:32-38`). `Frames` has the
shapes: entity objects in created events, flat ids in most others, the one dotted
name, acks, and frames nobody subscribed to. Every frame passes through
`parseFrame`: the classification, the collapsing of names, the precedence of nested
over flat ids. A name is a sequence of words, which is all `parseFrame` tells apart.

`AgentStates` are the statuses agents take in a run; the tracker's `Reported` also
has the `unknown` of a new pane and the `idle` of one that was seen. Ids belong
together as Herdr's do: a tab has one workspace, and numbers of panes count up.
Panes close alone (`ClosePane`), with their tab (`CloseTab`: silently, and the
workspace follows its last tab), or with their workspace (`CloseWorkspace`).

`events` folds socket buffer and channel into one bounded queue. The loop is
`select` or a step of `reconnect`: `CloseOld`, `FetchSnapshot`, `Subscribe`,
`Baseline`; in between, Herdr and reconcile go on. `Subscribe` only writes the request
(`stream = "sent"`); Herdr looks up the panes it names and starts to deliver in a step
of its own, `Register`. A broken stream makes two cases of `select` ready, as in
`Stream`: `StreamError` reconnects, and `Return`, once the queue is drained, ends the
process (`loop = "returned"`). Reconcile is `ReconcileFetch`,
`ReconcileDiff`, then one `ReportFlip` per flip and `ReportDrift`, each a separate
call into the tracker.

Faults: an event is dropped when the queue is full, lost without a
subscription, overtaken by later ones or delivered twice (`Disturb`); the stream
breaks; a subscription is rejected because a pane vanished before it was registered, and
then is silent.
`gap` is a history variable: since the last snapshot an event was lost, late or
repeated, or a seen-flip undid a state still standing. Two idealisations: the clock stands still (so no eviction; `Tracker`
alone has it), and ids are not reused.

### Stream

The reader is at `read`, `failing`, `report` or one of its four deferred closes;
the loop at `select`, in `Close`, or in the backoff. Events, acks and unknown
frames are told apart only by what the reader does with them. `then` is where the
loop continues after `Close`: the next subscription or the end of `Run`.

### UsageCollector and Billing

`live` is what `Tracker.Panes()` would return, changed by the loop; `map` is the
copy a loop over panes works on; `todo` the panes it has left. The three selects
of `RequestSync` are three actions. Of the six counters of `UsageTotals` one is
followed; the other five matter to it only by having fallen below the cursor, which
re-seeds all six: `fell` is the set of sessions where that is so at the next poll. The
deltas of one poll go to the channel one by one in the order the store returned the
sessions, and the loop may drain some in between: `emitDelta` chooses which find room,
no fewer than the channel had when the poll began. `PaneCreated` is the event that
blanks a pane without a transition, repeated or not. The store (`store`, `down`) is
external: totals grow, are reset, become unreadable and come back. `accrued`, `billed` and `missed` are
histories; `Billing` is the specification of the first two, and
`Bills == INSTANCE Billing WITH used <- accrued` the refinement mapping.

### Opencode

`parent` is any function from sessions to parents: missing ancestors and cycles
included. `resolveRoot` is one step per `SELECT`, `QueryTree` the recursive query,
whose result is the least set closed under `parent_id`. Between any two
statements opencode may create or prune a session. `result` is checked against
`Related`, the connected component of the parent links, which is defined without
reference to the walk.

### Startup

A machine starts the program again and again; each run may be killed at any step,
and a power failure may take a file that was never synced (`lost`). `os.WriteFile`
is two steps, since it truncates first. Providers come up one after the other and
any of them may fail. The bootstrap's retries are `Backoff`, instantiated with
`maxInitialAttempts`. What runs between the first subscription and the end of the
stream is `Observr`.

### Backoff

A `time.Duration` is the set of its bits, so that doubling loses what leaves
bit 63, as the code's multiplication does.

## 3. Runs

| Run | Instance | Result |
|---|---|---|
| `tracker` | 2 panes in 1 tab, `working`/`done`, 2 clock units, grace 0 | 608,756 states, holds |
| `tracker_roaming` | 1 pane, 2 workspaces, returning panes, 3 clock units, grace 1 | 462,256 states, holds |
| `tracker_moved` | 1 pane, 2 workspaces | **violated**: nil map |
| `observr` | 2 panes, 4 changes, 1 fault, queue of 3, fairness | 454,972 states, holds |
| `observr_flip` | 1 pane, 6 changes, no fault | **violated**: false seen-flip |
| `stream` | queue 2, wire 2, 2 failures, fairness | 15,754 states, holds |
| `stream_ends` | the same with 1 failure | **violated**: `Run` returns |
| `usage` | 1 pane, a session with a child, 2 changes, 1 fault, channels of 1, fairness | 912,980 states, holds; the longest run, about three minutes |
| `usage_stale` | 1 pane, 2 changes | **violated**: working pane dropped |
| `backoff` | 40 attempts | **violated**: wait overflows |
| `opencode` | 4 sessions, every parent function and set of rows, walk limit 3, 1 write | 1,447,520 states, holds |
| `startup` | 3 runs, 5 attempts | 32,012 states, holds |

Why these bounds are enough. Two panes of one tab are what a cascade needs to
close one agent with, and one without, its own event; two workspaces with one
pane are what a move needs. Only `done` and silent flips treat statuses
differently, so `working`, `done` and the `idle` of a seen-flip cover the
branches of the tracker; `blocked` matters to the concurrency gauge alone, which is
proved for all statuses. Two clock units with grace 0 (or three with grace 1) put a
record both inside and beyond its window. In `observr` four changes suffice to open,
work, complete and close, or to open and close around a resubscription; a queue of
three overflows with one burst of events of an opened workspace plus one; two panes in
one tab close alone, with their tab or with the workspace, at once; one fault
is a broken stream, a late event or a repeated one at any point. Tabs and workspaces of
any size are in the proofs (`EventsSuffice`, `LoopDrivesTracker`). `observr_flip`
needs work, done, seen, work, done: hence six changes with the opening. In `usage`
capacities of one make every channel overflow, and a child of the shown session is
what every sharing of totals comes down to (several panes on one session are in the
theorems); the one fault is a reset, an outage, or another counter that falls. In `opencode` four sessions hold a cycle
with a tail, a chain longer than the walk limit of three, and a sibling; one write
falls between any two statements. In `startup` three runs are one that tears the
file, one that repairs it and one that reads it. `CHECK_DEADLOCK` is off everywhere:
changes, failures and clock are bounded, and a process that exited, panicked or ran
out of bounded input stops.

Bounds: `MaxTime`, `MaxChanges`, `MaxFaults`, `MaxFails`, `MaxUsage`, `MaxWrites`,
`MaxRuns`, `Horizon`, and the capacities `EventCap`, `WireCap`, `TransitionCap`,
`DeltaCap`.

Two refinements are among the checks. `BillingImplemented` (run `usage`) shows the
collector to implement `Billing`. `DrivesTracker` (run `observr`) shows the
composition to implement `Tracker`'s own `Spec`, with `ClosedPanesReturn = FALSE`; it
is also proved (`LoopDrivesTracker`), so what `TrackerProofs` proves under arbitrary events
holds of the tracker inside the daemon, and the assumption that closed
panes do not return is not one about Herdr alone but follows from reconnect applying
its snapshot before it handles what the new stream brought.

### What the violations say

- **tracker_moved** (`apply.go:413-416`). When a pane's agent record sits in
  another workspace than its pane, closing the agent's workspace closes the agent
  alone; a re-baseline that finds the same status revives the record with its nil
  `DurationByState`; the next write panics.
- **observr_flip** (`app.go:110-113`). `onReport` is not on the loop goroutine,
  as its comment says. A done interval that began after the reconcile snapshot
  can be ended by a flip that belongs to the one before.
- **stream_ends** (`app.go:129-133`). The end of a stream makes two select cases
  ready; one of them ends the process without error.
- **usage_stale** (`collector.go:221-225`). The second loop of `applySync` trusts
  the map the first one double-checks.
- **backoff** (`app.go:322-325`). The cap is applied after the overflow.

Comments that differ from the code without a run of their own, modelled as the code
has it:

- `telemetry.go:85-87`: a failure of the metrics SDK disables logs and traces too
  (94-101; `MeterProvider`).
- `machineid.go:28-30` promises an id together with a write error that the code never
  returns (`WriteFails`), and 43-44 has an unreadable file replaced that is in fact
  left alone (`ReadFails`).
- `counts.go:14-15` says that no zero-valued entries are ever stored; 77-79 keeps a
  global entry at zero (`Decr`, `TypeOK`). No gauge shows the difference
  (`GaugesTruthful`).
- `meter.go:114-116` says that a workspace's concurrency is always emitted and its
  series never goes stale; the callback (`telemetry.go:441-463`) lists the workspaces
  with a bucket, so the series ends with the last agent (`Gauges`, `GaugesTruthful`).
- `opencode.go:87-89` and 156-158 say that a missing ancestor stops the walk at the last
  existing id; the code has already climbed to the missing one and queries from it
  (169-170; `RowMissing`), so that siblings which name the same missing parent are
  returned too. `WholeTree` holds the code to neither: with a missing ancestor
  it asks for what hangs below those that have a row.
- `apply.go:112` calls a repeated `pane.created` harmless; it blanks the pane
  (`ApplyPaneCreated`, `PaneCreated`).

### Fairness

Liveness is claimed only under what the code's scheduling gives.

- `Observr`: the steps of `reconnect` and of the reconcile goroutine run when they
  can (weak fairness; the minute ticker never stops, and a failed fetch is
  retried); cases of `select` get strong fairness, because Go chooses at random
  among ready cases and a case that is ready again and again is taken. Herdr answers a
  subscription that stands (`Register`); else it, the user and the faults are not fair.
  Which of its two cases answers a broken stream is open: `Return` owes nothing, and
  `Converges` and `EventuallyCovered` hold unless it was taken.
- `Stream`: the reader and `Close` are weakly fair, select cases strongly; a
  successful subscription is *not* assumed, so `ShutdownCompletes` covers a Herdr
  that never answers.
- `UsageCollector`: tickers fire for ever, select cases are strongly fair, a store
  that became unreadable is assumed to become readable again (`Recover`), since
  nothing can catch up with one that is not.
- `Opencode`: a statement returns or fails. opencode and the errors owe nothing.
- `Startup`: the program goes on wherever it does not wait for Herdr's events: a
  ping, an RPC or a write returns, a timer fires. Crashes are not fair.

## 4. Proofs

Each theorem holds for every value of the constants that satisfies the named
assumptions of its module, and for every behaviour of its specification.

| Module | Theorem | Statement |
|---|---|---|
| `TrackerProofs` | `TypeCorrect`, `CountsCorrect`, `GaugesCorrect` | `TypeOK`, `CountsMatch`, `GaugesTruthful` |
| | `AttentionCorrect`, `LatenciesAgree` | `AttentionClock`, `LatencyIsDoneDuration` |
| | `ClosedStaysFinal` | `ClosedIsFinal` (an action property) |
| | `LedgerSafe`, `AgentsSitInPanes`, `SampledOnce` | `LedgerAllocated`, `AgentInLivePane`, `NoIntervalSampledTwice`, if a pane has one workspace and closed panes do not return |
| `ObservrProofs` | `ScopeFollowsPanes` | `CoveredOrPending` |
| | `LoopDrivesTracker` | the refinement `ObservrSpec => Spec` (`DrivesTracker`) |
| | `CountsHere` | `CountsMatch`, `GaugesTruthful`, `AttentionClock`, in the daemon |
| | `LedgersHere` | `LedgerAllocated`, `AgentInLivePane`, `NoIntervalSampledTwice`, in the daemon, if a pane has one workspace |
| | `EventsParsed` | `parseFrame` recovers every event from its frame |
| `EventProofs` | `EventsSuffice` | `EventSourced` |
| `StreamProofs` | `TypeCorrect`, `ErrorsAreFailures`, `NoSecondReader` | `TypeOK`, `ErrorMeansFailure`, `OneReader` |
| `UsageProofs` | `TypeCorrect`, `UsageIsConserved`, `NewestSyncIsKept` | `TypeOK`, `UsageConserved`, `NewestSyncKept` |
| | `ImplementsBilling` | the refinement `Spec => Bills!Spec` |
| `OpencodeProofs` | `TypeCorrect`, `NothingForeign`, `RefCorrect`, `WholeTreeReported` | `TypeOK`, `OnlyRelated`, `RefReported`, `WholeTree` |
| `StartupProofs` | `TypeCorrect`, `IdentityKept`, `NothingUnflushed` | `TypeOK`, `OneIdentity`, `Flushed` |

*Types and counts.* Neither is inductive alone. A decrement stays natural only
because the counts were right, and `Decr` leaves out agents whose bucket is empty.
`TypeOK` is `WellFormed` and `NoClockAhead`: every stamp is one the clock had, zero,
or carried over by a re-baseline. The joint invariant `TypeOK /\ CountsMatch` gives `CountedAll`: with right counts
no live agent is skipped. From there `MatchesDecr` and `MatchesIncr` follow the
counts through a cascade and a transition by cardinality, and `SnapshotStep`
through a re-baseline. `CountsCorrect` needs no assumption on event order or on
moves between workspaces. `GaugesCorrect` follows from the two: a bucket exists
exactly where a live agent is, because `Decr` drops it at zero.

*Clocks and samples.* `AgentClocks`: a step either leaves an agent's status and
clocks alone or opens a fresh interval, with `NewAgent` or `Entered`. `AgentSteps` lists the six
ways a step treats the agents, which carries the rest: what is emitted of an agent
(`EmissionAgrees`), that closed agents change only by eviction and re-baseline, and
`Unsampled`, the strengthening of `NoIntervalSampledTwice`: the interval of every
agent that has a ledger, closed ones included, starts where the last sample ended.

*Ledger.* `LedgerAllocated` is not inductive: a closed record has no ledger and a
re-baseline may revive it. `InStep` strengthens it: every agent record has a pane
record in the same workspace with the same `closedAt`, and a live agent has a
ledger. Under the two assumptions a snapshot that lists a pane then lists only
panes whose agent is live too. `tracker_moved` shows that the first assumption is
needed, so theorem and counterexample bound the defect from both sides.

*Scope.* `ScopeInv` adds to `CoveredOrPending` that the scope was taken from the
snapshot about to be applied. `Traced` says which live panes with a tab a step may
add: those of a `pane.created` event, for which the signal is set.

*The loop drives the tracker.* Every call of loop and reconcile must be one the
tracker's `Next` has, with arguments Herdr may report. `Lawful` says what an event in
the queue may be at any time, late and repeated ones included: its ids belong
together, what it closes is gone from the session, what it creates was in use and, if
it is still open, sits where the event says. `LawInv` is the invariant: every queued event is
lawful, the tracker and the snapshot in hand know only used ids, and no pane of the
session or of that snapshot has a closed record. It is inductive because ids are not
used again (`SessionMoves`): a lawful event stays lawful as the session moves on, and
handling one (`HandleLaw`) closes only what is gone. With it each re-baseline is
`FreshBaseline`, one that revives no closed record, which gives `LedgersHere` with one
assumption less than `LedgerSafe`. `EventsParsed` is what takes events across the
wire.

*Events suffice.* `EventSourced` speaks of an empty queue; what is inductive speaks of
any queue. `Track`: the queued events, handled one after the other, lead from the
outline the tracker has (or will have once the fetched snapshot is applied) to the
outline of the session. An outline is the workspaces, tabs and panes with the closed
ids; `Before` is what an event needs of the outline it meets, `After` what it makes of
it, and `Leads` a path of these through the queue. Herdr extends the path at its end
(`HerdrTrack`: `ClosePaneTrack`, and `CloseTabTrack` and `CloseWorkspaceTrack` for the
closes that take any number of panes along and name none of them), handling takes its first step (`HandleTracks`), and a re-baseline puts the
snapshot's outline at its start (`SnapshotTracks`). `Covered`: of every pane in scope
the agent and status last queued, or shown by the tracker if none is queued, are those
of the session, up to a silent flip; `Unspoken` and `Untold` say that nothing later is
queued. Both hold only while nothing was lost (`Following`), which is what `gap`
records. The flips of the reconcile goroutine keep them: a flip turns `done` into
`idle`, and unless the state still stands, a later status is queued or the pane was
seen.

*Stream.* `CauseKnown`: a reader that may find its connection closed has been told
to stop; every later step of the reader remembers why its read failed. `CloseDone`:
a subscription that was closed once, and is not being closed now, has no reader,
which is what lets a second `Close` return at once.

*Usage.* `Account` is the account of one session: billed stays within what was
used also when the store's total fell, and while the store holds all that was used,
billed, missed and owed add up to it. `SyncOrder` adds that the syncs channel is
empty between the drain and the last send.

*opencode.* `InTree` keeps the walk inside the tree of the session asked for;
`RefBelow` keeps that session below the current root as long as no row is pruned,
so that cutting the walk at the depth limit cannot lose it. `WholeInv` counts: each
climb leaves one ancestor fewer (`ClimbShortens`) unless it is on a cycle, and there
every session's tree holds its parent (`CycleIsSummit`), so the walk either ends at a
`Summit`, below which the recursive query returns the whole tree (`WholeTreeBelow`), or
the ancestry has more than `maxParentWalkDepth + 1` sessions. This needs that the database is
finite (`IdsAssumption`).

*Start-up.* `Identity`: the program writes the file only while it holds no id, and
uses no id that is not in the file.

Every invariant and action property of a passing run is proved. Only model-checked:
the liveness properties, since fairness and ENABLED are out of the prover's reach;
the five violations; and the arithmetic of `Backoff`. The assumption that a pane keeps
its workspace, in `LedgersHere` and `LedgerSafe`, cannot be dropped, as `tracker_moved`
shows.

## 5. Not modelled

- The export of samples and deltas: instruments and attributes are forwarded to
  the OpenTelemetry SDK and never read back. `resolveSessionAttribution`
  (`app.go:217-226`) reads the `sessions` index, which `Tracker` models, and only
  chooses attributes.
- JSON, framing and sockets (`internal/client`), labels, and the fields of a
  snapshot nothing is derived from.
- The three output channels of the tracker as bounded queues: a drop is logged
  and changes no state; what a call sends is modelled (`emitted`).
- What the channels between tracker, collector and loop hold when `Run` returns:
  dropped by design.
- The version command, packaging, dashboards and the install script.

## 6. Possible next steps

1. The clock and eviction in `Observr`: with both, late events could come after the
   grace window in the composition as they do in `Tracker`.
2. The composition of `UsageCollector` with `Tracker`, whose `Panes` it reads, in
   place of `live`.
3. Bounded output channels, to relate what is exported to what was sent.
4. Proofs of what holds of `Startup`, `Stream` and `Observr` together, once one module
   composes them.
