------------------------------- MODULE Startup -------------------------------
(***************************************************************************)
(* One machine over several runs of the program: the machine id of         *)
(* internal/machineid, kept in a file that a crash or a failed write may   *)
(* leave torn; NewTelemetry, which brings up one signal after the other;   *)
(* and the bootstrap and the end of App.Run.                               *)
(*                                                                         *)
(* Abstracted: the instruments, what is exported, and everything between   *)
(* the first subscription and the end of the stream (Observr.tla).         *)
(***************************************************************************)
EXTENDS Naturals

CONSTANTS
  maxInitialAttempts, \* as in app.go
  MaxRuns             \* bound on the runs of the program

ASSUME AttemptsAssumption == maxInitialAttempts \in Nat \ {0}
ASSUME RunsAssumption == MaxRuns \in Nat

None == 0
Signals == {"metrics", "logs", "traces"}

VARIABLES
  file,     \* the id the machine-id file holds; None: absent, or torn by a write
  lost,     \* history: a power failure took an id that was in the file
  runs,     \* runs so far; uuid.New gives each run an id of its own
  at,       \* where the program is
  id,       \* the resource's herdr.machine.id
  up,       \* the signals that have a provider
  flushed,  \* ... and those shut down again
  exported, \* history: the ids data was exported under
  attempt, backoff, retry \* subscribeWithBackoff

runVars == <<id, up, flushed>>
fileVars == <<file, lost>>
retryVars == <<attempt, backoff, retry>>
vars == <<fileVars, runs, at, runVars, exported, retryVars>>

Retry == INSTANCE Backoff WITH
  MaxAttempts <- maxInitialAttempts, Horizon <- maxInitialAttempts + 1, at <- retry

Init ==
  /\ file = None /\ lost = FALSE /\ runs = 0
  /\ at = "down" /\ id = None /\ up = {} /\ flushed = {} /\ exported = {}
  /\ Retry!Init

Alive == at \notin {"down", "exited"}
Goes(from, to) == at = from /\ at' = to

-----------------------------------------------------------------------------
(* The world: herdr starts the program once for each boot; it may be       *)
(* killed at any point, and a power failure may take what was not synced.  *)

Start ==
  /\ ~Alive /\ runs < MaxRuns
  /\ at' = "resource" /\ runs' = runs + 1
  /\ id' = None /\ up' = {} /\ flushed' = {}
  /\ attempt' = 1 /\ backoff' = {} /\ retry' = "try"
  /\ UNCHANGED <<fileVars, exported>>

Crash == Alive /\ at' = "down" /\ UNCHANGED <<fileVars, runs, runVars, exported, retryVars>>

\* machineid.go writes without a sync.
PowerFailure ==
  /\ at' = "down"
  /\ file' \in {file, None}
  /\ lost' = (lost \/ file' # file)
  /\ UNCHANGED <<runs, runVars, exported, retryVars>>

-----------------------------------------------------------------------------
(* BuildResource and LoadOrCreate. Every error omits the id.               *)

\* HERDR_PLUGIN_STATE_DIR is unset, or the file cannot be read.
\* Mutant: as machineid.go:43-44 has it, an unreadable file is replaced.
ReadFailsRegenerates == Goes("resource", "generate") /\ UNCHANGED <<fileVars, id>>
ReadFails == Goes("resource", "meter") /\ UNCHANGED <<fileVars, id>>

LoadID ==
  /\ file # None
  /\ Goes("resource", "meter") /\ id' = file
  /\ UNCHANGED fileVars

Regenerate ==
  /\ file = None
  /\ Goes("resource", "generate") /\ UNCHANGED <<fileVars, id>>

\* MkdirAll fails, or the file cannot be opened.
CreateFails == Goes("generate", "meter") /\ UNCHANGED <<fileVars, id>>

\* os.WriteFile opens the file truncated before it writes.
Truncate ==
  /\ Goes("generate", "writing") /\ file' = None
  /\ UNCHANGED <<lost, id>>

\* The id is not returned with the error, whatever machineid.go:29 says.
WriteFails ==
  /\ Goes("writing", "meter") /\ file' \in {None, runs}
  /\ UNCHANGED <<lost, id>>

Write ==
  /\ Goes("writing", "meter") /\ id' = runs /\ file' = runs
  /\ UNCHANGED lost

LoadOrCreate ==
  /\ ReadFails \/ LoadID \/ Regenerate \/ CreateFails \/ Truncate \/ WriteFails \/ Write
  /\ UNCHANGED <<runs, up, flushed, exported, retryVars>>

\* resource.New or resource.Merge fails: there is no telemetry at all. The
\* last Merge comes after the id is known.
ResourceFails ==
  /\ at \in {"resource", "meter"} /\ at' = "ping"
  /\ UNCHANGED <<fileVars, runs, runVars, exported, retryVars>>

-----------------------------------------------------------------------------
(* NewTelemetry. Without metrics it returns nil: nothing is exported. A    *)
(* failure of logs or of traces leaves the other signals alone.            *)

MeterProvider ==
  \/ Goes("meter", "logger") /\ up' = {"metrics"}
  \/ Goes("meter", "ping") /\ up' = {}

registerLogger == Goes("logger", "tracer") /\ (up' = up \cup {"logs"} \/ up' = up)

registerTracers == Goes("tracer", "ping") /\ (up' = up \cup {"traces"} \/ up' = up)

NewTelemetry ==
  /\ MeterProvider \/ registerLogger \/ registerTracers
  /\ UNCHANGED <<fileVars, runs, id, flushed, exported, retryVars>>

\* The SDK exports every 10 seconds and on Shutdown, under the resource's id.
Export ==
  /\ Alive /\ up # {} /\ exported' = exported \cup ({id} \ {None})
  /\ UNCHANGED <<fileVars, runs, at, runVars, retryVars>>

-----------------------------------------------------------------------------
(* App.Run.                                                                *)

\* Mutant: the process ends at once, its deferred calls do not run.
PingExits == at = "ping" /\ at' \in {"subscribe", "exited"}
Ping == at = "ping" /\ at' \in {"subscribe", "shutdown"}

ping == Ping /\ UNCHANGED <<fileVars, runs, runVars, exported, retryVars>>

\* Mutant: every wait is followed by a retry.
ElapsedRetries == retry = "wait" /\ retry' = "try" /\ UNCHANGED <<attempt, backoff>>
Elapsed == Retry!Elapsed

subscribeWithBackoff ==
  /\ at = "subscribe"
  /\ Retry!Subscribed \/ Retry!SubscribeFails \/ Elapsed \/ Retry!Cancelled
  /\ at' = CASE retry' = "subscribed" -> "running"
             [] retry' = "failed" -> "shutdown"
             [] OTHER -> "subscribe"
  /\ UNCHANGED <<fileVars, runs, runVars, exported>>

\* The stream ends or the context is cancelled.
RunEnds ==
  /\ Goes("running", "shutdown")
  /\ UNCHANGED <<fileVars, runs, runVars, exported, retryVars>>

\* Telemetry.Shutdown, deferred by Run: each provider that there is, in turn.
\* Mutant: it does not look whether there is one.
ShutdownAll ==
  \E s \in Signals \ flushed : flushed' = flushed \cup {s}
ShutdownProvider ==
  \E s \in up \ flushed :
    /\ s = "logs" => "metrics" \in flushed
    /\ s = "traces" => up \ flushed = {"traces"}
    /\ flushed' = flushed \cup {s}

Shutdown ==
  /\ at = "shutdown"
  /\ \/ ShutdownProvider /\ UNCHANGED at
     \/ up \subseteq flushed /\ at' = "exited" /\ UNCHANGED flushed
  /\ UNCHANGED <<fileVars, runs, id, up, exported, retryVars>>

-----------------------------------------------------------------------------
Step ==
  LoadOrCreate \/ ResourceFails \/ NewTelemetry \/ ping \/ subscribeWithBackoff \/ Shutdown

Next == Start \/ Crash \/ PowerFailure \/ Export \/ Step \/ RunEnds

Spec == Init /\ [][Next]_vars

\* The program goes on wherever it does not wait for herdr's events: a call
\* returns or times out, a write returns, a timer fires.
FairSpec == Spec /\ WF_vars(Step)

-----------------------------------------------------------------------------
TypeOK ==
  /\ file \in 0..runs /\ lost \in BOOLEAN
  /\ runs \in 0..MaxRuns
  /\ at \in {"down", "resource", "generate", "writing", "meter", "logger", "tracer",
             "ping", "subscribe", "running", "shutdown", "exited"}
  /\ id \in 0..runs
  /\ up \subseteq Signals /\ flushed \subseteq up
  /\ exported \subseteq 1..runs
  /\ attempt \in 1..maxInitialAttempts + 1 /\ backoff \subseteq 0..63
  /\ retry \in {"try", "wait", "subscribed", "failed"}

(* Unless a power failure takes the file, all a machine ever exports is    *)
(* under one id, and the file holds it: no crash, torn or failed write, no *)
(* unreadable file makes a second machine of it.                           *)
OneIdentity == ~lost => \A i \in exported : file = i

(* Whatever ends the run, from a ping that fails to a stream that closes,  *)
(* every provider there is was flushed before the process exits.           *)
Flushed == at = "exited" => up = flushed

(* A failure of telemetry or of herdr never leaves the start-up hanging:   *)
(* the program runs or exits.                                              *)
BootstrapEnds == at = "resource" ~> at \in {"running", "exited", "down"}
=============================================================================
