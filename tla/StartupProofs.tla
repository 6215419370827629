---------------------------- MODULE StartupProofs ----------------------------
(***************************************************************************)
(* Startup.tla, for any number of runs and of attempts: a machine keeps    *)
(* its identity, and no run exits with data it has not flushed.            *)
(***************************************************************************)
EXTENDS Startup, TLAPS

USE AttemptsAssumption, RunsAssumption

(* What OneIdentity rests on: the program writes the file only when it     *)
(* holds no id, and uses no id that is not in the file.                    *)
Identity ==
  /\ at \in {"generate", "writing"} => file = None
  /\ at \in {"resource", "generate", "writing"} => id = None
  /\ Alive /\ id # None => file = id
  /\ OneIdentity

\* Nothing is shut down while Run goes on.
Unflushed == flushed # {} => at \in {"shutdown", "exited", "down"}

Inv == TypeOK /\ Identity /\ Flushed /\ Unflushed

-----------------------------------------------------------------------------
\* A wait is a set of the 64 bits.
LEMMA BackoffIsBits ==
  ASSUME NEW n PROVE Retry!Capped(Retry!Doubled(n)) \subseteq 0..63
<1>1. \A B, k : Retry!Shift(B, k) \subseteq 0..63
  BY DEF Retry!Shift
<1> QED
  BY <1>1 DEF Retry!Capped, Retry!Doubled, Retry!ThirtySeconds

LEMMA Initially == Init => Inv
<1> SUFFICES ASSUME Init PROVE Inv
  OBVIOUS
<1> USE DEF Init, Retry!Init, None, Signals
<1>1. TypeOK
  <2>1. file \in 0..runs /\ runs \in 0..MaxRuns /\ id \in 0..runs
    OBVIOUS
  <2>2. attempt \in 1..maxInitialAttempts + 1
    OBVIOUS
  <2>3. lost \in BOOLEAN
    OBVIOUS
  <2> QED
    BY <2>1, <2>2, <2>3 DEF TypeOK
<1>2. Identity /\ Flushed /\ Unflushed
  BY DEF Identity, OneIdentity, Flushed, Unflushed, Alive, None, Signals
<1> QED
  BY <1>1, <1>2 DEF Inv

-----------------------------------------------------------------------------
LEMMA WorldKeepsInv == ASSUME Inv, Start \/ Crash \/ PowerFailure PROVE Inv'
<1> USE DEF Inv, TypeOK, Identity, OneIdentity, Flushed, Unflushed, Alive,
            None, Signals, fileVars, runVars, retryVars
<1>1. CASE Start
  <2>1. TypeOK'
    BY <1>1 DEF Start
  <2> QED
    BY <1>1, <2>1 DEF Start
<1>2. CASE Crash
  BY <1>2 DEF Crash
<1>3. CASE PowerFailure
  <2>1. lost' \in BOOLEAN
    BY <1>3 DEF PowerFailure
  <2>2. ~lost' => ~lost /\ file' = file
    BY <1>3 DEF PowerFailure
  <2>3. TypeOK'
    BY <1>3, <2>1 DEF PowerFailure
  <2> QED
    BY <1>3, <2>2, <2>3 DEF PowerFailure
<1> QED
  BY <1>1, <1>2, <1>3

\* With no id in the file, nothing was exported yet.
LEMMA FreshFile == ASSUME Inv, file = None, ~lost PROVE exported = {}
  BY DEF Inv, TypeOK, Identity, OneIdentity, None

LEMMA LoadOrCreateKeepsInv == ASSUME Inv, LoadOrCreate PROVE Inv'
<1> USE DEF LoadOrCreate, Goes, Inv, TypeOK, Identity, OneIdentity, Flushed, Unflushed, Alive,
            None, Signals, fileVars, retryVars
<1>1. CASE ReadFails
  BY <1>1 DEF ReadFails
<1>2. CASE LoadID
  BY <1>2 DEF LoadID
<1>3. CASE Regenerate
  BY <1>3 DEF Regenerate
<1>4. CASE CreateFails
  BY <1>4 DEF CreateFails
<1>5. CASE Truncate
  BY <1>5, FreshFile DEF Truncate
<1>6. CASE WriteFails
  <2>1. TypeOK'
    BY <1>6 DEF WriteFails
  <2> QED
    BY <1>6, <2>1, FreshFile DEF WriteFails
<1>7. CASE Write
  BY <1>7, FreshFile DEF Write
<1> QED
  BY <1>1, <1>2, <1>3, <1>4, <1>5, <1>6, <1>7

LEMMA TelemetryKeepsInv ==
  ASSUME Inv, ResourceFails \/ NewTelemetry \/ Export PROVE Inv'
<1> USE DEF Goes, Inv, TypeOK, Identity, OneIdentity, Flushed, Unflushed, Alive,
            None, Signals, fileVars, runVars, retryVars
<1>1. CASE ResourceFails
  BY <1>1 DEF ResourceFails
<1>2. CASE NewTelemetry
  <2>1. UNCHANGED <<file, lost, runs, id, flushed, exported, attempt, backoff, retry>>
    BY <1>2 DEF NewTelemetry
  <2>2. up' \in SUBSET Signals
    BY <1>2 DEF NewTelemetry, MeterProvider, registerLogger, registerTracers
  <2>3. flushed \subseteq up'
    BY <1>2 DEF NewTelemetry, MeterProvider, registerLogger, registerTracers
  <2>4. /\ at \in {"meter", "logger", "tracer"}
        /\ at' \in {"logger", "tracer", "ping"}
    BY <1>2 DEF NewTelemetry, MeterProvider, registerLogger, registerTracers
  <2> QED
    BY <2>1, <2>2, <2>3, <2>4
<1>3. CASE Export
  BY <1>3 DEF Export
<1> QED
  BY <1>1, <1>2, <1>3

LEMMA SubscribeKeepsInv == ASSUME Inv, subscribeWithBackoff PROVE Inv'
<1>1. /\ attempt' \in 1..maxInitialAttempts + 1 /\ backoff' \subseteq 0..63
      /\ retry' \in {"try", "wait", "subscribed", "failed"}
  BY BackoffIsBits DEF subscribeWithBackoff, Elapsed, Retry!Elapsed, Retry!Subscribed,
     Retry!SubscribeFails, Retry!Cancelled, Inv, TypeOK
<1>2. at = "subscribe" /\ at' \in {"running", "shutdown", "subscribe"}
  BY <1>1 DEF subscribeWithBackoff
<1> QED
  BY <1>1, <1>2 DEF subscribeWithBackoff, Inv, TypeOK, Identity, OneIdentity, Flushed,
     Unflushed, Alive, None, Signals, fileVars, runVars

LEMMA RunKeepsInv == ASSUME Inv, ping \/ RunEnds \/ Shutdown PROVE Inv'
<1> USE DEF Goes, Inv, TypeOK, Identity, OneIdentity, Flushed, Unflushed, Alive,
            None, Signals, fileVars, runVars, retryVars
<1>1. CASE ping
  BY <1>1 DEF ping, Ping
<1>2. CASE RunEnds
  BY <1>2 DEF RunEnds
<1>3. CASE Shutdown
  BY <1>3 DEF Shutdown, ShutdownProvider
<1> QED
  BY <1>1, <1>2, <1>3

LEMMA Inductive == Inv /\ [Next]_vars => Inv'
<1> SUFFICES ASSUME Inv, [Next]_vars PROVE Inv'
  OBVIOUS
<1>1. CASE Next
  BY <1>1, WorldKeepsInv, LoadOrCreateKeepsInv, TelemetryKeepsInv, SubscribeKeepsInv,
     RunKeepsInv DEF Next, Step
<1>2. CASE UNCHANGED vars
  BY <1>2 DEF vars, fileVars, runVars, retryVars, Inv, TypeOK, Identity, OneIdentity,
     Flushed, Unflushed, Alive, None, Signals
<1> QED
  BY <1>1, <1>2

LEMMA Invariance == Spec => []Inv
  BY Initially, Inductive, PTL DEF Spec

-----------------------------------------------------------------------------
(* Every variable has its type; in particular no provider is shut down     *)
(* that was never there (the nil checks of Telemetry.Shutdown).            *)
THEOREM TypeCorrect == Spec => []TypeOK
  BY Invariance, PTL DEF Inv

(* LoadOrCreate keeps the identity of a machine: short of a power failure  *)
(* that takes the file, all data is exported under the one id it holds.    *)
THEOREM IdentityKept == Spec => []OneIdentity
  BY Invariance, PTL DEF Inv, Identity

(* However Run returns, its deferred Shutdown flushed every provider.      *)
THEOREM NothingUnflushed == Spec => []Flushed
  BY Invariance, PTL DEF Inv
=============================================================================
