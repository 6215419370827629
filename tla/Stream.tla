------------------------------- MODULE Stream --------------------------------
(***************************************************************************)
(* internal/events/subscriber.go with the select of App.Run and reconnect: *)
(* the life of one event subscription after another.                       *)
(*                                                                         *)
(* The reader goroutine reads frames until the connection fails or is      *)
(* closed, and on its way out closes, in this order, the connection, the   *)
(* events channel, the error channel and done. The loop may look at the    *)
(* channels between any two of these steps. A frame is reduced to its      *)
(* kind; what the events do to the tracker is module Observr.              *)
(***************************************************************************)
EXTENDS Naturals, Sequences

CONSTANTS
  EventCap, \* capacity of Subscriber.events
  WireCap,  \* bound on the frames in the socket
  MaxFails  \* bound on stream failures

ASSUME StreamAssumption == EventCap \in Nat \ {0} /\ WireCap \in Nat /\ MaxFails \in Nat

VARIABLES
  conn,      \* "open", "failed" (EOF or error from Herdr), "closed" (by us)
  wire,      \* frames in the socket
  fails,     \* stream failures so far
  reader,    \* where Subscriber.run is
  queue,     \* how many events the events channel holds
  err,       \* the error channel holds an error
  stopped,   \* Subscriber.stopped
  closeOnce, \* Close has run on this subscriber
  loop,      \* where App.Run is
  then,      \* where the loop goes when Close returns
  resub,     \* the resubscribe channel holds a signal
  cancelled, \* ctx is cancelled
  failed     \* history: this subscription's stream failed at Herdr's end

sub == <<conn, wire, reader, queue, err, stopped, closeOnce, failed>>
vars == <<sub, fails, loop, then, resub, cancelled>>

Kinds == {"event", "ack", "unknown"}
Exit == <<"closeConn", "closeEvents", "closeErr", "closeDone", "gone">>

\* Which of the reader's channels are closed by now.
eventsClosed == reader \in {"closeErr", "closeDone", "gone"}
errClosed == reader \in {"closeDone", "gone"}
doneClosed == reader = "gone"

Init ==
  /\ conn = "open" /\ wire = <<>> /\ fails = 0
  /\ reader = "read" /\ queue = 0 /\ err = FALSE
  /\ stopped = FALSE /\ closeOnce = FALSE /\ failed = FALSE
  /\ loop = "select" /\ then = "subscribe"
  /\ resub = FALSE /\ cancelled = FALSE

-----------------------------------------------------------------------------
(* Herdr, the reconcile goroutine and the signal.                          *)

SendFrame(k) ==
  /\ conn = "open" /\ Len(wire) < WireCap
  /\ wire' = Append(wire, k)
  /\ UNCHANGED <<conn, reader, queue, err, stopped, closeOnce, failed,
                 fails, loop, then, resub, cancelled>>

Fail ==
  /\ conn = "open" /\ fails < MaxFails
  /\ conn' = "failed" /\ failed' = TRUE /\ fails' = fails + 1
  /\ UNCHANGED <<wire, reader, queue, err, stopped, closeOnce, loop, then, resub, cancelled>>

ReportDrift ==
  /\ ~resub
  /\ resub' = TRUE
  /\ UNCHANGED <<sub, fails, loop, then, cancelled>>

Cancel ==
  /\ ~cancelled
  /\ cancelled' = TRUE
  /\ UNCHANGED <<sub, fails, loop, then, resub>>

-----------------------------------------------------------------------------
(* The reader goroutine.                                                   *)

readerKeeps == <<closeOnce, stopped, failed, fails, loop, then, resub, cancelled>>

\* Mutant: the channel has no capacity.
ReadFrameUnbounded ==
  /\ reader = "read" /\ conn # "closed" /\ wire # <<>>
  /\ wire' = Tail(wire)
  /\ queue' = IF Head(wire) = "event" THEN queue + 1 ELSE queue
  /\ UNCHANGED <<conn, reader, err, readerKeeps>>

\* An event goes to the channel, or is dropped when that is full. An ack, even
\* one that reports an error, and an unknown frame are logged.
ReadFrame ==
  /\ reader = "read" /\ conn # "closed" /\ wire # <<>>
  /\ wire' = Tail(wire)
  /\ queue' = IF Head(wire) = "event" /\ queue < EventCap THEN queue + 1 ELSE queue
  /\ UNCHANGED <<conn, reader, err, readerKeeps>>

\* Mutant: the end of the stream at Herdr's side goes unnoticed.
ReadErrorWhenClosed ==
  /\ reader = "read" /\ conn = "closed"
  /\ reader' = "failing"
  /\ UNCHANGED <<conn, wire, queue, err, readerKeeps>>

ReadError ==
  /\ reader = "read"
  /\ conn = "closed" \/ (conn = "failed" /\ wire = <<>>)
  /\ reader' = "failing"
  /\ UNCHANGED <<conn, wire, queue, err, readerKeeps>>

\* Mutant: our own Close is reported like a failure.
CheckNothing ==
  /\ reader = "failing"
  /\ reader' = "report"
  /\ UNCHANGED <<conn, wire, queue, err, readerKeeps>>

CheckStopped ==
  /\ reader = "failing"
  /\ reader' = IF stopped THEN "closeConn" ELSE "report"
  /\ UNCHANGED <<conn, wire, queue, err, readerKeeps>>

ReportError ==
  /\ reader = "report"
  /\ err' = TRUE
  /\ reader' = "closeConn"
  /\ UNCHANGED <<conn, wire, queue, readerKeeps>>

\* One deferred close after the other.
ReaderExit(i) ==
  /\ reader = Exit[i]
  /\ reader' = Exit[i + 1]
  /\ conn' = IF i = 1 THEN "closed" ELSE conn
  /\ UNCHANGED <<wire, queue, err, readerKeeps>>

Reader ==
  \/ ReadFrame \/ ReadError \/ CheckStopped \/ ReportError
  \/ \E i \in 1..4 : ReaderExit(i)

-----------------------------------------------------------------------------
(* App.Run's select.                                                       *)

loopKeeps == <<conn, wire, reader, stopped, closeOnce, failed, fails, cancelled>>

\* Close is called, and the loop goes to n when it returns.
CloseThen(n) == loop' = "stop" /\ then' = n

\* The event may be a pane.created that asks for a resubscription.
TakeEvent ==
  /\ loop = "select" /\ queue > 0
  /\ queue' = queue - 1
  /\ resub' \in {resub, TRUE}
  /\ UNCHANGED <<err, loop, then, loopKeeps>>

\* A closed and drained events channel ends Run.
StreamEnded ==
  /\ loop = "select" /\ queue = 0 /\ eventsClosed
  /\ CloseThen("exited")
  /\ UNCHANGED <<queue, err, resub, loopKeeps>>

\* An error, or nil from the closed channel: either way, reconnect.
TakeError ==
  /\ loop = "select" /\ (err \/ errClosed)
  /\ err' = FALSE
  /\ CloseThen("subscribe")
  /\ UNCHANGED <<queue, resub, loopKeeps>>

TakeResubscribe ==
  /\ loop = "select" /\ resub
  /\ resub' = FALSE
  /\ CloseThen("subscribe")
  /\ UNCHANGED <<queue, err, loopKeeps>>

TakeDone ==
  /\ loop = "select" /\ cancelled
  /\ CloseThen("exited")
  /\ UNCHANGED <<queue, err, resub, loopKeeps>>

-----------------------------------------------------------------------------
(* Subscriber.Close: stopped is set, the connection closed, done awaited.  *)
(* A second call returns at once.                                          *)

closeKeeps == <<wire, reader, queue, err, failed, fails, then, resub, cancelled>>

CloseStop ==
  /\ loop = "stop"
  /\ loop' = IF closeOnce THEN then ELSE "closeConn"
  /\ stopped' = TRUE /\ closeOnce' = TRUE
  /\ UNCHANGED <<conn, closeKeeps>>

\* Mutant: Close does not close the connection.
CloseConnNot ==
  /\ loop = "closeConn"
  /\ loop' = "await"
  /\ UNCHANGED <<conn, stopped, closeOnce, closeKeeps>>

CloseConn ==
  /\ loop = "closeConn"
  /\ conn' = "closed"
  /\ loop' = "await"
  /\ UNCHANGED <<stopped, closeOnce, closeKeeps>>

\* Mutant: Close does not wait for the reader.
CloseAwaitNot ==
  /\ loop = "await"
  /\ loop' = then
  /\ UNCHANGED <<conn, stopped, closeOnce, closeKeeps>>

CloseAwait ==
  /\ loop = "await" /\ doneClosed
  /\ loop' = then
  /\ UNCHANGED <<conn, stopped, closeOnce, closeKeeps>>

-----------------------------------------------------------------------------
(* subscribeWithBackoff, as reconnect calls it: without end, unless ctx is *)
(* cancelled; then the loop goes on with the subscriber it just closed.    *)

Subscribed ==
  /\ loop = "subscribe" /\ ~cancelled
  /\ conn' = "open" /\ wire' = <<>>
  /\ reader' = "read" /\ queue' = 0 /\ err' = FALSE
  /\ stopped' = FALSE /\ closeOnce' = FALSE /\ failed' = FALSE
  /\ loop' = "select"
  /\ UNCHANGED <<fails, then, resub, cancelled>>

SubscribeFails ==
  /\ loop = "subscribe"
  /\ loop' = "backoff"
  /\ UNCHANGED <<sub, fails, then, resub, cancelled>>

BackoffElapses ==
  /\ loop = "backoff"
  /\ loop' = "subscribe"
  /\ UNCHANGED <<sub, fails, then, resub, cancelled>>

\* Mutant: the wait between attempts does not look at ctx.
BackoffDeaf == FALSE

BackoffCancelled ==
  /\ loop = "backoff" /\ cancelled
  /\ loop' = "select"
  /\ UNCHANGED <<sub, fails, then, resub, cancelled>>

-----------------------------------------------------------------------------
Herdr == (\E k \in Kinds : SendFrame(k)) \/ Fail

Loop ==
  \/ TakeEvent \/ StreamEnded \/ TakeError \/ TakeResubscribe \/ TakeDone
  \/ CloseStop \/ CloseConn \/ CloseAwait
  \/ Subscribed \/ SubscribeFails \/ BackoffElapses \/ BackoffCancelled

Next == Herdr \/ ReportDrift \/ Cancel \/ Reader \/ Loop

\* Goroutines keep running, and select picks at random among ready cases.
\* Herdr need not answer: Subscribed is not fair.
Fairness ==
  /\ WF_vars(Reader)
  /\ SF_vars(TakeEvent) /\ SF_vars(StreamEnded) /\ SF_vars(TakeError)
  /\ SF_vars(TakeResubscribe) /\ SF_vars(TakeDone)
  /\ WF_vars(CloseStop) /\ WF_vars(CloseConn) /\ WF_vars(CloseAwait)
  /\ WF_vars(SubscribeFails) /\ WF_vars(BackoffElapses) /\ SF_vars(BackoffCancelled)

Spec == Init /\ [][Next]_vars /\ Fairness

-----------------------------------------------------------------------------
TypeOK ==
  /\ conn \in {"open", "failed", "closed"} /\ wire \in Seq(Kinds)
  /\ reader \in {"read", "failing", "report"} \cup {Exit[i] : i \in 1..5}
  /\ queue \in 0..EventCap
  /\ err \in BOOLEAN /\ stopped \in BOOLEAN /\ closeOnce \in BOOLEAN
  /\ loop \in {"select", "stop", "closeConn", "await", "subscribe", "backoff", "exited"}
  /\ then \in {"subscribe", "exited"}
  /\ resub \in BOOLEAN /\ cancelled \in BOOLEAN /\ failed \in BOOLEAN

(* An error is reported only of a stream that failed at Herdr's end: our   *)
(* own Close, however it races the reader, never looks like a failure.     *)
ErrorMeansFailure == err => failed

(* The old reader is gone before a new subscription is made: two readers   *)
(* never run, and no old event can follow a new snapshot.                  *)
OneReader == loop \in {"subscribe", "backoff", "exited"} => reader = "gone"

(* Close returns: the reader cannot wait for the loop that waits for it,   *)
(* not even with the events channel full.                                  *)
CloseReturns == loop = "await" ~> loop # "await"

(* A failed stream is noticed: it ends in a reconnect or in Run's return.  *)
FailureNoticed == conn = "failed" ~> loop \in {"subscribe", "exited"}

(* A cancelled process stops, with its reader, from wherever it was.       *)
ShutdownCompletes == cancelled ~> (loop = "exited" /\ reader = "gone")

(* README.md:95-96: "it starts the event loop and keeps exporting until    *)
(* signalled".                                                             *)
RunsUntilSignalled == loop = "exited" => cancelled
=============================================================================
