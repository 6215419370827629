---------------------------- MODULE StreamProofs -----------------------------
(***************************************************************************)
(* Proofs about module Stream, for every capacity of the events channel    *)
(* and any number of frames and failures.                                  *)
(*                                                                         *)
(* The two safety properties are about the race of Close with the reader.  *)
(* What makes them inductive is the meaning of stopped and closeOnce: a    *)
(* reader that may find its connection closed has been told to stop, and a *)
(* subscription that was closed once, and is not being closed now, has no  *)
(* reader any more.                                                        *)
(***************************************************************************)
EXTENDS Stream, SequenceTheorems, TLAPS

\* The loop is inside Subscriber.Close, past the sync.Once.
Closing == loop \in {"closeConn", "await"}

\* A failure at the reader is our Close or Herdr's end, and it knows which.
CauseKnown ==
  /\ conn = "failed" => failed
  /\ conn = "closed" /\ reader = "read" => stopped
  /\ reader = "failing" => stopped \/ failed
  /\ reader = "report" => failed
  /\ err => failed
  /\ Closing => stopped

\* Close has returned, or was never called.
CloseDone ==
  /\ Closing => closeOnce
  /\ closeOnce /\ ~Closing => reader = "gone"
  /\ loop \in {"subscribe", "backoff", "exited"} => closeOnce

\* No action leaves the ranges of the variables.
THEOREM TypeCorrect == Spec => []TypeOK
<1>1. Init => TypeOK
  <2>1. Init => wire \in Seq(Kinds)
    BY EmptySeq DEF Init
  <2>2. Init => queue \in 0..EventCap
    BY StreamAssumption DEF Init
  <2> QED
    BY <2>1, <2>2 DEF Init, TypeOK
<1>2. TypeOK /\ [Next]_vars => TypeOK'
  <2> SUFFICES ASSUME TypeOK, [Next]_vars PROVE TypeOK'
    OBVIOUS
  <2> USE DEF TypeOK, vars, sub
  <2>1. ASSUME NEW k \in Kinds, SendFrame(k) PROVE TypeOK'
    BY <2>1, AppendProperties DEF SendFrame
  <2>2. CASE Fail
    BY <2>2 DEF Fail
  <2>3. CASE ReportDrift \/ Cancel
    BY <2>3 DEF ReportDrift, Cancel
  <2>4. CASE ReadFrame
    <3>1. wire' \in Seq(Kinds)
      BY <2>4, HeadTailProperties DEF ReadFrame
    <3>2. queue' \in 0..EventCap
      BY <2>4, StreamAssumption DEF ReadFrame
    <3> QED
      BY <2>4, <3>1, <3>2 DEF ReadFrame, readerKeeps
  <2>5. CASE ReadError \/ CheckStopped \/ ReportError
    <3>1. "closeConn" \in {Exit[i] : i \in 1..5}
      BY DEF Exit
    <3>2. reader' \in {"failing", "report", "closeConn"} /\ UNCHANGED <<conn, wire, queue, readerKeeps>>
      BY <2>5 DEF ReadError, CheckStopped, ReportError
    <3>3. err' \in BOOLEAN
      BY <2>5 DEF ReadError, CheckStopped, ReportError
    <3> QED
      BY <3>1, <3>2, <3>3 DEF readerKeeps
  <2>6. ASSUME NEW i \in 1..4, ReaderExit(i) PROVE TypeOK'
    BY <2>6 DEF ReaderExit, readerKeeps, Exit
  <2>7. CASE TakeEvent
    <3>1. queue' \in 0..EventCap
      BY <2>7, StreamAssumption DEF TakeEvent
    <3> QED
      BY <2>7, <3>1 DEF TakeEvent, loopKeeps
  <2>8. CASE StreamEnded \/ TakeError \/ TakeResubscribe \/ TakeDone
    BY <2>8 DEF StreamEnded, TakeError, TakeResubscribe, TakeDone, CloseThen, loopKeeps
  <2>9. CASE CloseStop \/ CloseConn \/ CloseAwait
    BY <2>9 DEF CloseStop, CloseConn, CloseAwait, closeKeeps
  <2>10. CASE Subscribed
    <3>1. wire' \in Seq(Kinds)
      BY <2>10, EmptySeq DEF Subscribed
    <3>2. queue' \in 0..EventCap
      BY <2>10, StreamAssumption DEF Subscribed
    <3> QED
      BY <2>10, <3>1, <3>2 DEF Subscribed
  <2>11. CASE SubscribeFails \/ BackoffElapses \/ BackoffCancelled
    BY <2>11 DEF SubscribeFails, BackoffElapses, BackoffCancelled
  <2>12. CASE UNCHANGED vars
    BY <2>12
  <2> QED
    BY <2>1, <2>2, <2>3, <2>4, <2>5, <2>6, <2>7, <2>8, <2>9, <2>10, <2>11, <2>12
       DEF Next, Herdr, Reader, Loop
<1> QED
  BY <1>1, <1>2, PTL DEF Spec

\* An error on the channel is a failure at Herdr's end, however our Close
\* races the reader between its failed read and its look at stopped.
THEOREM ErrorsAreFailures == Spec => []ErrorMeansFailure
<1>1. Init => CauseKnown
  BY DEF Init, CauseKnown, Closing
<1>2. CauseKnown /\ [Next]_vars => CauseKnown'
  <2> SUFFICES ASSUME CauseKnown, [Next]_vars PROVE CauseKnown'
    OBVIOUS
  <2> USE DEF CauseKnown, Closing, vars, sub
  <2>1. ASSUME NEW k \in Kinds, SendFrame(k) PROVE CauseKnown'
    BY <2>1 DEF SendFrame
  <2>2. CASE Fail \/ ReportDrift \/ Cancel
    BY <2>2 DEF Fail, ReportDrift, Cancel
  <2>3. CASE ReadFrame
    BY <2>3 DEF ReadFrame, readerKeeps
  <2>4. CASE ReadError \/ CheckStopped \/ ReportError
    BY <2>4 DEF ReadError, CheckStopped, ReportError, readerKeeps
  <2>5. ASSUME NEW i \in 1..4, ReaderExit(i) PROVE CauseKnown'
    BY <2>5 DEF ReaderExit, readerKeeps, Exit
  <2>6. CASE TakeEvent \/ StreamEnded \/ TakeError \/ TakeResubscribe \/ TakeDone
    <3>1. UNCHANGED loopKeeps
      BY <2>6 DEF TakeEvent, StreamEnded, TakeError, TakeResubscribe, TakeDone
    <3>2. err' => err
      BY <2>6 DEF TakeEvent, StreamEnded, TakeError, TakeResubscribe, TakeDone
    <3>3. loop' \in {loop, "stop"}
      BY <2>6 DEF TakeEvent, StreamEnded, TakeError, TakeResubscribe, TakeDone, CloseThen
    <3> QED
      BY <3>1, <3>2, <3>3 DEF loopKeeps
  <2>7. CASE CloseStop
    <3>1. stopped' /\ UNCHANGED <<conn, reader, err, failed>>
      BY <2>7 DEF CloseStop, closeKeeps
    <3> QED
      BY <3>1
  <2>8. CASE CloseConn \/ CloseAwait
    BY <2>8 DEF CloseConn, CloseAwait, closeKeeps
  <2>9. CASE Subscribed
    BY <2>9 DEF Subscribed
  <2>10. CASE SubscribeFails \/ BackoffElapses \/ BackoffCancelled
    BY <2>10 DEF SubscribeFails, BackoffElapses, BackoffCancelled
  <2>11. CASE UNCHANGED vars
    BY <2>11
  <2> QED
    BY <2>1, <2>2, <2>3, <2>4, <2>5, <2>6, <2>7, <2>8, <2>9, <2>10, <2>11
       DEF Next, Herdr, Reader, Loop
<1>3. CauseKnown => ErrorMeansFailure
  BY DEF CauseKnown, ErrorMeansFailure
<1> QED
  BY <1>1, <1>2, <1>3, PTL DEF Spec

\* The old reader is gone before a subscription is made, also when the loop
\* closes a subscription a second time after a cancelled reconnect.
THEOREM NoSecondReader == Spec => []OneReader
<1>1. Init => CloseDone
  BY DEF Init, CloseDone, Closing
<1>2. CloseDone /\ [Next]_vars => CloseDone'
  <2> SUFFICES ASSUME CloseDone, [Next]_vars PROVE CloseDone'
    OBVIOUS
  <2> USE DEF CloseDone, Closing, vars, sub
  <2>1. CASE Herdr \/ ReportDrift \/ Cancel
    BY <2>1 DEF Herdr, SendFrame, Fail, ReportDrift, Cancel
  <2>2. CASE Reader
    <3>1. reader # "gone" /\ UNCHANGED <<closeOnce, loop>>
      BY <2>2 DEF Reader, ReadFrame, ReadError, CheckStopped, ReportError, ReaderExit,
                  readerKeeps, Exit
    <3> QED
      BY <3>1
  <2>3. CASE TakeEvent \/ StreamEnded \/ TakeError \/ TakeResubscribe \/ TakeDone
    <3>1. UNCHANGED loopKeeps
      BY <2>3 DEF TakeEvent, StreamEnded, TakeError, TakeResubscribe, TakeDone
    <3>2. loop = "select" /\ loop' \in {"select", "stop"}
      BY <2>3 DEF TakeEvent, StreamEnded, TakeError, TakeResubscribe, TakeDone, CloseThen
    <3> QED
      BY <3>1, <3>2 DEF loopKeeps
  <2>4. CASE CloseStop
    <3>1. closeOnce' /\ reader' = reader /\ loop' = IF closeOnce THEN then ELSE "closeConn"
      BY <2>4 DEF CloseStop, closeKeeps
    <3> QED
      BY <2>4, <3>1 DEF CloseStop
  <2>5. CASE CloseConn \/ CloseAwait
    BY <2>5 DEF CloseConn, CloseAwait, closeKeeps, doneClosed
  <2>6. CASE Subscribed
    BY <2>6 DEF Subscribed
  <2>7. CASE SubscribeFails \/ BackoffElapses \/ BackoffCancelled
    BY <2>7 DEF SubscribeFails, BackoffElapses, BackoffCancelled
  <2>8. CASE UNCHANGED vars
    BY <2>8
  <2> QED
    BY <2>1, <2>2, <2>3, <2>4, <2>5, <2>6, <2>7, <2>8 DEF Next, Loop
<1>3. CloseDone => OneReader
  BY DEF CloseDone, OneReader, Closing
<1> QED
  BY <1>1, <1>2, <1>3, PTL DEF Spec
=============================================================================
