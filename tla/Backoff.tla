------------------------------- MODULE Backoff -------------------------------
(***************************************************************************)
(* internal/app/app.go, subscribeWithBackoff: fetch a snapshot and         *)
(* subscribe, retrying after a wait that doubles.                          *)
(*                                                                         *)
(* A time.Duration is an int64 of nanoseconds, kept here as the set of its *)
(* bits: multiplying by two shifts them, and what leaves bit 63 is lost.   *)
(***************************************************************************)
EXTENDS Naturals

CONSTANTS
  MaxAttempts, \* subscribeWithBackoff's maxAttempts; 0 retries for ever
  Horizon      \* bound on the attempts looked at

VARIABLES attempt, backoff, at
vars == <<attempt, backoff, at>>

Bits(n) == {i \in 0..30 : (n \div 2^i) % 2 = 1}
Shift(B, k) == {i + k : i \in B} \cap 0..63

Second == Bits(1000000000)
ThirtySeconds == Shift(Bits(1875000000), 4)

Negative(B) == 63 \in B
Greater(B, C) == ~Negative(B) /\ \E i \in B \ C : \A j \in C \ B : j < i

Doubled(n) == Shift(Second, n - 1)
Capped(B) == IF Greater(B, ThirtySeconds) THEN ThirtySeconds ELSE B

Init == attempt = 1 /\ backoff = {} /\ at = "try"

Subscribed == at = "try" /\ at' = "subscribed" /\ UNCHANGED <<attempt, backoff>>

SubscribeFails ==
  /\ at = "try"
  /\ at' = "wait" /\ backoff' = Capped(Doubled(attempt))
  /\ UNCHANGED attempt

Elapsed ==
  /\ at = "wait" /\ attempt < Horizon
  /\ attempt' = attempt + 1
  /\ at' = IF MaxAttempts = 0 \/ attempt < MaxAttempts THEN "try" ELSE "failed"
  /\ UNCHANGED backoff

Cancelled == at = "wait" /\ at' = "failed" /\ UNCHANGED <<attempt, backoff>>

Next == Subscribed \/ SubscribeFails \/ Elapsed \/ Cancelled
Spec == Init /\ [][Next]_vars

-----------------------------------------------------------------------------
(* app.go:309-311: "retrying with capped exponential backoff": a retry     *)
(* waits a second at least, and at most thirty.                            *)
CappedBackoff ==
  at = "wait" => /\ ~Negative(backoff)
                 /\ ~Greater(Second, backoff)
                 /\ ~Greater(backoff, ThirtySeconds)
=============================================================================
